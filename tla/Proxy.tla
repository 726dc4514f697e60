------------------------------- MODULE Proxy --------------------------------
(***************************************************************************)
(* A gateway: the loop around modbus_proxy (src/modbus.c) that takes one   *)
(* request after another from a TCP frontend, sends each to a device       *)
(* behind a TCP or RTU backend, and relays what the device answers.        *)
(*                                                                         *)
(* Every request goes to the backend with transaction identifier 0, and    *)
(* the identifier of every answer is 0, so identifiers of the backend tell *)
(* nothing apart and are left out.  Numbers of requests stand for the      *)
(* identifiers of the frontend.  The frontend stays connected.             *)
(***************************************************************************)
EXTENDS Integers, Sequences

CONSTANTS
  Slaves,         \* the slaves the requests are for
  MaxSlave,       \* 247, or 255 with MODBUS_QUIRK_MAX_SLAVE
  SleepSuffices,  \* what is under way arrives within the response timeout
  MaxRequests     \* bound: the requests that come

MODBUS_TCP_SLAVE == 255
MODBUS_BROADCAST_ADDRESS == 0

ASSUME ProxyAssumption ==
  /\ Slaves \subseteq 0..255 /\ MaxSlave \in {247, 255}
  /\ SleepSuffices \in BOOLEAN /\ MaxRequests \in Nat

VARIABLES
  backend,    \* "TCP" or "RTU", the kind of backend_ctx
  recovery,   \* backend_ctx->error_recovery: subset of {"LINK", "PROTOCOL"}
  sent,       \* sent[n]: the slave of request n
  received,   \* the request modbus_receive returned last
  slave,      \* backend_ctx->slave
  phase,      \* "idle", "sending", "waiting", "sleeping" before a flush
  replies,    \* what the frontend was sent: to which request, what, and whose
  connected,  \* backend_ctx->s >= 0
  broken,     \* the connection is gone, and the proxy has yet to notice
  requests,   \* sent, and not yet handled by the device
  flight,     \* answers on their way
  inbox,      \* answers the proxy can read
  handled     \* history: handled[n], how often a device has handled request n

options == <<backend, recovery>>
frontend == <<options, sent>>
proxy == <<received, slave, phase, replies>>
link == <<connected, broken>>
queues == <<requests, flight, inbox>>
vars == <<frontend, proxy, link, queues, handled>>

(***************************************************************************)
(* The frontend.                                                           *)
(***************************************************************************)
Ask(s) ==
  /\ Len(sent) < MaxRequests
  /\ sent' = Append(sent, s)
  /\ UNCHANGED <<options, proxy, link, queues, handled>>

(* send_msg and modbus_reply_exception on the frontend: modbus_proxy       *)
(* returns.                                                                *)
Reply(n, result, of) ==
  /\ replies' = Append(replies, [to |-> n, result |-> result, of |-> of])
  /\ phase' = "idle"
  /\ UNCHANGED frontend

Nobody == 0

(* What modbus_proxy ends with, once it has asked the backend. *)
End(result, of) == Reply(received, result, of) /\ UNCHANGED <<received, slave>>

(* modbus_receive, and the next call of modbus_proxy. *)
Receive ==
  /\ phase = "idle" /\ received < Len(sent)
  /\ received' = received + 1

SlaveAllowed(s) == s <= MaxSlave \/ (backend = "TCP" /\ s = MODBUS_TCP_SLAVE)

Forward ==
  /\ Receive
  /\ SlaveAllowed(sent[received'])
  /\ slave' = sent[received'] /\ phase' = "sending"
  /\ UNCHANGED <<frontend, replies, link, queues, handled>>

Refuse ==
  /\ Receive
  /\ ~SlaveAllowed(sent[received'])
  /\ Reply(received', "GATEWAY_PATH", Nobody)
  /\ UNCHANGED <<slave, link, queues, handled>>

(***************************************************************************)
(* Sending to the backend: send_msg.                                       *)
(***************************************************************************)
Orphaned(s) == [ i \in DOMAIN s |-> [s[i] EXCEPT !.live = FALSE] ]

(* What a sleep of the response timeout leaves to a flush. *)
Settled == SleepSuffices => requests = <<>> /\ flight = <<>>

Send ==
  /\ phase = "sending" /\ connected /\ ~broken
  /\ requests' = Append(requests, [of |-> received, slave |-> slave, live |-> TRUE])
  /\ phase' = "waiting"
  /\ UNCHANGED <<frontend, received, slave, replies, link, flight, inbox, handled>>

SendFails ==
  /\ phase = "sending" /\ "LINK" \notin recovery
  /\ End("GATEWAY_PATH", Nobody)
  /\ UNCHANGED <<link, queues, handled>>

(* close and connect *)
Connect == connected' = TRUE /\ broken' = FALSE

FailToConnect == connected' = FALSE /\ broken' = FALSE

(* A new connection has no bytes in it. *)
Reconnect ==
  /\ Connect \/ FailToConnect
  /\ requests' = Orphaned(requests) /\ flight' = <<>> /\ inbox' = <<>>

SendReconnects ==
  /\ phase = "sending" /\ (~connected \/ broken)
  /\ "LINK" \in recovery
  /\ Reconnect
  /\ UNCHANGED <<frontend, proxy, handled>>

SendFlushes ==
  /\ phase = "sending" /\ connected /\ ~broken
  /\ "LINK" \in recovery /\ Settled
  /\ inbox' = <<>>
  /\ UNCHANGED <<frontend, proxy, link, requests, flight, handled>>

(***************************************************************************)
(* The answer: _modbus_receive_msg and the check of its header.            *)
(***************************************************************************)
Take ==
  /\ phase = "waiting" /\ inbox # <<>>
  /\ inbox' = Tail(inbox)
  /\ UNCHANGED <<link, requests, flight, handled>>

(* Seeded fault: only pre_check_confirmation, which a broadcast passes. *)
FromSlave_OrBroadcast(a) ==
  backend = "RTU" => a.slave = slave \/ slave = MODBUS_BROADCAST_ADDRESS

(* Over RTU the message of another slave has length 0 (check_integrity),   *)
(* and does not pass for an answer, not even to a broadcast.               *)
FromSlave(a) == backend = "RTU" => a.slave = slave

RelayAnswer ==
  /\ Take /\ FromSlave(Head(inbox))
  /\ End("relayed", Head(inbox).of)

(* No flush here, whatever the recovery. *)
RejectAnswer ==
  /\ Take /\ ~FromSlave(Head(inbox))
  /\ End("GATEWAY_TARGET", Nobody)

(* EMBBADCRC *)
ReceiveDamaged ==
  /\ backend = "RTU" /\ phase = "waiting" /\ inbox # <<>>
  /\ inbox' = IF "PROTOCOL" \in recovery THEN <<>> ELSE Tail(inbox)
  /\ End("GATEWAY_PATH", Nobody)
  /\ UNCHANGED <<link, requests, flight, handled>>

Timeout ==
  /\ phase = "waiting" /\ inbox = <<>> /\ ~broken
  /\ "LINK" \notin recovery
  /\ End("GATEWAY_TARGET", Nobody)
  /\ UNCHANGED <<link, queues, handled>>

(* Seeded fault: the sleep is left out, and the flush finds nothing. *)
TimeoutSleeps_NotAtAll ==
  /\ phase = "waiting" /\ inbox = <<>> /\ ~broken
  /\ "LINK" \in recovery
  /\ End("GATEWAY_TARGET", Nobody)
  /\ UNCHANGED <<link, queues, handled>>

(* LINK: sleep for the response timeout, flush, and only then return. *)
TimeoutSleeps ==
  /\ phase = "waiting" /\ inbox = <<>> /\ ~broken
  /\ "LINK" \in recovery
  /\ phase' = "sleeping"
  /\ UNCHANGED <<frontend, received, slave, replies, link, queues, handled>>

Flush ==
  /\ phase = "sleeping" /\ Settled
  /\ inbox' = <<>>
  /\ End("GATEWAY_TARGET", Nobody)
  /\ UNCHANGED <<link, requests, flight, handled>>

(* Seeded fault: modbus_proxy returns without an answer. *)
LoseConnection_Silently ==
  /\ phase = "waiting" /\ inbox = <<>> /\ broken
  /\ IF "LINK" \in recovery THEN Reconnect ELSE UNCHANGED <<link, queues>>
  /\ phase' = "idle"
  /\ UNCHANGED <<frontend, received, slave, replies, handled>>

(* Seeded fault: the request is sent again on the new connection. *)
LoseConnection_SendsAgain ==
  /\ phase = "waiting" /\ inbox = <<>> /\ broken
  /\ IF "LINK" \in recovery THEN Reconnect ELSE UNCHANGED <<link, queues>>
  /\ phase' = "sending"
  /\ UNCHANGED <<frontend, received, slave, replies, handled>>

(* ECONNRESET; LINK closes and connects once. *)
LoseConnection ==
  /\ phase = "waiting" /\ inbox = <<>> /\ broken
  /\ IF "LINK" \in recovery THEN Reconnect ELSE UNCHANGED <<link, queues>>
  /\ End("GATEWAY_PATH", Nobody)
  /\ UNCHANGED handled

(***************************************************************************)
(* The device and the link to it.                                          *)
(***************************************************************************)

(* A broadcast over RTU is handled and not answered. *)
Handle ==
  /\ requests # <<>>
  /\ LET r == Head(requests)
         answered == r.live /\ ~(backend = "RTU" /\ r.slave = MODBUS_BROADCAST_ADDRESS)
     IN  /\ flight' = IF answered
                      THEN Append(flight, [of |-> r.of, slave |-> r.slave]) ELSE flight
         /\ handled' = [handled EXCEPT ![r.of] = @ + 1]
  /\ requests' = Tail(requests)
  /\ UNCHANGED <<frontend, proxy, link, inbox>>

Deliver ==
  /\ flight # <<>>
  /\ inbox' = Append(inbox, Head(flight)) /\ flight' = Tail(flight)
  /\ UNCHANGED <<frontend, proxy, link, requests, handled>>

(* No slave of that number, or a connection that is gone. *)
LoseRequest ==
  /\ requests # <<>>
  /\ backend = "RTU" \/ ~Head(requests).live
  /\ requests' = Tail(requests)
  /\ UNCHANGED <<frontend, proxy, link, flight, inbox, handled>>

Break ==
  /\ backend = "TCP" /\ connected /\ ~broken
  /\ broken' = TRUE
  /\ requests' = Orphaned(requests) /\ flight' = <<>>
  /\ UNCHANGED <<frontend, proxy, connected, inbox, handled>>

(***************************************************************************)
(* The specification.                                                      *)
(***************************************************************************)
Init ==
  /\ backend \in {"TCP", "RTU"} /\ recovery \in SUBSET {"LINK", "PROTOCOL"}
  /\ sent = <<>> /\ received = 0
  /\ slave = IF backend = "TCP" THEN MODBUS_TCP_SLAVE ELSE -1
  /\ phase = "idle" /\ replies = <<>>
  /\ connected = TRUE /\ broken = FALSE
  /\ requests = <<>> /\ flight = <<>> /\ inbox = <<>>
  /\ handled = [n \in 1..MaxRequests |-> 0]

Sending == Send \/ SendFails \/ SendReconnects \/ SendFlushes

Receiving ==
  \/ RelayAnswer \/ RejectAnswer \/ ReceiveDamaged
  \/ Timeout \/ TimeoutSleeps \/ Flush \/ LoseConnection

Next ==
  \/ \E s \in Slaves : Ask(s)
  \/ Forward \/ Refuse
  \/ Sending \/ Receiving
  \/ Handle \/ Deliver \/ LoseRequest \/ Break

Spec == Init /\ [][Next]_vars

(* The proxy runs, what is sent arrives, and a device that was lost can be *)
(* reached again, at last, and then takes a request.                       *)
FairSpec ==
  /\ Spec
  /\ WF_vars(Forward) /\ WF_vars(Refuse)
  /\ WF_vars(SendFails) /\ WF_vars(Receiving)
  /\ WF_vars(Handle) /\ WF_vars(Deliver)
  /\ SF_vars(Send) /\ SF_vars(SendReconnects /\ Connect)

(***************************************************************************)
(* Properties.                                                             *)
(***************************************************************************)

(* Every request is answered, once, in order and with its own identifier,  *)
(* whatever goes wrong with the backend, and however often its sends are   *)
(* repeated no device handles a request twice: the loop of modbus_proxy is *)
(* a Gateway.                                                              *)
Misdirected == -1

Relays ==
  [ n \in DOMAIN replies |-> IF replies[n].to = n THEN replies[n].of ELSE Misdirected ]

Contract == INSTANCE Gateway WITH replies <- Relays

ImplementsGateway == Contract!Spec

RelayedReplies == { n \in DOMAIN replies : replies[n].result = "relayed" }

(* The response is relayed "back to the original requester"                *)
(* (docs/modbus_proxy.md): what a requester gets is the answer of its own  *)
(* request.                                                                *)
RelaysOwn == \A n \in RelayedReplies : replies[n].of = n

(* So it is under LINK recovery, when the sleep before its flush is long   *)
(* enough for what is under way (_modbus_receive_msg).                     *)
RelaysOwnUnderLink == SleepSuffices /\ "LINK" \in recovery => RelaysOwn

(* Over RTU a late answer never goes to a requester of another slave       *)
(* (pre_check_confirmation and check_integrity of modbus-rtu.c).           *)
RelaysFromSlave ==
  backend = "RTU" => \A n \in RelayedReplies : sent[replies[n].of] = sent[n]

Results == {"relayed", "GATEWAY_PATH", "GATEWAY_TARGET"}

Request == [of : 1..MaxRequests, slave : Slaves, live : BOOLEAN]
Answer == [of : 1..MaxRequests, slave : Slaves]

(* The type invariant.  modbus_proxy, when it returns, has answered. *)
TypeOK ==
  /\ backend \in {"TCP", "RTU"} /\ recovery \subseteq {"LINK", "PROTOCOL"}
  /\ sent \in Seq(Slaves) /\ Len(sent) <= MaxRequests
  /\ received \in 0..Len(sent) /\ slave \in Slaves \union {MODBUS_TCP_SLAVE, -1}
  /\ phase \in {"idle", "sending", "waiting", "sleeping"}
  /\ phase # "idle" => received > 0
  /\ replies \in Seq([to : 1..MaxRequests, result : Results, of : 0..MaxRequests])
  /\ Len(replies) = IF phase = "idle" THEN received ELSE received - 1
  /\ connected \in BOOLEAN /\ broken \in BOOLEAN
  /\ requests \in Seq(Request) /\ flight \in Seq(Answer) /\ inbox \in Seq(Answer)
  /\ handled \in [1..MaxRequests -> Nat]

(***************************************************************************)
(* The inductive invariants, of RelaysFromSlave and RelaysOwnUnderLink     *)
(* first, and then of the promises of a Gateway.                           *)
(***************************************************************************)

(* Messages carry the slave of their request, and requests have been made. *)
Addressed(s) ==
  \A i \in DOMAIN s : s[i].of <= received /\ s[i].slave = sent[s[i].of]

Addressing ==
  /\ Addressed(requests) /\ Addressed(flight) /\ Addressed(inbox)
  /\ phase # "idle" => slave = sent[received]
  /\ \A n \in RelayedReplies : replies[n].of \in 1..received

NoneLive(s) == \A i \in DOMAIN s : ~s[i].live

(* With LINK and a sleep that suffices, one message is under way at most:  *)
(* the present request or its answer, and none between two calls.          *)
OneAtATime ==
  SleepSuffices /\ "LINK" \in recovery =>
    /\ phase \in {"idle", "sending"} => NoneLive(requests) /\ flight = <<>> /\ inbox = <<>>
    /\ inbox # <<>> => Len(inbox) = 1 /\ flight = <<>> /\ NoneLive(requests)
    /\ flight # <<>> => Len(flight) = 1 /\ NoneLive(requests)
    /\ \A i, j \in DOMAIN requests : requests[i].live /\ requests[j].live => i = j
    /\ \A i \in DOMAIN requests : requests[i].live => requests[i].of = received
    /\ \A i \in DOMAIN flight : flight[i].of = received
    /\ \A i \in DOMAIN inbox : inbox[i].of = received

RelayInv == TypeOK /\ Addressing /\ OneAtATime /\ RelaysFromSlave /\ RelaysOwnUnderLink

(* A request is in one place at a time: to be handled, as an answer on its *)
(* way, as one that can be read, or relayed.                               *)
Numbers(s) == { s[i].of : i \in DOMAIN s }

Distinct(s) == \A i, j \in DOMAIN s : s[i].of = s[j].of => i = j

Answered == { replies[n].of : n \in DOMAIN replies } \ {Nobody}

InOnePlace ==
  /\ Distinct(requests) /\ Distinct(flight) /\ Distinct(inbox)
  /\ Numbers(flight) \intersect Numbers(inbox) = {}
  /\ (Numbers(flight) \union Numbers(inbox)) \intersect Answered = {}
  /\ \A n \in Numbers(requests) : handled[n] = 0 /\ (n = received => phase # "sending")
  /\ \A n \in Numbers(flight) \union Numbers(inbox) \union Answered : handled[n] = 1
  /\ \A n \in 1..MaxRequests :
       n > received \/ (n = received /\ phase = "sending") => handled[n] = 0
  /\ \A n \in DOMAIN replies : replies[n].to = n

IInv == RelayInv /\ InOnePlace
=============================================================================
