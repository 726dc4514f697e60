---------------------------- MODULE Proxy_proofs ----------------------------
(***************************************************************************)
(* For any number of requests to any slaves: with LINK recovery, and a     *)
(* sleep long enough, the proxy relays to every requester its own answer;  *)
(* over RTU it never relays one of another slave.                          *)
(* And under every recovery, whatever is repeated or lost, each of its     *)
(* steps is one of a Gateway: a request is in one place at a time, so it   *)
(* is handled once at most, and an answer is relayed once at most.         *)
(***************************************************************************)
EXTENDS Proxy, SequenceTheorems, TLAPS

(***************************************************************************)
(* Sequences of messages.                                                  *)
(***************************************************************************)

(* The first message of a queue, and the queue without it. *)
LEMMA HeadAndTail ==
  ASSUME NEW X, NEW s \in Seq(X), s # <<>>
  PROVE  /\ 1 \in DOMAIN s /\ Head(s) = s[1] /\ Head(s) \in X
         /\ Tail(s) \in Seq(X) /\ Len(Tail(s)) = Len(s) - 1
         /\ \A i \in DOMAIN Tail(s) : i + 1 \in DOMAIN s /\ Tail(s)[i] = s[i + 1]
<1>1. Len(s) \in Nat \ {0} /\ 1 \in DOMAIN s /\ Head(s) = s[1]
  OBVIOUS
<1>2. \A i \in DOMAIN Tail(s) : i + 1 \in DOMAIN s /\ Tail(s)[i] = s[i + 1]
  OBVIOUS
<1>3. Tail(s) \in Seq(X) /\ Len(Tail(s)) = Len(s) - 1
  OBVIOUS
<1> QED
  BY <1>1, <1>2, <1>3

(* A queue with one more message. *)
LEMMA Appended ==
  ASSUME NEW X, NEW s \in Seq(X), NEW m \in X
  PROVE  /\ Append(s, m) \in Seq(X) /\ Len(Append(s, m)) = Len(s) + 1
         /\ DOMAIN Append(s, m) = 1..(Len(s) + 1) /\ DOMAIN s = 1..Len(s)
         /\ \A i \in DOMAIN s : Append(s, m)[i] = s[i]
         /\ \A i \in DOMAIN Append(s, m) : i \in DOMAIN s \/ i = Len(s) + 1
         /\ Append(s, m)[Len(s) + 1] = m
OBVIOUS

(* Of a queue with one message nothing is left. *)
LEMMA TailOfOne ==
  ASSUME NEW X, NEW s \in Seq(X), Len(s) = 1
  PROVE  Tail(s) = <<>>
<1>1. Tail(s) \in Seq(X) /\ Len(Tail(s)) = 0
  OBVIOUS
<1> QED
  BY <1>1, EmptySeq

(* Orphaned requests are the same requests, of no connection. *)
LEMMA OrphanedRequests ==
  ASSUME NEW s \in Seq(Request)
  PROVE  /\ Orphaned(s) \in Seq(Request) /\ DOMAIN Orphaned(s) = DOMAIN s
         /\ \A i \in DOMAIN s : /\ Orphaned(s)[i].of = s[i].of
                                /\ Orphaned(s)[i].slave = s[i].slave
         /\ NoneLive(Orphaned(s))
<1>1. \A i \in DOMAIN s : s[i] \in Request
  OBVIOUS
<1>2. ASSUME NEW m \in Request
      PROVE  /\ [m EXCEPT !.live = FALSE] \in Request
             /\ [m EXCEPT !.live = FALSE].of = m.of
             /\ [m EXCEPT !.live = FALSE].slave = m.slave
             /\ ~[m EXCEPT !.live = FALSE].live
  BY DEF Request
<1>3. Orphaned(s) = [i \in 1..Len(s) |-> [s[i] EXCEPT !.live = FALSE]]
  BY DEF Orphaned
<1>4. Orphaned(s) \in Seq(Request) /\ DOMAIN Orphaned(s) = DOMAIN s
  BY <1>1, <1>2, <1>3
<1> QED
  BY <1>1, <1>2, <1>4 DEF Orphaned, NoneLive

(* Messages belong to requests. *)
LEMMA NumbersOfRequests ==
  ASSUME NEW X \in {Request, Answer}, NEW s \in Seq(X)
  PROVE  \A i \in DOMAIN s : s[i].of \in 1..MaxRequests /\ s[i].slave \in Slaves
<1>1. \A i \in DOMAIN s : s[i] \in X
  OBVIOUS
<1>2. CASE X = Request
  BY <1>1, <1>2 DEF Request
<1>3. CASE X = Answer
  BY <1>1, <1>3 DEF Answer
<1> QED
  BY <1>2, <1>3

(* What is said of a queue is said of what is left of it, ...              *)
LEMMA AddressedTail ==
  ASSUME NEW X \in {Request, Answer}, NEW s \in Seq(X), s # <<>>, Addressed(s)
  PROVE  /\ Head(s) \in X /\ Tail(s) \in Seq(X) /\ Addressed(Tail(s))
         /\ Head(s).of <= received /\ Head(s).slave = sent[Head(s).of]
<1>1. /\ 1 \in DOMAIN s /\ Head(s) = s[1] /\ Head(s) \in X /\ Tail(s) \in Seq(X)
      /\ \A i \in DOMAIN Tail(s) : i + 1 \in DOMAIN s /\ Tail(s)[i] = s[i + 1]
  BY HeadAndTail
<1> QED
  BY <1>1 DEF Addressed

(* ... and of a queue with one more message of which it is true.           *)
LEMMA AddressedAppend ==
  ASSUME NEW X \in {Request, Answer}, NEW s \in Seq(X), Addressed(s),
         NEW m \in X, m.of <= received, m.slave = sent[m.of]
  PROVE  Append(s, m) \in Seq(X) /\ Addressed(Append(s, m))
<1>1. /\ Append(s, m) \in Seq(X) /\ DOMAIN s = 1..Len(s)
      /\ \A i \in DOMAIN s : Append(s, m)[i] = s[i]
      /\ \A i \in DOMAIN Append(s, m) : i \in DOMAIN s \/ i = Len(s) + 1
      /\ Append(s, m)[Len(s) + 1] = m
  BY Appended
<1> QED
  BY <1>1 DEF Addressed

(* An empty queue. *)
LEMMA AddressedEmpty ==
  ASSUME NEW X
  PROVE  <<>> \in Seq(X) /\ Addressed(<<>>)
BY DEF Addressed

(***************************************************************************)
(* The end of a call of modbus_proxy.                                      *)
(***************************************************************************)

(* The invariant in terms of the queues alone, which no step changes       *)
(* otherwise than by these lemmas.                                         *)
QueuesOK ==
  /\ requests \in Seq(Request) /\ flight \in Seq(Answer) /\ inbox \in Seq(Answer)
  /\ Addressed(requests) /\ Addressed(flight) /\ Addressed(inbox)

(* An answer to the frontend, which is the device's own if it is relayed. *)
LEMMA EndStep ==
  ASSUME RelayInv, phase # "idle",
         NEW result \in Results, NEW of \in 0..received, End(result, of),
         result = "relayed" => of \in 1..received,
         result = "relayed" /\ backend = "RTU" => sent[of] = slave,
         result = "relayed" /\ SleepSuffices /\ "LINK" \in recovery => of = received,
         QueuesOK', connected' \in BOOLEAN, broken' \in BOOLEAN, UNCHANGED handled
  PROVE  TypeOK' /\ Addressing' /\ RelaysFromSlave' /\ RelaysOwnUnderLink'
<1> DEFINE X == [to : 1..MaxRequests, result : Results, of : 0..MaxRequests]
           r == [to |-> received, result |-> result, of |-> of]
<1>1. /\ received \in 1..MaxRequests /\ received \in 0..Len(sent)
      /\ replies \in Seq(X) /\ Len(replies) + 1 = received
      /\ of \in 0..MaxRequests
  BY ProxyAssumption DEF RelayInv, TypeOK
<1>2. r \in X /\ replies' = Append(replies, r) /\ phase' = "idle"
      /\ UNCHANGED <<frontend, received, slave>>
  BY <1>1 DEF End, Reply
<1>3. /\ replies' \in Seq(X) /\ Len(replies') = received
      /\ received \in DOMAIN replies' /\ replies'[received] = r
      /\ \A n \in DOMAIN replies' :
           n = received \/ (n \in DOMAIN replies /\ replies'[n] = replies[n])
  <2> HIDE DEF X, r
  <2>1. /\ Append(replies, r) \in Seq(X) /\ Len(Append(replies, r)) = Len(replies) + 1
        /\ DOMAIN Append(replies, r) = 1..(Len(replies) + 1) /\ DOMAIN replies = 1..Len(replies)
        /\ \A i \in DOMAIN replies : Append(replies, r)[i] = replies[i]
        /\ \A i \in DOMAIN Append(replies, r) : i \in DOMAIN replies \/ i = Len(replies) + 1
        /\ Append(replies, r)[Len(replies) + 1] = r
    BY <1>1, <1>2, Appended
  <2> QED
    BY <1>1, <1>2, <2>1
<1>4. r.result = result /\ r.of = of
  OBVIOUS
<1>5. TypeOK'
  BY <1>1, <1>2, <1>3 DEF RelayInv, TypeOK, QueuesOK, frontend, options
<1>6. \A n \in RelayedReplies' :
        (n = received /\ result = "relayed" /\ replies'[n].of = of)
          \/ (n \in RelayedReplies /\ replies'[n] = replies[n])
  <2> HIDE DEF r
  <2> QED
    BY <1>3, <1>4 DEF RelayedReplies
<1>7. Addressing'
  BY <1>2, <1>6 DEF RelayInv, Addressing, QueuesOK, frontend, options
<1>8. RelaysFromSlave'
  BY <1>2, <1>6 DEF RelayInv, Addressing, RelaysFromSlave, frontend, options
<1>9. RelaysOwnUnderLink'
  <2> SUFFICES ASSUME SleepSuffices, "LINK" \in recovery, NEW n \in RelayedReplies'
               PROVE  replies'[n].of = n
    BY <1>2 DEF RelaysOwnUnderLink, RelaysOwn, frontend, options
  <2>1. \A m \in RelayedReplies : replies[m].of = m
    BY DEF RelayInv, RelaysOwnUnderLink, RelaysOwn
  <2> QED
    BY <1>6, <2>1
<1> QED
  BY <1>5, <1>7, <1>8, <1>9

(* A step of the link, or of the proxy within a call. *)
LEMMA KeepStep ==
  ASSUME RelayInv, UNCHANGED <<frontend, received, slave, replies>>,
         phase' = phase \/ (phase # "idle" /\ phase' \in {"sending", "waiting", "sleeping"}),
         QueuesOK', connected' \in BOOLEAN, broken' \in BOOLEAN,
         handled' \in [1..MaxRequests -> Nat]
  PROVE  TypeOK' /\ Addressing' /\ RelaysFromSlave' /\ RelaysOwnUnderLink'
<1>1. TypeOK'
  BY DEF RelayInv, TypeOK, QueuesOK, frontend, options
<1>2. Addressing'
  BY DEF RelayInv, Addressing, QueuesOK, RelayedReplies, frontend, options
<1>3. RelaysFromSlave'
  BY DEF RelayInv, RelaysFromSlave, RelayedReplies, frontend, options
<1>4. RelaysOwnUnderLink'
  BY DEF RelayInv, RelaysOwnUnderLink, RelaysOwn, RelayedReplies, frontend, options
<1> QED
  BY <1>1, <1>2, <1>3, <1>4

(* The queues, when nothing is said of the requests that have come. *)
LEMMA QueuesNow == RelayInv => QueuesOK /\ connected \in BOOLEAN /\ broken \in BOOLEAN
BY DEF RelayInv, TypeOK, Addressing, QueuesOK

(***************************************************************************)
(* The steps.                                                              *)
(***************************************************************************)

(* At first there is nothing. *)
LEMMA InitInvariant == Init => RelayInv
<1> SUFFICES ASSUME Init PROVE RelayInv
  OBVIOUS
<1>1. TypeOK
  <2>1. /\ <<>> \in Seq(Slaves) /\ <<>> \in Seq(Request) /\ <<>> \in Seq(Answer)
        /\ <<>> \in Seq([to : 1..MaxRequests, result : Results, of : 0..MaxRequests])
        /\ Len(<<>>) = 0
    BY EmptySeq
  <2>2. slave \in Slaves \union {MODBUS_TCP_SLAVE, -1}
    BY DEF Init
  <2>3. handled \in [1..MaxRequests -> Nat]
    BY DEF Init
  <2>4. /\ Len(sent) = 0 /\ received \in 0..Len(sent) /\ Len(sent) <= MaxRequests
        /\ Len(replies) = received /\ phase = "idle"
    BY <2>1, ProxyAssumption DEF Init
  <2>5. /\ sent \in Seq(Slaves) /\ requests \in Seq(Request)
        /\ flight \in Seq(Answer) /\ inbox \in Seq(Answer)
        /\ replies \in Seq([to : 1..MaxRequests, result : Results, of : 0..MaxRequests])
    BY <2>1 DEF Init
  <2>6. /\ backend \in {"TCP", "RTU"} /\ recovery \subseteq {"LINK", "PROTOCOL"}
        /\ connected \in BOOLEAN /\ broken \in BOOLEAN
    BY DEF Init
  <2> QED
    BY <2>2, <2>3, <2>4, <2>5, <2>6 DEF TypeOK
<1>2. Addressing /\ RelaysFromSlave /\ RelaysOwnUnderLink
  BY DEF Init, Addressing, Addressed, RelayedReplies, RelaysFromSlave,
         RelaysOwnUnderLink, RelaysOwn
<1>3. OneAtATime
  BY DEF Init, OneAtATime, NoneLive
<1> QED
  BY <1>1, <1>2, <1>3 DEF RelayInv

(* A request comes: those before it stay where they are. *)
LEMMA AskStep == RelayInv /\ (\E s \in Slaves : Ask(s)) => RelayInv'
<1> SUFFICES ASSUME RelayInv, NEW s \in Slaves, Ask(s) PROVE RelayInv'
  OBVIOUS
<1>1. /\ sent' \in Seq(Slaves) /\ Len(sent') = Len(sent) + 1
      /\ \A n \in 1..Len(sent) : sent'[n] = sent[n]
  <2>1. sent \in Seq(Slaves) /\ sent' = Append(sent, s)
    BY DEF RelayInv, TypeOK, Ask
  <2> QED
    BY <2>1, Appended
<1>2. UNCHANGED <<options, proxy, link, queues, handled>>
  BY DEF Ask
<1>3. TypeOK'
  <2>1. Len(sent)' <= MaxRequests /\ received' \in 0..Len(sent)'
    <3>1. Len(sent) < MaxRequests /\ received \in 0..Len(sent) /\ received' = received
      BY <1>2 DEF RelayInv, TypeOK, Ask, proxy
    <3>2. Len(sent) \in Nat
      BY DEF RelayInv, TypeOK
    <3> QED
      BY <1>1, <3>1, <3>2, ProxyAssumption
  <2> QED
    BY <1>1, <1>2, <2>1 DEF RelayInv, TypeOK, options, proxy, link, queues
<1>4. received \in 0..Len(sent) /\ Len(sent) \in Nat
  BY DEF RelayInv, TypeOK
<1>5. ASSUME NEW X \in {Request, Answer}, NEW q \in Seq(X), Addressed(q)
      PROVE  \A i \in DOMAIN q : q[i].of <= received' /\ q[i].slave = sent'[q[i].of]
  <2>1. \A i \in DOMAIN q : q[i].of \in 1..received
    BY <1>4, <1>5, NumbersOfRequests, ProxyAssumption DEF Addressed
  <2> QED
    BY <1>1, <1>2, <1>4, <1>5, <2>1 DEF Addressed, proxy
<1>6. Addressed(requests)' /\ Addressed(flight)' /\ Addressed(inbox)'
  <2>1. /\ requests \in Seq(Request) /\ flight \in Seq(Answer) /\ inbox \in Seq(Answer)
        /\ Addressed(requests) /\ Addressed(flight) /\ Addressed(inbox)
    BY DEF RelayInv, TypeOK, Addressing
  <2>2. UNCHANGED <<requests, flight, inbox>>
    BY <1>2 DEF queues
  <2> QED
    BY <1>5, <2>1, <2>2 DEF Addressed
<1>7. Addressing'
  <2>1. phase # "idle" => received \in 1..Len(sent)
    BY <1>4 DEF RelayInv, TypeOK
  <2> QED
    BY <1>1, <1>2, <1>6, <2>1 DEF RelayInv, Addressing, RelayedReplies, proxy
<1>8. RelaysFromSlave'
  <2>1. \A n \in DOMAIN replies : n \in 1..Len(sent)
    BY <1>4, SMTT(30) DEF RelayInv, TypeOK
  <2>2. \A n \in RelayedReplies : n \in 1..Len(sent) /\ replies[n].of \in 1..Len(sent)
    BY <1>4, <2>1 DEF RelayInv, Addressing, RelayedReplies
  <2> QED
    BY <1>1, <1>2, <2>2 DEF RelayInv, RelaysFromSlave, RelayedReplies, proxy, options
<1>9. RelaysOwnUnderLink' /\ OneAtATime'
  BY <1>2 DEF RelayInv, RelaysOwnUnderLink, RelaysOwn, RelayedReplies, OneAtATime,
              NoneLive, proxy, queues, options
<1> QED
  BY <1>3, <1>7, <1>8, <1>9 DEF RelayInv

(* modbus_proxy is called with the next request, and begins to forward it. *)
LEMMA ForwardStep == RelayInv /\ Forward => RelayInv'
<1> SUFFICES ASSUME RelayInv, Forward PROVE RelayInv'
  OBVIOUS
<1>1. /\ received' = received + 1 /\ received < Len(sent) /\ phase = "idle"
      /\ slave' = sent[received'] /\ phase' = "sending"
      /\ UNCHANGED <<frontend, replies, link, queues, handled>>
  BY DEF Forward, Receive
<1>2. /\ sent \in Seq(Slaves) /\ Len(sent) \in Nat /\ received \in 0..Len(sent)
      /\ sent[received'] \in Slaves
  BY <1>1 DEF RelayInv, TypeOK
<1>3. TypeOK'
  BY <1>1, <1>2 DEF RelayInv, TypeOK, frontend, options, link, queues
<1>4. ASSUME NEW X \in {Request, Answer}, NEW q \in Seq(X), Addressed(q)
      PROVE  \A i \in DOMAIN q : q[i].of <= received' /\ q[i].slave = sent[q[i].of]
  BY <1>1, <1>2, <1>4, NumbersOfRequests, ProxyAssumption DEF Addressed
<1>5. Addressed(requests)' /\ Addressed(flight)' /\ Addressed(inbox)'
  <2>1. /\ requests \in Seq(Request) /\ flight \in Seq(Answer) /\ inbox \in Seq(Answer)
        /\ Addressed(requests) /\ Addressed(flight) /\ Addressed(inbox)
    BY DEF RelayInv, TypeOK, Addressing
  <2>2. UNCHANGED <<requests, flight, inbox, sent>>
    BY <1>1 DEF queues, frontend
  <2> QED
    BY <1>4, <2>1, <2>2 DEF Addressed
<1>6. Addressing'
  BY <1>1, <1>2, <1>5 DEF RelayInv, Addressing, RelayedReplies, frontend
<1>7. RelaysFromSlave' /\ RelaysOwnUnderLink'
  BY <1>1 DEF RelayInv, RelaysFromSlave, RelaysOwnUnderLink, RelaysOwn, RelayedReplies,
              frontend, options
<1>8. OneAtATime'
  <2> SUFFICES ASSUME SleepSuffices, "LINK" \in recovery
               PROVE  OneAtATime'
    BY <1>1 DEF OneAtATime, frontend, options
  <2>1. NoneLive(requests) /\ flight = <<>> /\ inbox = <<>>
    BY <1>1 DEF RelayInv, OneAtATime
  <2>2. UNCHANGED <<requests, flight, inbox>>
    BY <1>1 DEF queues
  <2> QED
    BY <2>1, <2>2 DEF OneAtATime, NoneLive
<1> QED
  BY <1>3, <1>6, <1>7, <1>8 DEF RelayInv

(* A request for a slave the backend does not take. *)
LEMMA RefuseStep == RelayInv /\ Refuse => RelayInv'
<1> SUFFICES ASSUME RelayInv, Refuse PROVE RelayInv'
  OBVIOUS
<1> DEFINE X == [to : 1..MaxRequests, result : Results, of : 0..MaxRequests]
           r == [to |-> received', result |-> "GATEWAY_PATH", of |-> Nobody]
<1>1. /\ received' = received + 1 /\ received < Len(sent) /\ phase = "idle"
      /\ replies' = Append(replies, r) /\ phase' = "idle"
      /\ UNCHANGED <<frontend, slave, link, queues, handled>>
  BY DEF Refuse, Receive, Reply
<1>2. /\ Len(sent) \in Nat /\ received \in 0..Len(sent) /\ Len(sent) <= MaxRequests
      /\ replies \in Seq(X) /\ Len(replies) = received
  BY <1>1 DEF RelayInv, TypeOK
<1>3. r \in X /\ r.result # "relayed"
  BY <1>1, <1>2, ProxyAssumption DEF Results, Nobody
<1>4. /\ replies' \in Seq(X) /\ Len(replies') = received'
      /\ \A n \in DOMAIN replies' :
           replies'[n] = r \/ (n \in DOMAIN replies /\ replies'[n] = replies[n])
  <2> HIDE DEF X, r
  <2>1. /\ Append(replies, r) \in Seq(X) /\ Len(Append(replies, r)) = Len(replies) + 1
        /\ \A i \in DOMAIN replies : Append(replies, r)[i] = replies[i]
        /\ \A i \in DOMAIN Append(replies, r) : i \in DOMAIN replies \/ i = Len(replies) + 1
        /\ Append(replies, r)[Len(replies) + 1] = r
    BY <1>2, <1>3, Appended
  <2> QED
    BY <1>1, <1>2, <2>1
<1>5. \A n \in RelayedReplies' : n \in RelayedReplies /\ replies'[n] = replies[n]
  <2> HIDE DEF r
  <2> QED
    BY <1>3, <1>4 DEF RelayedReplies
<1>6. TypeOK'
  BY <1>1, <1>2, <1>4 DEF RelayInv, TypeOK, frontend, options, link, queues
<1>7. Addressed(requests)' /\ Addressed(flight)' /\ Addressed(inbox)'
  <2>1. ASSUME NEW Y \in {Request, Answer}, NEW q \in Seq(Y), Addressed(q)
        PROVE  \A i \in DOMAIN q : q[i].of <= received' /\ q[i].slave = sent[q[i].of]
    BY <1>1, <1>2, <2>1, NumbersOfRequests, ProxyAssumption DEF Addressed
  <2>2. /\ requests \in Seq(Request) /\ flight \in Seq(Answer) /\ inbox \in Seq(Answer)
        /\ Addressed(requests) /\ Addressed(flight) /\ Addressed(inbox)
    BY DEF RelayInv, TypeOK, Addressing
  <2>3. UNCHANGED <<requests, flight, inbox, sent>>
    BY <1>1 DEF queues, frontend
  <2> QED
    BY <2>1, <2>2, <2>3 DEF Addressed
<1>8. Addressing'
  <2>1. \A n \in RelayedReplies' : replies'[n].of \in 1..received'
    <3> HIDE DEF X, r
    <3>1. \A n \in RelayedReplies : replies[n].of \in 1..received
      BY DEF RelayInv, Addressing
    <3>2. 1..received \subseteq 1..received'
      BY <1>1, <1>2
    <3> QED
      BY <1>5, <3>1, <3>2
  <2>2. phase' = "idle"
    BY <1>1
  <2> QED
    BY <1>7, <2>1, <2>2 DEF Addressing
<1>9. RelaysFromSlave' /\ RelaysOwnUnderLink'
  BY <1>1, <1>5 DEF RelayInv, RelaysFromSlave, RelaysOwnUnderLink, RelaysOwn, frontend, options
<1>10. OneAtATime'
  <2> SUFFICES ASSUME SleepSuffices, "LINK" \in recovery
               PROVE  OneAtATime'
    BY <1>1 DEF OneAtATime, frontend, options
  <2>1. NoneLive(requests) /\ flight = <<>> /\ inbox = <<>>
    BY <1>1 DEF RelayInv, OneAtATime
  <2>2. UNCHANGED <<requests, flight, inbox>>
    BY <1>1 DEF queues
  <2> QED
    BY <2>1, <2>2 DEF OneAtATime, NoneLive
<1> QED
  BY <1>6, <1>8, <1>9, <1>10 DEF RelayInv

(* The request goes to the backend: nothing else is under way. *)
LEMMA SendStep == RelayInv /\ Send => RelayInv'
<1> SUFFICES ASSUME RelayInv, Send PROVE RelayInv'
  OBVIOUS
<1> DEFINE m == [of |-> received, slave |-> slave, live |-> TRUE]
<1>1. /\ requests' = Append(requests, m) /\ phase = "sending" /\ phase' = "waiting"
      /\ UNCHANGED <<frontend, received, slave, replies, link, flight, inbox, handled>>
  BY DEF Send
<1>2. /\ received \in 1..Len(sent) /\ Len(sent) <= MaxRequests /\ Len(sent) \in Nat
      /\ sent \in Seq(Slaves) /\ slave = sent[received] /\ slave \in Slaves
  BY <1>1 DEF RelayInv, TypeOK, Addressing
<1>3. m \in Request /\ m.of <= received /\ m.slave = sent[m.of] /\ m.live /\ m.of = received
  BY <1>2, ProxyAssumption DEF Request
<1>4. QueuesOK /\ connected \in BOOLEAN /\ broken \in BOOLEAN
  BY QueuesNow
<1> HIDE DEF m
<1>5. QueuesOK'
  <2>1. Append(requests, m) \in Seq(Request) /\ Addressed(Append(requests, m))
    BY <1>3, <1>4, AddressedAppend DEF QueuesOK
  <2> QED
    BY <1>1, <1>4, <2>1 DEF QueuesOK, Addressed, frontend, options
<1>6. TypeOK' /\ Addressing' /\ RelaysFromSlave' /\ RelaysOwnUnderLink'
  <2>1. handled' \in [1..MaxRequests -> Nat] /\ connected' \in BOOLEAN /\ broken' \in BOOLEAN
    BY <1>1, <1>4 DEF RelayInv, TypeOK, link
  <2> QED
    BY <1>1, <1>5, <2>1, KeepStep
<1>7. OneAtATime'
  <2> SUFFICES ASSUME SleepSuffices, "LINK" \in recovery
               PROVE  OneAtATime'
    BY <1>1 DEF OneAtATime, frontend, options
  <2>1. NoneLive(requests) /\ flight = <<>> /\ inbox = <<>>
    BY <1>1 DEF RelayInv, OneAtATime
  <2>2. \A i \in DOMAIN requests' :
          requests'[i].live => i = Len(requests) + 1 /\ requests'[i].of = received
    <3>1. /\ \A i \in DOMAIN requests : Append(requests, m)[i] = requests[i]
          /\ \A i \in DOMAIN Append(requests, m) : i \in DOMAIN requests \/ i = Len(requests) + 1
          /\ Append(requests, m)[Len(requests) + 1] = m
      BY <1>3, <1>4, Appended DEF QueuesOK
    <3> QED
      BY <1>1, <1>3, <2>1, <3>1 DEF NoneLive
  <2> QED
    BY <1>1, <2>1, <2>2 DEF OneAtATime
<1> QED
  BY <1>6, <1>7 DEF RelayInv

(* A call that ends with an exception. *)
LEMMA FailStep ==
  ASSUME RelayInv, phase # "idle",
         NEW result \in {"GATEWAY_PATH", "GATEWAY_TARGET"}, End(result, Nobody),
         QueuesOK', connected' \in BOOLEAN, broken' \in BOOLEAN, UNCHANGED handled
  PROVE  TypeOK' /\ Addressing' /\ RelaysFromSlave' /\ RelaysOwnUnderLink'
<1>1. result \in Results /\ result # "relayed"
  BY DEF Results
<1>2. Nobody \in 0..received
  BY DEF RelayInv, TypeOK, Nobody
<1> HIDE DEF Nobody
<1> QED
  BY <1>1, <1>2, EndStep

(* The queues stay what they are when nothing they depend on changes. *)
LEMMA SameQueues ==
  ASSUME RelayInv, UNCHANGED <<frontend, received, queues, link>>
  PROVE  QueuesOK' /\ connected' \in BOOLEAN /\ broken' \in BOOLEAN
BY QueuesNow DEF QueuesOK, Addressed, frontend, queues, link

(* The send fails, without LINK. *)
LEMMA SendFailsStep == RelayInv /\ SendFails => RelayInv'
<1> SUFFICES ASSUME RelayInv, SendFails PROVE RelayInv'
  OBVIOUS
<1>1. /\ phase = "sending" /\ "LINK" \notin recovery /\ End("GATEWAY_PATH", Nobody)
      /\ UNCHANGED <<frontend, received, link, queues, handled>>
  BY DEF SendFails, End, Reply
<1>2. TypeOK' /\ Addressing' /\ RelaysFromSlave' /\ RelaysOwnUnderLink'
  BY <1>1, SameQueues, FailStep
<1>3. OneAtATime'
  BY <1>1 DEF OneAtATime, frontend, options
<1> QED
  BY <1>2, <1>3 DEF RelayInv

(* A new connection: the requests of the old one are not answered on it. *)
LEMMA ReconnectStep ==
  ASSUME RelayInv, Reconnect, UNCHANGED <<frontend, received>>
  PROVE  /\ QueuesOK' /\ connected' \in BOOLEAN /\ broken' \in BOOLEAN
         /\ NoneLive(requests)' /\ flight' = <<>> /\ inbox' = <<>>
<1>1. /\ requests' = Orphaned(requests) /\ flight' = <<>> /\ inbox' = <<>>
      /\ connected' \in BOOLEAN /\ broken' \in BOOLEAN
  BY DEF Reconnect, Connect, FailToConnect
<1>2. /\ Orphaned(requests) \in Seq(Request) /\ DOMAIN Orphaned(requests) = DOMAIN requests
      /\ \A i \in DOMAIN requests : /\ Orphaned(requests)[i].of = requests[i].of
                                   /\ Orphaned(requests)[i].slave = requests[i].slave
      /\ NoneLive(Orphaned(requests)) /\ Addressed(requests)
  BY QueuesNow, OrphanedRequests DEF QueuesOK
<1>3. Addressed(requests)'
  BY <1>1, <1>2 DEF Addressed, frontend
<1>4. <<>> \in Seq(Answer)
  BY AddressedEmpty
<1>5. Addressed(flight)' /\ Addressed(inbox)'
  BY <1>1 DEF Addressed
<1> QED
  BY <1>1, <1>2, <1>3, <1>4, <1>5 DEF QueuesOK, NoneLive

(* The send fails with LINK, and is made again on a new connection ... *)
LEMMA SendReconnectsStep == RelayInv /\ SendReconnects => RelayInv'
<1> SUFFICES ASSUME RelayInv, SendReconnects PROVE RelayInv'
  OBVIOUS
<1>1. Reconnect /\ UNCHANGED <<frontend, received, slave, phase, replies, handled>>
  BY DEF SendReconnects, proxy
<1>2. /\ QueuesOK' /\ connected' \in BOOLEAN /\ broken' \in BOOLEAN
      /\ NoneLive(requests)' /\ flight' = <<>> /\ inbox' = <<>>
  BY <1>1, ReconnectStep
<1>3. TypeOK' /\ Addressing' /\ RelaysFromSlave' /\ RelaysOwnUnderLink'
  <2>1. handled' \in [1..MaxRequests -> Nat]
    BY <1>1 DEF RelayInv, TypeOK
  <2> QED
    BY <1>1, <1>2, <2>1, KeepStep
<1>4. OneAtATime'
  BY <1>2 DEF OneAtATime, NoneLive
<1> QED
  BY <1>3, <1>4 DEF RelayInv

(* ... or after a flush. *)
LEMMA SendFlushesStep == RelayInv /\ SendFlushes => RelayInv'
<1> SUFFICES ASSUME RelayInv, SendFlushes PROVE RelayInv'
  OBVIOUS
<1>1. /\ phase = "sending" /\ inbox' = <<>>
      /\ UNCHANGED <<frontend, received, slave, phase, replies, link, requests, flight, handled>>
  BY DEF SendFlushes, proxy
<1>2. /\ QueuesOK' /\ connected' \in BOOLEAN /\ broken' \in BOOLEAN
      /\ handled' \in [1..MaxRequests -> Nat]
  <2>1. <<>> \in Seq(Answer)
    BY AddressedEmpty
  <2> QED
    BY <1>1, <2>1, QueuesNow DEF QueuesOK, Addressed, frontend, link, RelayInv, TypeOK
<1>3. TypeOK' /\ Addressing' /\ RelaysFromSlave' /\ RelaysOwnUnderLink'
  BY <1>1, <1>2, KeepStep
<1>4. OneAtATime'
  BY <1>1 DEF RelayInv, OneAtATime, NoneLive, frontend, options
<1> QED
  BY <1>3, <1>4 DEF RelayInv

(***************************************************************************)
(* What comes from the backend.                                            *)
(***************************************************************************)

(* The proxy takes an answer, whatever it makes of it. *)
LEMMA TakeStep ==
  ASSUME RelayInv, Take, UNCHANGED <<frontend, received>>
  PROVE  /\ QueuesOK' /\ connected' \in BOOLEAN /\ broken' \in BOOLEAN
         /\ Head(inbox).of \in 1..received /\ Head(inbox).slave = sent[Head(inbox).of]
<1>1. /\ inbox # <<>> /\ inbox' = Tail(inbox)
      /\ UNCHANGED <<requests, flight, connected, broken>>
  BY DEF Take, link
<1>2. QueuesOK /\ connected \in BOOLEAN /\ broken \in BOOLEAN
  BY QueuesNow
<1>3. /\ Head(inbox) \in Answer /\ Tail(inbox) \in Seq(Answer) /\ Addressed(Tail(inbox))
      /\ Head(inbox).of <= received /\ Head(inbox).slave = sent[Head(inbox).of]
  BY <1>1, <1>2, AddressedTail DEF QueuesOK
<1>4. Head(inbox).of \in 1..received
  <2>1. Head(inbox).of \in 1..MaxRequests
    BY <1>3 DEF Answer
  <2>2. received \in Nat
    BY DEF RelayInv, TypeOK
  <2> QED
    BY <1>3, <2>1, <2>2, ProxyAssumption
<1>5. QueuesOK'
  BY <1>1, <1>2, <1>3 DEF QueuesOK, Addressed, frontend
<1> QED
  BY <1>1, <1>2, <1>3, <1>4, <1>5

(* Of one answer, nothing is left when it is taken, and the call ends. *)
LEMMA NothingLeft ==
  ASSUME RelayInv, inbox # <<>>, phase' = "idle", UNCHANGED <<options, requests, flight>>,
         inbox' \in {Tail(inbox), <<>>}
  PROVE  OneAtATime'
<1> SUFFICES ASSUME SleepSuffices, "LINK" \in recovery
             PROVE  OneAtATime'
  BY DEF OneAtATime, options
<1>1. Len(inbox) = 1 /\ flight = <<>> /\ NoneLive(requests) /\ inbox \in Seq(Answer)
  BY DEF RelayInv, TypeOK, OneAtATime
<1>2. inbox' = <<>>
  BY <1>1, TailOfOne
<1> QED
  BY <1>1, <1>2 DEF OneAtATime, NoneLive

(* An answer is relayed: under LINK it is that of the present request,     *)
(* and over RTU one of the same slave.                                     *)
LEMMA RelayAnswerStep == RelayInv /\ RelayAnswer => RelayInv'
<1> SUFFICES ASSUME RelayInv, RelayAnswer PROVE RelayInv'
  OBVIOUS
<1> DEFINE a == Head(inbox)
<1>1. /\ Take /\ FromSlave(a) /\ End("relayed", a.of) /\ phase = "waiting" /\ inbox # <<>>
      /\ phase' = "idle" /\ UNCHANGED <<frontend, received, requests, flight, handled>>
      /\ inbox' = Tail(inbox)
  BY DEF RelayAnswer, Take, End, Reply
<1>2. /\ QueuesOK' /\ connected' \in BOOLEAN /\ broken' \in BOOLEAN
      /\ a.of \in 1..received /\ a.slave = sent[a.of]
  BY <1>1, TakeStep
<1>3. backend = "RTU" => sent[a.of] = slave
  BY <1>1, <1>2 DEF FromSlave
<1>4. SleepSuffices /\ "LINK" \in recovery => a.of = received
  <2>1. 1 \in DOMAIN inbox /\ a = inbox[1]
    BY <1>1, HeadAndTail DEF RelayInv, TypeOK
  <2> QED
    BY <2>1 DEF RelayInv, OneAtATime
<1>5. TypeOK' /\ Addressing' /\ RelaysFromSlave' /\ RelaysOwnUnderLink'
  <2>1. "relayed" \in Results /\ a.of \in 0..received
    BY <1>2 DEF Results, RelayInv, TypeOK
  <2> QED
    BY <1>1, <1>2, <1>3, <1>4, <2>1, EndStep
<1>6. OneAtATime'
  BY <1>1, NothingLeft DEF frontend
<1> QED
  BY <1>5, <1>6 DEF RelayInv

(* An answer of another slave is not relayed. *)
LEMMA RejectAnswerStep == RelayInv /\ RejectAnswer => RelayInv'
<1> SUFFICES ASSUME RelayInv, RejectAnswer PROVE RelayInv'
  OBVIOUS
<1>1. /\ Take /\ End("GATEWAY_TARGET", Nobody) /\ phase = "waiting" /\ inbox # <<>>
      /\ phase' = "idle" /\ UNCHANGED <<frontend, received, requests, flight, handled>>
      /\ inbox' = Tail(inbox)
  BY DEF RejectAnswer, Take, End, Reply
<1>2. TypeOK' /\ Addressing' /\ RelaysFromSlave' /\ RelaysOwnUnderLink'
  BY <1>1, TakeStep, FailStep
<1>3. OneAtATime'
  BY <1>1, NothingLeft DEF frontend
<1> QED
  BY <1>2, <1>3 DEF RelayInv

(* A damaged answer is not relayed; under PROTOCOL what follows is gone. *)
LEMMA ReceiveDamagedStep == RelayInv /\ ReceiveDamaged => RelayInv'
<1> SUFFICES ASSUME RelayInv, ReceiveDamaged PROVE RelayInv'
  OBVIOUS
<1>1. /\ End("GATEWAY_PATH", Nobody) /\ phase = "waiting" /\ inbox # <<>> /\ phase' = "idle"
      /\ UNCHANGED <<frontend, received, link, requests, flight, handled>>
      /\ inbox' \in {Tail(inbox), <<>>}
  BY DEF ReceiveDamaged, End, Reply
<1>2. QueuesOK' /\ connected' \in BOOLEAN /\ broken' \in BOOLEAN
  <2>1. QueuesOK /\ connected \in BOOLEAN /\ broken \in BOOLEAN
    BY QueuesNow
  <2>2. Tail(inbox) \in Seq(Answer) /\ Addressed(Tail(inbox))
    BY <1>1, <2>1, AddressedTail DEF QueuesOK
  <2>3. inbox' \in Seq(Answer) /\ Addressed(inbox)'
    BY <1>1, <2>2, AddressedEmpty DEF Addressed, frontend
  <2> QED
    BY <1>1, <2>1, <2>3 DEF QueuesOK, Addressed, frontend, link
<1>3. TypeOK' /\ Addressing' /\ RelaysFromSlave' /\ RelaysOwnUnderLink'
  BY <1>1, <1>2, FailStep
<1>4. OneAtATime'
  BY <1>1, NothingLeft DEF frontend
<1> QED
  BY <1>3, <1>4 DEF RelayInv

(* No answer in time, without LINK: the call ends at once. *)
LEMMA TimeoutStep == RelayInv /\ Timeout => RelayInv'
<1> SUFFICES ASSUME RelayInv, Timeout PROVE RelayInv'
  OBVIOUS
<1>1. /\ phase = "waiting" /\ "LINK" \notin recovery /\ End("GATEWAY_TARGET", Nobody)
      /\ UNCHANGED <<frontend, received, link, queues, handled>>
  BY DEF Timeout, End, Reply
<1>2. TypeOK' /\ Addressing' /\ RelaysFromSlave' /\ RelaysOwnUnderLink'
  BY <1>1, SameQueues, FailStep
<1>3. OneAtATime'
  BY <1>1 DEF OneAtATime, frontend, options
<1> QED
  BY <1>2, <1>3 DEF RelayInv

(* No answer in time, with LINK: the call is not over, ... *)
LEMMA TimeoutSleepsStep == RelayInv /\ TimeoutSleeps => RelayInv'
<1> SUFFICES ASSUME RelayInv, TimeoutSleeps PROVE RelayInv'
  OBVIOUS
<1>1. /\ phase = "waiting" /\ phase' = "sleeping"
      /\ UNCHANGED <<frontend, received, slave, replies, link, queues, handled>>
  BY DEF TimeoutSleeps
<1>2. TypeOK' /\ Addressing' /\ RelaysFromSlave' /\ RelaysOwnUnderLink'
  <2>1. handled' \in [1..MaxRequests -> Nat]
    BY <1>1 DEF RelayInv, TypeOK
  <2> QED
    BY <1>1, <2>1, SameQueues, KeepStep
<1>3. OneAtATime'
  BY <1>1 DEF RelayInv, OneAtATime, NoneLive, frontend, options, queues
<1> QED
  BY <1>2, <1>3 DEF RelayInv

(* ... and what arrived during the sleep is dropped. *)
LEMMA FlushStep == RelayInv /\ Flush => RelayInv'
<1> SUFFICES ASSUME RelayInv, Flush PROVE RelayInv'
  OBVIOUS
<1>1. /\ phase = "sleeping" /\ Settled /\ inbox' = <<>> /\ End("GATEWAY_TARGET", Nobody)
      /\ phase' = "idle" /\ UNCHANGED <<frontend, received, link, requests, flight, handled>>
  BY DEF Flush, End, Reply
<1>2. QueuesOK' /\ connected' \in BOOLEAN /\ broken' \in BOOLEAN
  <2>1. <<>> \in Seq(Answer)
    BY AddressedEmpty
  <2> QED
    BY <1>1, <2>1, QueuesNow DEF QueuesOK, Addressed, frontend, link
<1>3. TypeOK' /\ Addressing' /\ RelaysFromSlave' /\ RelaysOwnUnderLink'
  BY <1>1, <1>2, FailStep
<1>4. OneAtATime'
  BY <1>1 DEF Settled, OneAtATime, NoneLive, frontend, options
<1> QED
  BY <1>3, <1>4 DEF RelayInv

(* The connection is lost: with LINK there is a new one, or none. *)
LEMMA LoseConnectionStep == RelayInv /\ LoseConnection => RelayInv'
<1> SUFFICES ASSUME RelayInv, LoseConnection PROVE RelayInv'
  OBVIOUS
<1>1. /\ phase = "waiting" /\ End("GATEWAY_PATH", Nobody)
      /\ UNCHANGED <<frontend, received, handled>>
  BY DEF LoseConnection, End, Reply
<1>2. CASE "LINK" \in recovery
  <2>1. Reconnect
    BY <1>2 DEF LoseConnection
  <2>2. /\ QueuesOK' /\ connected' \in BOOLEAN /\ broken' \in BOOLEAN
        /\ NoneLive(requests)' /\ flight' = <<>> /\ inbox' = <<>>
    BY <1>1, <2>1, ReconnectStep
  <2>3. TypeOK' /\ Addressing' /\ RelaysFromSlave' /\ RelaysOwnUnderLink'
    BY <1>1, <2>2, FailStep
  <2>4. OneAtATime'
    BY <2>2 DEF OneAtATime, NoneLive
  <2> QED
    BY <2>3, <2>4 DEF RelayInv
<1>3. CASE "LINK" \notin recovery
  <2>1. UNCHANGED <<link, queues>>
    BY <1>3 DEF LoseConnection
  <2>2. TypeOK' /\ Addressing' /\ RelaysFromSlave' /\ RelaysOwnUnderLink'
    BY <1>1, <2>1, SameQueues, FailStep
  <2>3. OneAtATime'
    BY <1>1, <1>3 DEF OneAtATime, frontend, options
  <2> QED
    BY <2>2, <2>3 DEF RelayInv
<1> QED
  BY <1>2, <1>3

(***************************************************************************)
(* The device and the link.                                                *)
(***************************************************************************)

(* A queue of requests without its first: what lives in it lived before. *)
LEMMA RequestsLeft ==
  ASSUME NEW s \in Seq(Request), s # <<>>,
         \A i, j \in DOMAIN s : s[i].live /\ s[j].live => i = j,
         \A i \in DOMAIN s : s[i].live => s[i].of = received
  PROVE  /\ \A i, j \in DOMAIN Tail(s) : Tail(s)[i].live /\ Tail(s)[j].live => i = j
         /\ \A i \in DOMAIN Tail(s) : Tail(s)[i].live => Tail(s)[i].of = received
         /\ NoneLive(s) => NoneLive(Tail(s))
         /\ Head(s).live => NoneLive(Tail(s)) /\ Head(s).of = received /\ ~NoneLive(s)
<1>1. /\ 1 \in DOMAIN s /\ Head(s) = s[1]
      /\ \A i \in DOMAIN Tail(s) : i + 1 \in DOMAIN s /\ Tail(s)[i] = s[i + 1]
  BY HeadAndTail
<1>2. \A i \in DOMAIN Tail(s) : i \in Nat \ {0}
  <2>1. Tail(s) \in Seq(Request)
    BY HeadAndTail
  <2> QED
    BY <2>1
<1>3. \A i, j \in DOMAIN Tail(s) : Tail(s)[i].live /\ Tail(s)[j].live => i = j
  BY <1>1, <1>2
<1>4. \A i \in DOMAIN Tail(s) : Tail(s)[i].live => Tail(s)[i].of = received
  BY <1>1
<1>5. NoneLive(s) => NoneLive(Tail(s))
  BY <1>1 DEF NoneLive
<1>6. Head(s).live => NoneLive(Tail(s)) /\ Head(s).of = received /\ ~NoneLive(s)
  BY <1>1, <1>2 DEF NoneLive
<1> QED
  BY <1>3, <1>4, <1>5, <1>6

(* A device handles a request, and may answer it: the present one only, if *)
(* the one connection is all there is.                                     *)
LEMMA HandleStep == RelayInv /\ Handle => RelayInv'
<1> SUFFICES ASSUME RelayInv, Handle PROVE RelayInv'
  OBVIOUS
<1> DEFINE r == Head(requests)
           a == [of |-> r.of, slave |-> r.slave]
<1>1. /\ requests # <<>> /\ requests' = Tail(requests)
      /\ flight' = flight \/ (r.live /\ flight' = Append(flight, a))
      /\ handled' = [handled EXCEPT ![r.of] = @ + 1]
      /\ UNCHANGED <<frontend, received, slave, phase, replies, connected, broken, inbox>>
  BY DEF Handle, proxy, link
<1>2. QueuesOK /\ connected \in BOOLEAN /\ broken \in BOOLEAN
  BY QueuesNow
<1>3. /\ r \in Request /\ Tail(requests) \in Seq(Request) /\ Addressed(Tail(requests))
      /\ r.of <= received /\ r.slave = sent[r.of]
  BY <1>1, <1>2, AddressedTail DEF QueuesOK
<1>4. a \in Answer /\ a.of <= received /\ a.slave = sent[a.of] /\ a.of = r.of
  BY <1>3 DEF Request, Answer
<1> HIDE DEF r, a
<1>5. flight' \in Seq(Answer) /\ Addressed(flight)'
  <2>1. Append(flight, a) \in Seq(Answer) /\ Addressed(Append(flight, a))
    BY <1>2, <1>4, AddressedAppend DEF QueuesOK
  <2> QED
    BY <1>1, <1>2, <2>1 DEF QueuesOK, Addressed, frontend
<1>6. QueuesOK'
  BY <1>1, <1>2, <1>3, <1>5 DEF QueuesOK, Addressed, frontend
<1>7. TypeOK' /\ Addressing' /\ RelaysFromSlave' /\ RelaysOwnUnderLink'
  <2>1. handled' \in [1..MaxRequests -> Nat]
    <3>1. handled \in [1..MaxRequests -> Nat]
      BY DEF RelayInv, TypeOK
    <3>2. \A n \in 1..MaxRequests : handled[n] + 1 \in Nat
      BY <3>1
    <3> QED
      BY <1>1, <3>1, <3>2
  <2> QED
    BY <1>1, <1>2, <1>6, <2>1, KeepStep
<1>8. OneAtATime'
  <2> SUFFICES ASSUME SleepSuffices, "LINK" \in recovery
               PROVE  OneAtATime'
    BY <1>1 DEF OneAtATime, frontend, options
  <2>1. /\ \A i, j \in DOMAIN requests' : requests'[i].live /\ requests'[j].live => i = j
        /\ \A i \in DOMAIN requests' : requests'[i].live => requests'[i].of = received
        /\ NoneLive(requests) => NoneLive(requests)'
        /\ r.live => NoneLive(requests)' /\ r.of = received /\ ~NoneLive(requests)
    <3>1. requests \in Seq(Request)
      BY <1>2 DEF QueuesOK
    <3>2. /\ \A i, j \in DOMAIN requests : requests[i].live /\ requests[j].live => i = j
          /\ \A i \in DOMAIN requests : requests[i].live => requests[i].of = received
      BY DEF RelayInv, OneAtATime
    <3> QED
      BY <1>1, <3>1, <3>2, RequestsLeft DEF r, NoneLive
  <2>2. CASE flight' = flight
    BY <1>1, <2>1, <2>2 DEF RelayInv, OneAtATime, NoneLive
  <2>3. CASE r.live /\ flight' = Append(flight, a)
    <3>1. flight = <<>> /\ inbox = <<>> /\ phase \notin {"idle", "sending"}
      BY <2>1, <2>3 DEF RelayInv, OneAtATime
    <3>2. /\ Len(flight') = 1 /\ \A i \in DOMAIN flight' : flight'[i] = a
          /\ \A i, j \in DOMAIN flight' : i = j
      BY <2>3, <3>1
    <3> QED
      BY <1>1, <1>4, <2>1, <2>3, <3>1, <3>2 DEF OneAtATime, NoneLive
  <2> QED
    BY <1>1, <2>2, <2>3
<1> QED
  BY <1>7, <1>8 DEF RelayInv

(* An answer arrives. *)
LEMMA DeliverStep == RelayInv /\ Deliver => RelayInv'
<1> SUFFICES ASSUME RelayInv, Deliver PROVE RelayInv'
  OBVIOUS
<1> DEFINE a == Head(flight)
<1>1. /\ flight # <<>> /\ flight' = Tail(flight) /\ inbox' = Append(inbox, a)
      /\ UNCHANGED <<frontend, received, slave, phase, replies, connected, broken, requests,
                     handled>>
  BY DEF Deliver, proxy, link
<1>2. QueuesOK /\ connected \in BOOLEAN /\ broken \in BOOLEAN
  BY QueuesNow
<1>3. /\ a \in Answer /\ Tail(flight) \in Seq(Answer) /\ Addressed(Tail(flight))
      /\ a.of <= received /\ a.slave = sent[a.of]
  BY <1>1, <1>2, AddressedTail DEF QueuesOK
<1>4. a = flight[1] /\ 1 \in DOMAIN flight
  BY <1>1, <1>2, HeadAndTail DEF QueuesOK
<1> HIDE DEF a
<1>5. Append(inbox, a) \in Seq(Answer) /\ Addressed(Append(inbox, a))
  BY <1>2, <1>3, AddressedAppend DEF QueuesOK
<1>6. QueuesOK'
  BY <1>1, <1>2, <1>3, <1>5 DEF QueuesOK, Addressed, frontend
<1>7. TypeOK' /\ Addressing' /\ RelaysFromSlave' /\ RelaysOwnUnderLink'
  <2>1. handled' \in [1..MaxRequests -> Nat]
    BY <1>1 DEF RelayInv, TypeOK
  <2> QED
    BY <1>1, <1>2, <1>6, <2>1, KeepStep
<1>8. OneAtATime'
  <2> SUFFICES ASSUME SleepSuffices, "LINK" \in recovery
               PROVE  OneAtATime'
    BY <1>1 DEF OneAtATime, frontend, options
  <2>1. /\ phase \notin {"idle", "sending"} /\ inbox = <<>> /\ NoneLive(requests)
        /\ Len(flight) = 1 /\ a.of = received
    BY <1>1, <1>4 DEF RelayInv, OneAtATime
  <2>2. flight' = <<>>
    BY <1>1, <1>2, <2>1, TailOfOne DEF QueuesOK
  <2>3. Len(inbox') = 1 /\ \A i \in DOMAIN inbox' : inbox'[i] = a
    BY <1>1, <2>1
  <2> QED
    BY <1>1, <2>1, <2>2, <2>3 DEF OneAtATime, NoneLive
<1> QED
  BY <1>7, <1>8 DEF RelayInv

(* A request is lost. *)
LEMMA LoseRequestStep == RelayInv /\ LoseRequest => RelayInv'
<1> SUFFICES ASSUME RelayInv, LoseRequest PROVE RelayInv'
  OBVIOUS
<1>1. /\ requests # <<>> /\ requests' = Tail(requests)
      /\ UNCHANGED <<frontend, received, slave, phase, replies, connected, broken, flight,
                     inbox, handled>>
  BY DEF LoseRequest, proxy, link
<1>2. QueuesOK /\ connected \in BOOLEAN /\ broken \in BOOLEAN
  BY QueuesNow
<1>3. Tail(requests) \in Seq(Request) /\ Addressed(Tail(requests))
  BY <1>1, <1>2, AddressedTail DEF QueuesOK
<1>4. QueuesOK'
  BY <1>1, <1>2, <1>3 DEF QueuesOK, Addressed, frontend
<1>5. TypeOK' /\ Addressing' /\ RelaysFromSlave' /\ RelaysOwnUnderLink'
  <2>1. handled' \in [1..MaxRequests -> Nat]
    BY <1>1 DEF RelayInv, TypeOK
  <2> QED
    BY <1>1, <1>2, <1>4, <2>1, KeepStep
<1>6. OneAtATime'
  <2> SUFFICES ASSUME SleepSuffices, "LINK" \in recovery
               PROVE  OneAtATime'
    BY <1>1 DEF OneAtATime, frontend, options
  <2>1. /\ \A i, j \in DOMAIN requests' : requests'[i].live /\ requests'[j].live => i = j
        /\ \A i \in DOMAIN requests' : requests'[i].live => requests'[i].of = received
        /\ NoneLive(requests) => NoneLive(requests)'
    <3>1. requests \in Seq(Request)
      BY <1>2 DEF QueuesOK
    <3>2. /\ \A i, j \in DOMAIN requests : requests[i].live /\ requests[j].live => i = j
          /\ \A i \in DOMAIN requests : requests[i].live => requests[i].of = received
      BY DEF RelayInv, OneAtATime
    <3> QED
      BY <1>1, <3>1, <3>2, RequestsLeft DEF NoneLive
  <2> QED
    BY <1>1, <2>1 DEF RelayInv, OneAtATime, NoneLive
<1> QED
  BY <1>5, <1>6 DEF RelayInv

(* The connection breaks, and what was on it is lost but for the inbox. *)
LEMMA BreakStep == RelayInv /\ Break => RelayInv'
<1> SUFFICES ASSUME RelayInv, Break PROVE RelayInv'
  OBVIOUS
<1>1. /\ requests' = Orphaned(requests) /\ flight' = <<>> /\ broken' = TRUE
      /\ UNCHANGED <<frontend, received, slave, phase, replies, connected, inbox, handled>>
  BY DEF Break, proxy
<1>2. QueuesOK /\ connected \in BOOLEAN /\ broken \in BOOLEAN
  BY QueuesNow
<1>3. /\ Orphaned(requests) \in Seq(Request) /\ DOMAIN Orphaned(requests) = DOMAIN requests
      /\ \A i \in DOMAIN requests : /\ Orphaned(requests)[i].of = requests[i].of
                                   /\ Orphaned(requests)[i].slave = requests[i].slave
      /\ NoneLive(Orphaned(requests))
  BY <1>2, OrphanedRequests DEF QueuesOK
<1>4. QueuesOK'
  <2>1. Addressed(requests)' /\ Addressed(flight)' /\ Addressed(inbox)'
    BY <1>1, <1>2, <1>3 DEF QueuesOK, Addressed, frontend
  <2>2. <<>> \in Seq(Answer)
    BY AddressedEmpty
  <2> QED
    BY <1>1, <1>2, <1>3, <2>1, <2>2 DEF QueuesOK
<1>5. TypeOK' /\ Addressing' /\ RelaysFromSlave' /\ RelaysOwnUnderLink'
  <2>1. /\ handled' \in [1..MaxRequests -> Nat] /\ connected' \in BOOLEAN
        /\ broken' \in BOOLEAN
    BY <1>1, <1>2 DEF RelayInv, TypeOK
  <2> QED
    BY <1>1, <1>4, <2>1, KeepStep
<1>6. OneAtATime'
  BY <1>1, <1>3 DEF RelayInv, OneAtATime, NoneLive, frontend, options
<1> QED
  BY <1>5, <1>6 DEF RelayInv

(* Nothing happens. *)
LEMMA StutterStep == RelayInv /\ UNCHANGED vars => RelayInv'
BY DEF RelayInv, vars, frontend, options, proxy, link, queues, TypeOK, Addressing, Addressed,
       RelayedReplies, OneAtATime, NoneLive, RelaysFromSlave, RelaysOwnUnderLink, RelaysOwn

(***************************************************************************)
(* Every request is in one place at a time.                                *)
(***************************************************************************)

(* The first message leaves a queue. *)
LEMMA TailNumbers ==
  ASSUME NEW X, NEW s \in Seq(X), s # <<>>, Distinct(s)
  PROVE  /\ Distinct(Tail(s)) /\ Head(s).of \in Numbers(s)
         /\ Numbers(Tail(s)) = Numbers(s) \ {Head(s).of}
<1>1. 1 \in DOMAIN s /\ Head(s) = s[1]
  BY HeadAndTail
<1>2. /\ \A i \in DOMAIN Tail(s) : i \in Nat \ {0} /\ i + 1 \in DOMAIN s /\ Tail(s)[i] = s[i + 1]
      /\ \A j \in DOMAIN s \ {1} : j - 1 \in DOMAIN Tail(s) /\ Tail(s)[j - 1] = s[j]
  OBVIOUS
<1>3. Distinct(Tail(s))
  <2>1. \A i, j \in DOMAIN Tail(s) : i + 1 = j + 1 => i = j
    BY <1>2
  <2> QED
    BY <1>2, <2>1 DEF Distinct
<1>4. \A i \in DOMAIN Tail(s) : i + 1 # 1
  BY <1>2
<1>5. \A i \in DOMAIN Tail(s) : Tail(s)[i].of # Head(s).of
  BY <1>1, <1>2, <1>4 DEF Distinct
<1>6. Numbers(Tail(s)) \subseteq Numbers(s) \ {Head(s).of}
  BY <1>2, <1>5 DEF Numbers
<1>7. Numbers(s) \ {Head(s).of} \subseteq Numbers(Tail(s))
  BY <1>1, <1>2 DEF Numbers
<1> QED
  BY <1>1, <1>3, <1>6, <1>7 DEF Numbers

(* A message comes behind the others. *)
LEMMA AppendNumbers ==
  ASSUME NEW X, NEW s \in Seq(X), NEW m \in X
  PROVE  /\ Numbers(Append(s, m)) = Numbers(s) \union {m.of}
         /\ Distinct(s) /\ m.of \notin Numbers(s) => Distinct(Append(s, m))
<1>1. /\ DOMAIN Append(s, m) = DOMAIN s \union {Len(s) + 1}
      /\ Append(s, m)[Len(s) + 1] = m
      /\ \A i \in DOMAIN s : Append(s, m)[i] = s[i]
  OBVIOUS
<1>2. Numbers(Append(s, m)) = Numbers(s) \union {m.of}
  BY <1>1 DEF Numbers
<1>3. ASSUME Distinct(s), m.of \notin Numbers(s) PROVE Distinct(Append(s, m))
  <2>1. \A i \in DOMAIN s : s[i].of # m.of
    BY <1>3 DEF Numbers
  <2> QED
    BY <1>1, <1>3, <2>1 DEF Distinct
<1> QED
  BY <1>2, <1>3

(* An empty queue, and one whose connection has ended. *)
LEMMA FewerNumbers ==
  /\ Numbers(<<>>) = {} /\ Distinct(<<>>)
  /\ \A s \in Seq(Request) :
       Numbers(Orphaned(s)) = Numbers(s) /\ (Distinct(s) => Distinct(Orphaned(s)))
<1>1. Numbers(<<>>) = {} /\ Distinct(<<>>)
  BY DEF Numbers, Distinct
<1>2. ASSUME NEW s \in Seq(Request)
      PROVE  Numbers(Orphaned(s)) = Numbers(s) /\ (Distinct(s) => Distinct(Orphaned(s)))
  <2>1. DOMAIN Orphaned(s) = DOMAIN s /\ \A i \in DOMAIN s : Orphaned(s)[i].of = s[i].of
    BY OrphanedRequests
  <2> QED
    BY <2>1 DEF Numbers, Distinct
<1> QED
  BY <1>1, <1>2

(* What the queues hold and what was relayed are requests that came.       *)
LEMMA NumbersCame ==
  ASSUME RelayInv
  PROVE  /\ received \in 0..MaxRequests /\ MaxRequests \in Nat
         /\ Numbers(requests) \subseteq 1..received
         /\ Numbers(flight) \subseteq 1..received
         /\ Numbers(inbox) \subseteq 1..received
<1>1. received \in 0..MaxRequests /\ MaxRequests \in Nat
  BY ProxyAssumption DEF RelayInv, TypeOK
<1>2. ASSUME NEW X \in {Request, Answer}, NEW s \in Seq(X), Addressed(s)
      PROVE  Numbers(s) \subseteq 1..received
  <2>1. \A i \in DOMAIN s : s[i].of \in 1..MaxRequests /\ s[i].of <= received
    BY <1>2, NumbersOfRequests DEF Addressed
  <2>2. \A i \in DOMAIN s : s[i].of \in 1..received
    BY <1>1, <2>1
  <2> QED
    BY <2>2 DEF Numbers
<1> QED
  BY <1>1, <1>2, QueuesNow DEF QueuesOK

(* A step that only takes messages away, and relays none. *)
LEMMA FewerPlaces ==
  ASSUME InOnePlace, handled' = handled, received' = received,
         Distinct(requests'), Numbers(requests') \subseteq Numbers(requests),
         Distinct(flight'), Numbers(flight') \subseteq Numbers(flight),
         Distinct(inbox'), Numbers(inbox') \subseteq Numbers(inbox),
         phase' = "sending" => phase = "sending",
         Answered' = Answered, \A n \in DOMAIN replies' : replies'[n].to = n
  PROVE  InOnePlace'
<1>1. /\ Numbers(flight') \intersect Numbers(inbox') = {}
      /\ (Numbers(flight') \union Numbers(inbox')) \intersect Answered' = {}
  BY DEF InOnePlace
<1>2. \A n \in Numbers(requests') : handled'[n] = 0 /\ (n = received' => phase' # "sending")
  BY DEF InOnePlace
<1>3. \A n \in Numbers(flight') \union Numbers(inbox') \union Answered' : handled'[n] = 1
  BY DEF InOnePlace
<1>4. \A n \in 1..MaxRequests :
        n > received' \/ (n = received' /\ phase' = "sending") => handled'[n] = 0
  BY DEF InOnePlace
<1> QED
  BY <1>1, <1>2, <1>3, <1>4 DEF InOnePlace, Numbers, Distinct

(***************************************************************************)
(* Every step is one of a Gateway.                                         *)
(***************************************************************************)

(* The frontend is sent one answer more. *)
LEMMA ReplyRelays ==
  ASSUME TypeOK, \A k \in DOMAIN replies : replies[k].to = k,
         NEW n \in 1..MaxRequests, n = Len(replies) + 1,
         NEW result \in Results, NEW of \in 0..MaxRequests, Reply(n, result, of)
  PROVE  /\ \A k \in DOMAIN replies' : replies'[k].to = k
         /\ Answered' = (Answered \union {of}) \ {Nobody}
         /\ Relays' = Append(Relays, of) /\ Len(Relays) + 1 = n
         /\ Contract!Relayed \ {Nobody} = Answered
<1> DEFINE X == [to : 1..MaxRequests, result : Results, of : 0..MaxRequests]
           r == [to |-> n, result |-> result, of |-> of]
<1>1. /\ replies \in Seq(X) /\ r \in X /\ replies' = Append(replies, r)
      /\ r.to = n /\ r.of = of
  BY DEF TypeOK, Reply
<1> HIDE DEF X, r
<1>2. /\ DOMAIN replies = 1..Len(replies) /\ Len(replies) \in Nat
      /\ DOMAIN replies' = 1..(Len(replies) + 1) /\ replies'[Len(replies) + 1] = r
      /\ \A i \in DOMAIN replies : replies'[i] = replies[i] /\ i # n /\ i \in DOMAIN replies'
      /\ \A i \in DOMAIN replies' : i \in DOMAIN replies \/ i = Len(replies) + 1
      /\ n \in DOMAIN replies'
  BY <1>1
<1>3. \A k \in DOMAIN replies' : replies'[k].to = k
  BY <1>1, <1>2
<1>4. Answered' = (Answered \union {of}) \ {Nobody}
  BY <1>1, <1>2 DEF Answered
<1>5. /\ Relays = [k \in 1..Len(replies) |-> replies[k].of]
      /\ Relays' = [k \in 1..n |-> replies'[k].of]
  BY <1>2, <1>3 DEF Relays
<1>6. \A k \in DOMAIN replies : replies[k].of \in 0..MaxRequests
  <2>1. \A k \in DOMAIN replies : replies[k] \in X
    BY <1>1
  <2> QED
    BY <2>1 DEF X
<1>7. Relays \in Seq(0..MaxRequests) /\ Len(Relays) = Len(replies)
  BY <1>2, <1>5, <1>6
<1>8. Relays' = Append(Relays, of)
  <2>1. /\ Append(Relays, of) \in Seq(0..MaxRequests) /\ Len(Append(Relays, of)) = n
        /\ \A k \in 1..n : Append(Relays, of)[k] = IF k = n THEN of ELSE Relays[k]
    BY <1>2, <1>7
  <2>2. \A k \in 1..n : replies'[k].of = IF k = n THEN of ELSE Relays[k]
    BY <1>1, <1>2, <1>5
  <2>3. \A k \in 1..n : replies'[k].of \in 0..MaxRequests
    BY <1>2, <1>6, <2>2, <1>5
  <2>4. Relays' \in Seq(0..MaxRequests) /\ Len(Relays') = n
    BY <1>5, <2>3
  <2>5. \A k \in 1..n : Relays'[k] = Append(Relays, of)[k]
    BY <1>5, <2>1, <2>2
  <2> HIDE DEF Relays
  <2> QED
    BY <2>1, <2>4, <2>5, SeqEqual
<1>9. Contract!Relayed \ {Nobody} = Answered
  BY <1>2, <1>5 DEF Contract!Relayed, Answered
<1> QED
  BY <1>3, <1>4, <1>7, <1>8, <1>9

GatewayStep == InOnePlace' /\ [Contract!Next]_(Contract!vars)

(* The requester gets what a device answered to it or to another before    *)
(* it, which nobody got yet, or learns that the backend failed.            *)
LEMMA AnswersGateway ==
  ASSUME TypeOK, InOnePlace, InOnePlace',
         NEW n \in 1..MaxRequests, n = Len(replies) + 1, n <= Len(sent),
         NEW result \in Results, NEW of \in 0..MaxRequests, Reply(n, result, of),
         \/ of = Nobody
         \/ of \in 1..n /\ of \notin Answered /\ handled[of] = 1,
         UNCHANGED handled
  PROVE  GatewayStep
<1>1. /\ Relays' = Append(Relays, of) /\ Len(Relays) + 1 = n
      /\ Contract!Relayed \ {Nobody} = Answered
  BY ReplyRelays DEF InOnePlace
<1>2. n \in DOMAIN sent /\ sent' = sent
  BY DEF TypeOK, Reply, frontend
<1>3. CASE of = Nobody
  <2>1. Contract!Answer
    BY <1>1, <1>2, <1>3 DEF Contract!Answer, Contract!Failed, Nobody
  <2> QED
    BY <2>1 DEF GatewayStep, Contract!Next
<1>4. CASE of \in 1..n /\ of \notin Answered /\ handled[of] = 1
  <2>1. of \in 1..n \ Contract!Relayed
    BY <1>1, <1>4 DEF Nobody
  <2>2. Contract!Answer
    BY <1>1, <1>2, <1>4, <2>1 DEF Contract!Answer
  <2> QED
    BY <2>2 DEF GatewayStep, Contract!Next
<1> QED
  BY <1>3, <1>4

(* A step of which the frontend and the devices know nothing. *)
LEMMA Unseen ==
  ASSUME InOnePlace', UNCHANGED <<sent, handled, replies>>
  PROVE  GatewayStep
<1>1. UNCHANGED Contract!vars
  BY DEF Contract!vars, Relays
<1> QED
  BY <1>1 DEF GatewayStep

(* A call that fails, with messages gone or not. *)
LEMMA FailsGateway ==
  ASSUME RelayInv, InOnePlace, phase # "idle",
         NEW result \in {"GATEWAY_PATH", "GATEWAY_TARGET"}, End(result, Nobody),
         UNCHANGED handled,
         Distinct(requests'), Numbers(requests') \subseteq Numbers(requests),
         Distinct(flight'), Numbers(flight') \subseteq Numbers(flight),
         Distinct(inbox'), Numbers(inbox') \subseteq Numbers(inbox)
  PROVE  GatewayStep
<1>1. /\ received \in 1..MaxRequests /\ received = Len(replies) + 1 /\ received <= Len(sent)
      /\ result \in Results /\ Nobody \in 0..MaxRequests /\ TypeOK
  BY ProxyAssumption DEF RelayInv, TypeOK, Results, Nobody
<1>2. /\ Reply(received, result, Nobody) /\ received' = received /\ phase' = "idle"
  BY DEF End, Reply
<1> HIDE DEF Nobody
<1>3. /\ \A k \in DOMAIN replies' : replies'[k].to = k
      /\ Answered' = (Answered \union {Nobody}) \ {Nobody}
  BY <1>1, <1>2, ReplyRelays DEF InOnePlace
<1>4. Answered' = Answered
  BY <1>3 DEF Answered
<1>5. InOnePlace'
  BY <1>2, <1>3, <1>4, FewerPlaces
<1> QED
  BY <1>1, <1>2, <1>5, AnswersGateway

(* A step of the link that loses messages or none. *)
LEMMA LosesGateway ==
  ASSUME InOnePlace, UNCHANGED <<sent, received, replies, handled>>,
         Distinct(requests'), Numbers(requests') \subseteq Numbers(requests),
         Distinct(flight'), Numbers(flight') \subseteq Numbers(flight),
         Distinct(inbox'), Numbers(inbox') \subseteq Numbers(inbox),
         phase' = "sending" => phase = "sending"
  PROVE  GatewayStep
<1>1. Answered' = Answered
  BY DEF Answered
<1>2. \A k \in DOMAIN replies' : replies'[k].to = k
  BY DEF InOnePlace
<1>3. InOnePlace'
  BY <1>1, <1>2, FewerPlaces
<1> QED
  BY <1>3, Unseen

(* A request comes. *)
LEMMA AskGateway ==
  ASSUME RelayInv, InOnePlace, NEW s \in Slaves, Ask(s)
  PROVE  GatewayStep
<1>1. /\ Len(sent) < MaxRequests /\ sent' = Append(sent, s)
      /\ UNCHANGED <<received, phase, replies, requests, flight, inbox, handled>>
  BY DEF Ask, proxy, queues
<1>2. InOnePlace'
  BY <1>1, FewerPlaces DEF InOnePlace, Answered
<1>3. Contract!Ask(s)
  BY <1>1 DEF Contract!Ask, Relays
<1> QED
  BY <1>2, <1>3 DEF GatewayStep, Contract!Next

(* modbus_proxy begins, with a request that nobody has handled, ...        *)
LEMMA ForwardGateway ==
  ASSUME RelayInv, InOnePlace, Forward
  PROVE  GatewayStep
<1>1. /\ received' = received + 1 /\ phase = "idle" /\ phase' = "sending"
      /\ UNCHANGED <<sent, replies, requests, flight, inbox, handled>>
  BY DEF Forward, Receive, frontend, queues
<1>2. received \in 0..MaxRequests /\ Numbers(requests) \subseteq 1..received
  BY NumbersCame
<1>3. received' \notin Numbers(requests)
  BY <1>1, <1>2
<1>4. \A n \in 1..MaxRequests : n > received' \/ n = received' => handled[n] = 0
  BY <1>1, <1>2 DEF InOnePlace
<1>5. InOnePlace'
  BY <1>1, <1>3, <1>4, SMTT(30) DEF InOnePlace, Numbers, Distinct, Answered
<1> QED
  BY <1>1, <1>5, Unseen

(* ... or refuses it. *)
LEMMA RefuseGateway ==
  ASSUME RelayInv, InOnePlace, Refuse
  PROVE  GatewayStep
<1>1. /\ received' = received + 1 /\ received < Len(sent) /\ phase = "idle" /\ phase' = "idle"
      /\ Reply(received', "GATEWAY_PATH", Nobody)
      /\ UNCHANGED <<sent, requests, flight, inbox, handled>>
  BY DEF Refuse, Receive, Reply, frontend, queues
<1>2. /\ received' \in 1..MaxRequests /\ received' = Len(replies) + 1 /\ received' <= Len(sent)
      /\ "GATEWAY_PATH" \in Results /\ Nobody \in 0..MaxRequests /\ TypeOK
  BY <1>1, ProxyAssumption DEF RelayInv, TypeOK, Results, Nobody
<1> HIDE DEF Nobody
<1>3. /\ \A k \in DOMAIN replies' : replies'[k].to = k
      /\ Answered' = (Answered \union {Nobody}) \ {Nobody}
  BY <1>1, <1>2, ReplyRelays DEF InOnePlace
<1>4. Answered' = Answered
  BY <1>3 DEF Answered
<1>5. received \in Nat
  BY NumbersCame
<1>6. \A n \in 1..MaxRequests : n > received' => handled[n] = 0
  BY <1>1, <1>5 DEF InOnePlace
<1>7. InOnePlace'
  BY <1>1, <1>3, <1>4, <1>6, SMTT(30) DEF InOnePlace, Numbers, Distinct
<1> QED
  BY <1>1, <1>2, <1>7, AnswersGateway

(* The request goes out once. *)
LEMMA SendGateway ==
  ASSUME RelayInv, InOnePlace, Send
  PROVE  GatewayStep
<1> DEFINE m == [of |-> received, slave |-> slave, live |-> TRUE]
<1>1. /\ requests' = Append(requests, m) /\ phase = "sending" /\ phase' = "waiting"
      /\ UNCHANGED <<sent, received, replies, flight, inbox, handled>>
  BY DEF Send, frontend
<1>2. /\ received \in 1..MaxRequests /\ received \in Nat
      /\ m \in Request /\ m.of = received /\ requests \in Seq(Request)
  BY <1>1, ProxyAssumption DEF RelayInv, TypeOK, Addressing, Request
<1> HIDE DEF m
<1>3. handled[received] = 0 /\ received \notin Numbers(requests)
  BY <1>1, <1>2 DEF InOnePlace
<1>4. Numbers(requests') = Numbers(requests) \union {received} /\ Distinct(requests')
  BY <1>1, <1>2, <1>3, AppendNumbers DEF InOnePlace
<1>5. \A n \in Numbers(requests') : handled'[n] = 0
  BY <1>1, <1>3, <1>4 DEF InOnePlace
<1>6. InOnePlace'
  <2>1. Answered' = Answered
    BY <1>1 DEF Answered
  <2>2. /\ Numbers(flight') \intersect Numbers(inbox') = {}
        /\ (Numbers(flight') \union Numbers(inbox')) \intersect Answered' = {}
        /\ Distinct(flight') /\ Distinct(inbox')
        /\ \A n \in Numbers(flight') \union Numbers(inbox') \union Answered' : handled'[n] = 1
        /\ \A n \in DOMAIN replies' : replies'[n].to = n
    BY <1>1, <2>1 DEF InOnePlace
  <2>3. \A n \in 1..MaxRequests : n > received' => handled'[n] = 0
    BY <1>1 DEF InOnePlace
  <2> QED
    BY <1>1, <1>4, <1>5, <2>2, <2>3 DEF InOnePlace, Numbers, Distinct
<1> QED
  BY <1>1, <1>6, Unseen

(* Sending again, or giving it up. *)
LEMMA SendingGateway ==
  ASSUME RelayInv, InOnePlace, Sending
  PROVE  GatewayStep
<1>1. CASE Send
  BY <1>1, SendGateway
<1>2. CASE SendFails
  <2>1. /\ phase # "idle" /\ End("GATEWAY_PATH", Nobody)
        /\ UNCHANGED <<requests, flight, inbox, handled>>
    BY <1>2 DEF SendFails, queues
  <2> QED
    BY <2>1, FailsGateway DEF InOnePlace
<1>3. CASE SendReconnects
  <2>1. /\ requests' = Orphaned(requests) /\ flight' = <<>> /\ inbox' = <<>>
        /\ UNCHANGED <<sent, received, phase, replies, handled>>
    BY <1>3 DEF SendReconnects, Reconnect, frontend, proxy
  <2>2. requests \in Seq(Request)
    BY DEF RelayInv, TypeOK
  <2> QED
    BY <2>1, <2>2, FewerNumbers, LosesGateway DEF InOnePlace
<1>4. CASE SendFlushes
  <2>1. inbox' = <<>> /\ UNCHANGED <<sent, received, phase, replies, requests, flight, handled>>
    BY <1>4 DEF SendFlushes, frontend, proxy
  <2> QED
    BY <2>1, FewerNumbers, LosesGateway DEF InOnePlace
<1> QED
  BY <1>1, <1>2, <1>3, <1>4 DEF Sending

(* The answer is relayed, and leaves the inbox. *)
LEMMA RelayGateway ==
  ASSUME RelayInv, InOnePlace, RelayAnswer
  PROVE  GatewayStep
<1> DEFINE of == Head(inbox).of
<1>1. /\ phase = "waiting" /\ phase' = "idle" /\ inbox # <<>> /\ inbox' = Tail(inbox)
      /\ Reply(received, "relayed", of)
      /\ UNCHANGED <<received, sent, requests, flight, handled>>
  BY DEF RelayAnswer, Take, End, Reply, frontend
<1>2. /\ received \in 1..MaxRequests /\ received = Len(replies) + 1 /\ received <= Len(sent)
      /\ "relayed" \in Results /\ TypeOK /\ inbox \in Seq(Answer)
  BY <1>1, ProxyAssumption DEF RelayInv, TypeOK, Results
<1>3. /\ of \in Numbers(inbox) /\ Distinct(inbox')
      /\ Numbers(inbox') = Numbers(inbox) \ {of}
  BY <1>1, <1>2, TailNumbers DEF InOnePlace
<1>4. of \in 1..received /\ of \in 0..MaxRequests
  BY <1>2, <1>3, NumbersCame
<1>5. handled[of] = 1 /\ of \notin Answered /\ of \notin Numbers(flight)
  BY <1>3 DEF InOnePlace
<1> HIDE DEF of
<1>6. /\ \A k \in DOMAIN replies' : replies'[k].to = k
      /\ Answered' = (Answered \union {of}) \ {Nobody}
  BY <1>1, <1>2, <1>4, ReplyRelays DEF InOnePlace
<1>7. InOnePlace'
  <2>1. /\ Numbers(flight') \intersect Numbers(inbox') = {}
        /\ (Numbers(flight') \union Numbers(inbox')) \intersect Answered' = {}
    BY <1>1, <1>3, <1>5, <1>6 DEF InOnePlace
  <2>2. \A n \in Numbers(flight') \union Numbers(inbox') \union Answered' : handled'[n] = 1
    BY <1>1, <1>3, <1>5, <1>6 DEF InOnePlace
  <2>3. /\ Distinct(requests') /\ Distinct(flight')
        /\ \A n \in Numbers(requests') : handled'[n] = 0
        /\ \A n \in 1..MaxRequests : n > received' => handled'[n] = 0
    BY <1>1 DEF InOnePlace
  <2> QED
    BY <1>1, <1>3, <1>6, <2>1, <2>2, <2>3 DEF InOnePlace, Numbers, Distinct
<1> QED
  BY <1>1, <1>2, <1>4, <1>5, <1>7, AnswersGateway

(* Receiving, and giving it up. *)
LEMMA ReceivingGateway ==
  ASSUME RelayInv, InOnePlace, Receiving
  PROVE  GatewayStep
<1>1. CASE RelayAnswer
  BY <1>1, RelayGateway
<1>2. inbox \in Seq(Answer) /\ requests \in Seq(Request)
  BY DEF RelayInv, TypeOK
<1>3. CASE RejectAnswer \/ ReceiveDamaged
  <2>1. PICK result \in {"GATEWAY_PATH", "GATEWAY_TARGET"} : End(result, Nobody)
    BY <1>3 DEF RejectAnswer, ReceiveDamaged
  <2>2. /\ phase # "idle" /\ inbox # <<>> /\ inbox' \in {<<>>, Tail(inbox)}
        /\ UNCHANGED <<requests, flight, handled>>
    BY <1>3 DEF RejectAnswer, ReceiveDamaged, Take
  <2>3. Distinct(inbox') /\ Numbers(inbox') \subseteq Numbers(inbox)
    BY <1>2, <2>2, TailNumbers, FewerNumbers DEF InOnePlace
  <2> QED
    BY <2>1, <2>2, <2>3, FailsGateway DEF InOnePlace
<1>4. CASE Timeout \/ Flush
  <2>1. /\ phase # "idle" /\ End("GATEWAY_TARGET", Nobody) /\ inbox' \in {<<>>, inbox}
        /\ UNCHANGED <<requests, flight, handled>>
    BY <1>4 DEF Timeout, Flush, queues
  <2>2. Distinct(inbox') /\ Numbers(inbox') \subseteq Numbers(inbox)
    BY <2>1, FewerNumbers DEF InOnePlace
  <2> QED
    BY <2>1, <2>2, FailsGateway DEF InOnePlace
<1>5. CASE TimeoutSleeps
  <2>1. /\ phase' = "sleeping"
        /\ UNCHANGED <<sent, received, replies, requests, flight, inbox, handled>>
    BY <1>5 DEF TimeoutSleeps, frontend, queues
  <2> QED
    BY <2>1, LosesGateway DEF InOnePlace
<1>6. CASE LoseConnection
  <2>1. /\ phase # "idle" /\ End("GATEWAY_PATH", Nobody) /\ handled' = handled
        /\ Reconnect \/ UNCHANGED queues
    BY <1>6 DEF LoseConnection
  <2>2. CASE Reconnect
    <3>1. requests' = Orphaned(requests) /\ flight' = <<>> /\ inbox' = <<>>
      BY <2>2 DEF Reconnect
    <3> QED
      BY <1>2, <2>1, <3>1, FewerNumbers, FailsGateway DEF InOnePlace
  <2>3. CASE UNCHANGED queues
    <3>1. UNCHANGED <<requests, flight, inbox>>
      BY <2>3 DEF queues
    <3> QED
      BY <2>1, <3>1, FailsGateway DEF InOnePlace
  <2> QED
    BY <2>1, <2>2, <2>3
<1> QED
  BY <1>1, <1>3, <1>4, <1>5, <1>6 DEF Receiving

(* A device handles a request that none has handled before. *)
LEMMA HandleGateway ==
  ASSUME RelayInv, InOnePlace, Handle
  PROVE  GatewayStep
<1> DEFINE r == Head(requests)
           a == [of |-> r.of, slave |-> r.slave]
           of == r.of
<1>1. /\ requests # <<>> /\ requests' = Tail(requests)
      /\ flight' \in {flight, Append(flight, a)}
      /\ handled' = [handled EXCEPT ![of] = @ + 1]
      /\ UNCHANGED <<sent, received, phase, replies, inbox>>
  BY DEF Handle, frontend, proxy
<1>2. /\ requests \in Seq(Request) /\ flight \in Seq(Answer) /\ r \in Request
      /\ handled \in [1..MaxRequests -> Nat]
  BY <1>1, HeadAndTail DEF RelayInv, TypeOK
<1>3. a \in Answer /\ a.of = of
  BY <1>2 DEF Request, Answer
<1>4. /\ of \in Numbers(requests) /\ Distinct(requests')
      /\ Numbers(requests') = Numbers(requests) \ {of}
  BY <1>1, <1>2, TailNumbers DEF InOnePlace
<1>5. /\ of \in 1..received /\ received \in 0..MaxRequests /\ received <= Len(sent)
      /\ MaxRequests \in Nat /\ of \in 1..MaxRequests
  BY <1>4, NumbersCame DEF RelayInv, TypeOK
<1>6. handled[of] = 0 /\ (of = received => phase # "sending")
  BY <1>4 DEF InOnePlace
<1>7. of \notin Numbers(flight) /\ of \notin Numbers(inbox) /\ of \notin Answered
  BY <1>6 DEF InOnePlace
<1> HIDE DEF r, a, of
<1>8. handled' = [handled EXCEPT ![of] = 1]
  BY <1>1, <1>6
<1>9. /\ handled'[of] = 1
      /\ \A n \in 1..MaxRequests : n # of => handled'[n] = handled[n]
  BY <1>2, <1>5, <1>8
<1>10. Numbers(flight') \subseteq Numbers(flight) \union {of} /\ Distinct(flight')
  <2>1. /\ Numbers(Append(flight, a)) = Numbers(flight) \union {of}
        /\ Distinct(Append(flight, a))
    BY <1>2, <1>3, <1>7, AppendNumbers DEF InOnePlace
  <2> QED
    BY <1>1, <2>1 DEF InOnePlace
<1>11. Answered' = Answered /\ Answered \subseteq 1..MaxRequests
  <2>1. \A n \in DOMAIN replies : replies[n].of \in 0..MaxRequests
    <3> DEFINE X == [to : 1..MaxRequests, result : Results, of : 0..MaxRequests]
    <3>1. replies \in Seq(X)
      BY DEF RelayInv, TypeOK
    <3> HIDE DEF X
    <3>2. \A n \in DOMAIN replies : replies[n] \in X
      BY <3>1
    <3> QED
      BY <3>2 DEF X
  <2>2. \A n \in 0..MaxRequests : n # Nobody => n \in 1..MaxRequests
    BY DEF Nobody
  <2> QED
    BY <1>1, <2>1, <2>2 DEF Answered
<1>12. InOnePlace'
  <2>1. /\ Numbers(flight') \intersect Numbers(inbox') = {}
        /\ (Numbers(flight') \union Numbers(inbox')) \intersect Answered' = {}
    BY <1>1, <1>7, <1>10, <1>11 DEF InOnePlace
  <2>2. \A n \in Numbers(requests') : handled'[n] = 0 /\ (n = received' => phase' # "sending")
    BY <1>1, <1>4, <1>5, <1>9, NumbersCame DEF InOnePlace
  <2>3. \A n \in Numbers(flight') \union Numbers(inbox') \union Answered' : handled'[n] = 1
    <3>1. ASSUME NEW n \in Numbers(flight) \union Numbers(inbox) \union Answered
          PROVE  handled'[n] = 1
      <4>1. handled[n] = 1 /\ n # of
        BY <1>6 DEF InOnePlace
      <4>2. n \in 1..MaxRequests
        <5>1. \A k \in 1..received : k \in 1..MaxRequests
          BY <1>5
        <5> QED
          BY <1>11, <5>1, NumbersCame
      <4> QED
        BY <1>9, <4>1, <4>2
    <3> QED
      BY <1>1, <1>9, <1>10, <1>11, <3>1
  <2>4. \A n \in 1..MaxRequests :
          n > received' \/ (n = received' /\ phase' = "sending") => handled'[n] = 0
    BY <1>1, <1>5, <1>6, <1>9 DEF InOnePlace
  <2> QED
    BY <1>1, <1>4, <1>10, <2>1, <2>2, <2>3, <2>4 DEF InOnePlace, Numbers, Distinct
<1>13. Contract!Handle(of)
  <2>1. of \in DOMAIN sent
    BY <1>5 DEF RelayInv, TypeOK
  <2> QED
    BY <1>1, <1>6, <1>8, <2>1 DEF Contract!Handle, Relays
<1> QED
  BY <1>5, <1>12, <1>13 DEF GatewayStep, Contract!Next

(* An answer arrives. *)
LEMMA DeliverGateway ==
  ASSUME RelayInv, InOnePlace, Deliver
  PROVE  GatewayStep
<1> DEFINE a == Head(flight)
<1>1. /\ flight # <<>> /\ flight' = Tail(flight) /\ inbox' = Append(inbox, a)
      /\ UNCHANGED <<sent, received, phase, replies, requests, handled>>
  BY DEF Deliver, frontend, proxy
<1>2. flight \in Seq(Answer) /\ inbox \in Seq(Answer) /\ a \in Answer
  BY <1>1, HeadAndTail DEF RelayInv, TypeOK
<1>3. a.of \in Numbers(flight) /\ Distinct(flight') /\ Numbers(flight') = Numbers(flight) \ {a.of}
  BY <1>1, <1>2, TailNumbers DEF InOnePlace
<1> HIDE DEF a
<1>4. Numbers(inbox') = Numbers(inbox) \union {a.of} /\ Distinct(inbox')
  BY <1>1, <1>2, <1>3, AppendNumbers DEF InOnePlace
<1>5. Answered' = Answered
  BY <1>1 DEF Answered
<1>6. InOnePlace'
  <2>1. /\ Numbers(flight') \intersect Numbers(inbox') = {}
        /\ Numbers(flight') \union Numbers(inbox') = Numbers(flight) \union Numbers(inbox)
    BY <1>3, <1>4 DEF InOnePlace
  <2>2. /\ (Numbers(flight') \union Numbers(inbox')) \intersect Answered' = {}
        /\ \A n \in Numbers(flight') \union Numbers(inbox') \union Answered' : handled'[n] = 1
    BY <1>1, <1>5, <2>1 DEF InOnePlace
  <2>3. /\ Distinct(requests')
        /\ \A n \in Numbers(requests') : handled'[n] = 0 /\ (n = received' => phase' # "sending")
        /\ \A n \in 1..MaxRequests :
             n > received' \/ (n = received' /\ phase' = "sending") => handled'[n] = 0
    BY <1>1 DEF InOnePlace
  <2> QED
    BY <1>1, <1>3, <1>4, <2>1, <2>2, <2>3 DEF InOnePlace, Numbers, Distinct
<1> QED
  BY <1>1, <1>6, Unseen

(* Messages are lost, or nothing happens. *)
LEMMA LinkGateway ==
  ASSUME RelayInv, InOnePlace, LoseRequest \/ Break \/ UNCHANGED vars
  PROVE  GatewayStep
<1>1. requests \in Seq(Request)
  BY DEF RelayInv, TypeOK
<1>2. CASE LoseRequest
  <2>1. /\ requests # <<>> /\ requests' = Tail(requests)
        /\ UNCHANGED <<sent, received, phase, replies, flight, inbox, handled>>
    BY <1>2 DEF LoseRequest, frontend, proxy
  <2> QED
    BY <1>1, <2>1, TailNumbers, LosesGateway DEF InOnePlace
<1>3. CASE Break
  <2>1. /\ requests' = Orphaned(requests) /\ flight' = <<>>
        /\ UNCHANGED <<sent, received, phase, replies, inbox, handled>>
    BY <1>3 DEF Break, frontend, proxy
  <2> QED
    BY <1>1, <2>1, FewerNumbers, LosesGateway DEF InOnePlace
<1>4. CASE UNCHANGED vars
  <2>1. UNCHANGED <<sent, received, phase, replies, requests, flight, inbox, handled>>
    BY <1>4 DEF vars, frontend, proxy, queues
  <2> QED
    BY <2>1, LosesGateway DEF InOnePlace
<1> QED
  BY <1>2, <1>3, <1>4

(* All together. *)
LEMMA EveryStepGateway ==
  ASSUME RelayInv, InOnePlace, [Next]_vars
  PROVE  GatewayStep
BY AskGateway, ForwardGateway, RefuseGateway, SendingGateway, ReceivingGateway,
   HandleGateway, DeliverGateway, LinkGateway
DEF Next

(* At first there is nothing anywhere. *)
LEMMA InitGateway == Init => InOnePlace /\ Contract!Init
<1> SUFFICES ASSUME Init PROVE InOnePlace /\ Contract!Init
  OBVIOUS
<1>1. replies = <<>> /\ requests = <<>> /\ flight = <<>> /\ inbox = <<>>
  BY DEF Init
<1>2. InOnePlace
  <2>1. Answered = {} /\ Numbers(<<>>) = {} /\ Distinct(<<>>)
    BY <1>1, FewerNumbers DEF Answered
  <2>2. \A n \in 1..MaxRequests : handled[n] = 0
    BY DEF Init
  <2> QED
    BY <1>1, <2>1, <2>2 DEF InOnePlace
<1>3. Relays = <<>>
  BY <1>1 DEF Relays
<1> QED
  BY <1>2, <1>3 DEF Init, Contract!Init

(***************************************************************************)
(* The theorems.                                                           *)
(***************************************************************************)

(* IInv holds of every state of the loop of modbus_proxy. *)
THEOREM Invariance == Spec => []IInv
<1>1. Init => IInv
  BY InitInvariant, InitGateway DEF IInv
<1>2. RelayInv /\ [Next]_vars => RelayInv'
  <2> SUFFICES ASSUME RelayInv, [Next]_vars PROVE RelayInv'
    OBVIOUS
  <2>1. CASE Sending
    BY <2>1, SendStep, SendFailsStep, SendReconnectsStep, SendFlushesStep DEF Sending
  <2>2. CASE Receiving
    BY <2>2, RelayAnswerStep, RejectAnswerStep, ReceiveDamagedStep, TimeoutStep,
       TimeoutSleepsStep, FlushStep, LoseConnectionStep DEF Receiving
  <2>3. CASE Handle \/ Deliver \/ LoseRequest \/ Break
    BY <2>3, HandleStep, DeliverStep, LoseRequestStep, BreakStep
  <2>4. CASE (\E s \in Slaves : Ask(s)) \/ Forward \/ Refuse
    BY <2>4, AskStep, ForwardStep, RefuseStep
  <2>5. CASE UNCHANGED vars
    BY <2>5, StutterStep
  <2> QED
    BY <2>1, <2>2, <2>3, <2>4, <2>5 DEF Next
<1>3. IInv /\ [Next]_vars => IInv'
  BY <1>2, EveryStepGateway DEF IInv, GatewayStep
<1> QED
  BY <1>1, <1>3, PTL DEF Spec

(* What holds of every state that satisfies IInv: the types, ... *)
THEOREM TypeCorrect == Spec => []TypeOK
<1>1. IInv => TypeOK
  BY DEF IInv, RelayInv
<1> QED
  BY <1>1, Invariance, PTL

(* ... that over RTU no requester gets an answer of another slave, ... *)
THEOREM FromSlaveOnly == Spec => []RelaysFromSlave
<1>1. IInv => RelaysFromSlave
  BY DEF IInv, RelayInv
<1> QED
  BY <1>1, Invariance, PTL

(* ... and that under LINK, with a sleep that suffices, every requester    *)
(* gets the answer of its own request.                                     *)
THEOREM OwnUnderLink == Spec => []RelaysOwnUnderLink
<1>1. IInv => RelaysOwnUnderLink
  BY DEF IInv, RelayInv
<1> QED
  BY <1>1, Invariance, PTL

(* The loop of modbus_proxy keeps what a Gateway promises: every request   *)
(* is answered at most once, in order and with its own identifier; no      *)
(* device handles one twice; and an answer a device gave goes to one       *)
(* requester only, never before the device gave it.  Each step is one of a *)
(* Gateway; that every request is answered at last is left to TLC.         *)
THEOREM KeepsGatewayPromises == Spec => Contract!SafeSpec
<1>1. Init => Contract!Init
  BY InitGateway
<1>2. IInv /\ [Next]_vars => [Contract!Next]_(Contract!vars)
  BY EveryStepGateway DEF IInv, GatewayStep
<1> QED
  BY <1>1, <1>2, Invariance, PTL DEF Spec, Contract!SafeSpec
=============================================================================
