--------------------------- MODULE Session_proofs ---------------------------
(***************************************************************************)
(* For any number of transaction identifiers: an answer that a call takes  *)
(* is its own, or Numbers calls old.  The inductive invariant says that a  *)
(* message on its way carries the number its call had, counted back from   *)
(* the present one, for as long as it is younger than Numbers calls.       *)
(* Without identifiers, under LINK: an answer that a call takes is its     *)
(* own, since one message at most is under way.                            *)
(* And whatever is repeated, lost or late, the server handles a call once  *)
(* at most, and once if it is confirmed: the session implements Calls.     *)
(***************************************************************************)
EXTENDS Session, SequenceTheorems, FiniteSetTheorems, FunctionTheorems, TLAPS

(***************************************************************************)
(* The queues.                                                             *)
(***************************************************************************)

(* There is a number to give. *)
LEMMA NumbersPositive == Numbers \in Nat \ {0}
BY TidsAssumption DEF Numbers

(* The first message of a queue, and the queue without it. *)
LEMMA HeadAndTail ==
  ASSUME NEW X, NEW s \in Seq(X), s # <<>>, NEW t, Numbered(s, t)
  PROVE  /\ Head(s) \in X /\ Tail(s) \in Seq(X)
         /\ Head(s).age < Numbers => Head(s).tid = TidBefore(t, Head(s).age)
         /\ Numbered(Tail(s), t)
<1>1. Len(s) \in Nat \ {0} /\ 1 \in DOMAIN s /\ Head(s) = s[1] /\ Tail(s) \in Seq(X)
  OBVIOUS
<1>2. \A i \in DOMAIN Tail(s) : i + 1 \in DOMAIN s /\ Tail(s)[i] = s[i + 1]
  OBVIOUS
<1>3. Head(s) \in X
  BY <1>1
<1> QED
  BY <1>1, <1>2, <1>3 DEF Numbered

(* A queue with one more message. *)
LEMMA Appended ==
  ASSUME NEW X, NEW s \in Seq(X), NEW m \in X, NEW t, Numbered(s, t),
         m.age < Numbers => m.tid = TidBefore(t, m.age)
  PROVE  Append(s, m) \in Seq(X) /\ Numbered(Append(s, m), t)
<1>1. /\ Append(s, m) \in Seq(X)
      /\ DOMAIN Append(s, m) = 1..(Len(s) + 1)
      /\ \A i \in 1..(Len(s) + 1) :
           Append(s, m)[i] = IF i = Len(s) + 1 THEN m ELSE s[i]
  OBVIOUS
<1>2. \A i \in 1..(Len(s) + 1) : i # Len(s) + 1 => i \in DOMAIN s
  OBVIOUS
<1> QED
  BY <1>1, <1>2 DEF Numbered

(* An empty queue. *)
LEMMA Empty ==
  ASSUME NEW X, NEW t
  PROVE  <<>> \in Seq(X) /\ Numbered(<<>>, t)
BY DEF Numbered

(* A call makes every message older, and takes the next number. *)
LEMMA OlderNumbered ==
  ASSUME NEW X \in {Message, Answer}, NEW s \in Seq(X),
         NEW t \in 0..(Numbers - 1), Numbered(s, t)
  PROVE  Older(s) \in Seq(X) /\ Numbered(Older(s), NextTid(t))
<1>1. \A i \in DOMAIN s : s[i] \in X
  OBVIOUS
<1>2. ASSUME NEW m \in X
      PROVE  /\ [m EXCEPT !.age = @ + 1] \in X
             /\ [m EXCEPT !.age = @ + 1].age = m.age + 1
             /\ [m EXCEPT !.age = @ + 1].tid = m.tid
             /\ m.age \in Nat /\ m.tid \in 0..(Numbers - 1)
  <2>1. CASE X = Message
    BY <2>1 DEF Message
  <2>2. CASE X = Answer
    BY <2>2 DEF Answer
  <2> QED
    BY <2>1, <2>2
<1>3. Older(s) \in Seq(X) /\ DOMAIN Older(s) = DOMAIN s
  <2>1. Older(s) = [i \in 1..Len(s) |-> [s[i] EXCEPT !.age = @ + 1]]
    BY DEF Older
  <2> QED
    BY <2>1, <1>1, <1>2
<1>4. ASSUME NEW a \in Nat, NEW d \in 0..(Numbers - 1), a + 1 < Numbers, d = TidBefore(t, a)
      PROVE  d = TidBefore(NextTid(t), a + 1)
  BY <1>4, NumbersPositive DEF TidBefore, NextTid
<1>5. ASSUME NEW i \in DOMAIN s, s[i].age + 1 < Numbers
      PROVE  s[i].tid = TidBefore(NextTid(t), s[i].age + 1)
  <2>1. s[i].age \in Nat /\ s[i].tid \in 0..(Numbers - 1)
    BY <1>1, <1>2
  <2>2. s[i].tid = TidBefore(t, s[i].age)
    BY <1>5, <2>1, NumbersPositive DEF Numbered
  <2> QED
    BY <1>4, <1>5, <2>1, <2>2
<1>6. \A i \in DOMAIN s : Older(s)[i].age = s[i].age + 1 /\ Older(s)[i].tid = s[i].tid
  BY <1>1, <1>2 DEF Older
<1> QED
  BY <1>3, <1>5, <1>6 DEF Numbered

(* A message that has lost its connection keeps its number. *)
LEMMA OrphanedNumbered ==
  ASSUME NEW s \in Seq(Message), NEW t, Numbered(s, t)
  PROVE  Orphaned(s) \in Seq(Message) /\ Numbered(Orphaned(s), t)
<1>1. \A i \in DOMAIN s : s[i] \in Message
  OBVIOUS
<1>2. ASSUME NEW m \in Message
      PROVE  /\ [m EXCEPT !.live = FALSE] \in Message
             /\ [m EXCEPT !.live = FALSE].age = m.age
             /\ [m EXCEPT !.live = FALSE].tid = m.tid
  BY DEF Message
<1>3. Orphaned(s) = [i \in 1..Len(s) |-> [s[i] EXCEPT !.live = FALSE]]
  BY DEF Orphaned
<1>4. Orphaned(s) \in Seq(Message) /\ DOMAIN Orphaned(s) = DOMAIN s
  BY <1>1, <1>2, <1>3
<1>5. \A i \in DOMAIN s : Orphaned(s)[i].age = s[i].age /\ Orphaned(s)[i].tid = s[i].tid
  BY <1>1, <1>2 DEF Orphaned
<1> QED
  BY <1>4, <1>5 DEF Numbered

(***************************************************************************)
(* The steps.                                                              *)
(***************************************************************************)

(* What every step leaves, in terms of the state before it: the setting is *)
(* never changed, and with it how many numbers there are.                  *)
TypedStep ==
  /\ UNCHANGED setting
  /\ tid' \in 0..(Numbers - 1) /\ cur' \in Requests
  /\ phase' \in {"idle", "sending", "waiting", "sleeping"} /\ rc' \in Results
  /\ connected' \in BOOLEAN /\ broken' \in BOOLEAN
  /\ requests' \in Seq(Message) /\ Numbered(requests', tid')
  /\ flight' \in Seq(Answer) /\ Numbered(flight', tid')
  /\ inbox' \in Seq(Answer) /\ Numbered(inbox', tid')
  /\ handled' \in Nat /\ accepted' \in Nat \union {-1}
  /\ accepted' # -1 => accepted' = 0 \/ accepted' >= Numbers

(* Such a step keeps the invariant. *)
LEMMA TypedStepInvariant == NumberInv /\ TypedStep => NumberInv'
<1> SUFFICES ASSUME NumberInv, TypedStep PROVE NumberInv'
  OBVIOUS
<1>1. /\ recovery' = recovery /\ serial' = serial /\ sleepSuffices' = sleepSuffices
      /\ Numbers' = Numbers
  BY DEF TypedStep, setting, Numbers
<1>2. Message' = Message /\ Answer' = Answer
  BY <1>1 DEF Message, Answer
<1>3. TypeOK'
  BY <1>1, <1>2 DEF NumberInv, TypeOK, TypedStep, Results
<1>4. Numbered(requests, tid)' /\ Numbered(flight, tid)' /\ Numbered(inbox, tid)'
  BY <1>1 DEF TypedStep, Numbered, TidBefore
<1>5. OwnUnlessWrapped'
  BY <1>1 DEF TypedStep, OwnUnlessWrapped
<1> QED
  BY <1>3, <1>4, <1>5 DEF NumberInv

(* At first nothing is on its way. *)
LEMMA InitNumbers == Init => NumberInv
<1> SUFFICES ASSUME Init PROVE NumberInv
  OBVIOUS
<1>1. TypeOK
  <2>1. <<>> \in Seq(Message) /\ <<>> \in Seq(Answer)
    BY Empty
  <2>2. 0 \in 0..(Numbers - 1)
    BY NumbersPositive
  <2> QED
    BY <2>1, <2>2 DEF Init, TypeOK, Results
<1>2. Numbered(requests, tid) /\ Numbered(flight, tid) /\ Numbered(inbox, tid)
  BY DEF Init, Numbered
<1> QED
  BY <1>1, <1>2 DEF Init, NumberInv, OwnUnlessWrapped

(* A call begins. *)
LEMMA CallStep == NumberInv /\ (\E r \in Requests : Call(r)) => TypedStep
<1> SUFFICES ASSUME NumberInv, NEW r \in Requests, Call(r) PROVE TypedStep
  OBVIOUS
<1>1. tid \in 0..(Numbers - 1) /\ tid' = NextTid(tid) /\ tid' \in 0..(Numbers - 1)
  BY NumbersPositive DEF NumberInv, TypeOK, Call, NextTid
<1>2. /\ requests' \in Seq(Message) /\ Numbered(requests', tid')
      /\ flight' \in Seq(Answer) /\ Numbered(flight', tid')
      /\ inbox' \in Seq(Answer) /\ Numbered(inbox', tid')
  <2>1. /\ requests \in Seq(Message) /\ flight \in Seq(Answer) /\ inbox \in Seq(Answer)
        /\ Numbered(requests, tid) /\ Numbered(flight, tid) /\ Numbered(inbox, tid)
    BY DEF NumberInv, TypeOK
  <2>2. /\ requests' = Older(requests) /\ flight' = Older(flight) /\ inbox' = Older(inbox)
    BY DEF Call
  <2>3. Older(requests) \in Seq(Message) /\ Numbered(Older(requests), NextTid(tid))
    BY <1>1, <2>1, OlderNumbered
  <2>4. Older(flight) \in Seq(Answer) /\ Numbered(Older(flight), NextTid(tid))
    BY <1>1, <2>1, OlderNumbered
  <2>5. Older(inbox) \in Seq(Answer) /\ Numbered(Older(inbox), NextTid(tid))
    BY <1>1, <2>1, OlderNumbered
  <2> QED
    BY <1>1, <2>2, <2>3, <2>4, <2>5
<1> QED
  BY <1>1, <1>2 DEF NumberInv, TypeOK, Results, OwnUnlessWrapped, TypedStep, Call, link

(* Sending, and giving it up. *)
LEMMA SendingStep == NumberInv /\ Sending => TypedStep
<1> SUFFICES ASSUME NumberInv, Sending PROVE TypedStep
  OBVIOUS
<1> USE DEF NumberInv, TypeOK, Results, OwnUnlessWrapped, TypedStep
<1>1. CASE Send
  <2> DEFINE m == [tid |-> tid, request |-> cur, live |-> TRUE, age |-> 0]
  <2>1. m \in Message /\ m.tid = TidBefore(tid, m.age)
    BY DEF Message, TidBefore
  <2>2. requests' \in Seq(Message) /\ Numbered(requests', tid)
    <3> HIDE DEF m
    <3>1. Append(requests, m) \in Seq(Message) /\ Numbered(Append(requests, m), tid)
      BY <2>1, Appended
    <3> QED
      BY <1>1, <3>1 DEF Send, m
  <2> QED
    BY <1>1, <2>2 DEF Send, link, history
<1>2. CASE SendFails \/ SendRefused
  BY <1>2 DEF SendFails, SendRefused, Return, link, queues, history
<1>3. CASE SendReconnects \/ SendFailsToReconnect
  <2>1. Orphaned(requests) \in Seq(Message) /\ Numbered(Orphaned(requests), tid)
    BY OrphanedNumbered
  <2>2. <<>> \in Seq(Answer) /\ Numbered(<<>>, tid)
    BY Empty
  <2> QED
    BY <1>3, <2>1, <2>2
    DEF SendReconnects, SendFailsToReconnect, Connect, FailToConnect, client, history
<1>4. CASE SendFlushes
  <2>1. <<>> \in Seq(Answer) /\ Numbered(<<>>, tid)
    BY Empty
  <2> QED
    BY <1>4, <2>1 DEF SendFlushes, client, link, history
<1> QED
  BY <1>1, <1>2, <1>3, <1>4 DEF Sending

(* What Take leaves, and what it takes. *)
LEMMA TakeStep ==
  ASSUME NumberInv, Take
  PROVE  /\ Head(inbox) \in Answer
         /\ Head(inbox).age < Numbers => Head(inbox).tid = TidBefore(tid, Head(inbox).age)
         /\ inbox' \in Seq(Answer) /\ Numbered(inbox', tid)
<1>1. inbox \in Seq(Answer) /\ inbox # <<>> /\ Numbered(inbox, tid) /\ inbox' = Tail(inbox)
  BY DEF NumberInv, TypeOK, Take
<1> QED
  BY <1>1, HeadAndTail

(* A number that agrees is that of the present call, or one come again. *)
LEMMA Agrees ==
  ASSUME NEW t \in 0..(Numbers - 1), NEW age \in Nat, age < Numbers, t = TidBefore(t, age)
  PROVE  age = 0
BY NumbersPositive DEF TidBefore

(* Receiving, and giving it up. *)
LEMMA ReceivingStep == NumberInv /\ Receiving => TypedStep
<1> SUFFICES ASSUME NumberInv, Receiving PROVE TypedStep
  OBVIOUS
<1> USE DEF NumberInv, TypeOK, Results, OwnUnlessWrapped, TypedStep
<1>1. CASE ReceiveConfirmation
  <2>1. Take /\ Head(inbox).tid = tid /\ accepted' = Head(inbox).age
    BY <1>1 DEF ReceiveConfirmation, TidMatches
  <2>2. /\ Head(inbox).age \in Nat
        /\ Head(inbox).age < Numbers => Head(inbox).tid = TidBefore(tid, Head(inbox).age)
        /\ inbox' \in Seq(Answer) /\ Numbered(inbox', tid)
    BY <2>1, TakeStep DEF Answer
  <2>3. accepted' = 0 \/ accepted' >= Numbers
    BY <2>1, <2>2, Agrees, NumbersPositive
  <2>4. phase' = "idle" /\ rc' \in {"ok", "exception"} /\ tid' = tid /\ cur' = cur
    BY <1>1 DEF ReceiveConfirmation, Return
  <2> QED
    BY <2>1, <2>2, <2>3, <2>4 DEF Take, link
<1>2. CASE ReceiveBadException \/ ReceiveMismatch
  <2>1. Take
    BY <1>2 DEF ReceiveBadException, ReceiveMismatch
  <2>2. inbox' \in Seq(Answer) /\ Numbered(inbox', tid)
    BY <2>1, TakeStep
  <2> QED
    BY <1>2, <2>2 DEF ReceiveBadException, ReceiveMismatch, Take, Return, link
<1>3. CASE ReceiveDamaged
  <2>1. inbox # <<>> /\ (inbox' = <<>> \/ inbox' = Tail(inbox))
    BY <1>3 DEF ReceiveDamaged
  <2>2. Tail(inbox) \in Seq(Answer) /\ Numbered(Tail(inbox), tid)
    BY <2>1, HeadAndTail
  <2>3. inbox' \in Seq(Answer) /\ Numbered(inbox', tid)
    BY <2>1, <2>2, Empty
  <2> QED
    BY <1>3, <2>3 DEF ReceiveDamaged, Return, link, history
<1>4. CASE Timeout \/ LoseConnection
  BY <1>4 DEF Timeout, LoseConnection, Return, link, queues, history
<1>5. CASE Flush
  <2>1. <<>> \in Seq(Answer) /\ Numbered(<<>>, tid)
    BY Empty
  <2> QED
    BY <1>5, <2>1 DEF Flush, Return, link, history
<1>6. CASE LoseAndReconnect
  <2>1. Orphaned(requests) \in Seq(Message) /\ Numbered(Orphaned(requests), tid)
    BY OrphanedNumbered
  <2>2. <<>> \in Seq(Answer) /\ Numbered(<<>>, tid)
    BY Empty
  <2> QED
    BY <1>6, <2>1, <2>2 DEF LoseAndReconnect, Connect, FailToConnect, Return, history
<1> QED
  BY <1>1, <1>2, <1>3, <1>4, <1>5, <1>6 DEF Receiving

(* The application connects again, or flushes. *)
LEMMA ReconnectStep ==
  NumberInv /\ (ApplicationReconnects \/ ApplicationFlushes) => TypedStep
<1> SUFFICES ASSUME NumberInv, ApplicationReconnects \/ ApplicationFlushes PROVE TypedStep
  OBVIOUS
<1> USE DEF NumberInv, TypeOK, Results, OwnUnlessWrapped, TypedStep
<1>1. Orphaned(requests) \in Seq(Message) /\ Numbered(Orphaned(requests), tid)
  BY OrphanedNumbered
<1>2. <<>> \in Seq(Answer) /\ Numbered(<<>>, tid)
  BY Empty
<1> QED
  BY <1>1, <1>2 DEF ApplicationReconnects, ApplicationFlushes, Connect, client, link, history

(* The server answers, messages move, are lost, or are cut off. *)
LEMMA EnvironmentStep == NumberInv /\ Environment => TypedStep
<1> SUFFICES ASSUME NumberInv, Environment PROVE TypedStep
  OBVIOUS
<1> USE DEF NumberInv, TypeOK, Results, OwnUnlessWrapped, TypedStep
<1>1. ASSUME NEW exception \in BOOLEAN, Handle(exception) PROVE TypedStep
  <2> DEFINE r == Head(requests)
             a == [tid |-> r.tid, request |-> r.request,
                   exception |-> exception, age |-> r.age]
  <2>1. requests # <<>> /\ requests' = Tail(requests)
    BY <1>1 DEF Handle
  <2>2. /\ r \in Message /\ (r.age < Numbers => r.tid = TidBefore(tid, r.age))
        /\ requests' \in Seq(Message) /\ Numbered(requests', tid)
    BY <2>1, HeadAndTail
  <2>3. a \in Answer /\ (a.age < Numbers => a.tid = TidBefore(tid, a.age))
    BY <2>2 DEF Message, Answer
  <2>4. Append(flight, a) \in Seq(Answer) /\ Numbered(Append(flight, a), tid)
    <3> HIDE DEF a
    <3> QED BY <2>3, Appended
  <2>5. flight' \in Seq(Answer) /\ Numbered(flight', tid)
    <3>1. flight' = Append(flight, a) \/ flight' = flight
      BY <1>1 DEF Handle
    <3> QED
      BY <2>4, <3>1
  <2>6. handled' \in Nat
    BY <1>1 DEF Handle
  <2> QED
    BY <1>1, <2>2, <2>5, <2>6 DEF Handle, client, link
<1>2. CASE Deliver
  <2>1. /\ Head(flight) \in Answer
        /\ Head(flight).age < Numbers => Head(flight).tid = TidBefore(tid, Head(flight).age)
        /\ Tail(flight) \in Seq(Answer) /\ Numbered(Tail(flight), tid)
    BY <1>2, HeadAndTail DEF Deliver
  <2>2. Append(inbox, Head(flight)) \in Seq(Answer)
        /\ Numbered(Append(inbox, Head(flight)), tid)
    BY <2>1, Appended
  <2> QED
    BY <1>2, <2>1, <2>2 DEF Deliver, client, link, history
<1>3. CASE LoseRequest
  <2>1. Tail(requests) \in Seq(Message) /\ Numbered(Tail(requests), tid)
    BY <1>3, HeadAndTail DEF LoseRequest
  <2> QED
    BY <1>3, <2>1 DEF LoseRequest, client, link, history
<1>4. CASE LoseAnswer
  <2>1. Tail(flight) \in Seq(Answer) /\ Numbered(Tail(flight), tid)
    BY <1>4, HeadAndTail DEF LoseAnswer
  <2> QED
    BY <1>4, <2>1 DEF LoseAnswer, client, link, history
<1>5. CASE Break
  <2>1. Orphaned(requests) \in Seq(Message) /\ Numbered(Orphaned(requests), tid)
    BY OrphanedNumbered
  <2>2. <<>> \in Seq(Answer) /\ Numbered(<<>>, tid)
    BY Empty
  <2> QED
    BY <1>5, <2>1, <2>2 DEF Break, client, history
<1> QED
  BY <1>1, <1>2, <1>3, <1>4, <1>5 DEF Environment

(* A step that changes nothing. *)
LEMMA StutterStep == NumberInv /\ UNCHANGED vars => TypedStep
BY DEF NumberInv, TypeOK, OwnUnlessWrapped, TypedStep, vars, setting, client, link, queues, history

(***************************************************************************)
(* One message at a time, under LINK.                                      *)
(***************************************************************************)

(* The queues of a state with the invariant, and what they hold. *)
LEMMA QueuesTyped ==
  NumberInv => requests \in Seq(Message) /\ flight \in Seq(Answer) /\ inbox \in Seq(Answer)
BY DEF NumberInv, TypeOK

(* Of a queue with one message nothing is left. *)
LEMMA TailOfOne ==
  ASSUME NEW X, NEW s \in Seq(X), Len(s) = 1
  PROVE  Tail(s) = <<>>
<1>1. Tail(s) \in Seq(X) /\ Len(Tail(s)) = 0
  OBVIOUS
<1> QED
  BY <1>1, EmptySeq

(* A queue of live and dead messages without its first, which is live: it  *)
(* was the only one.                                                       *)
LEMMA TailDead ==
  ASSUME NEW s \in Seq(Message), s # <<>>
  PROVE  /\ 1 \in DOMAIN s /\ Head(s) = s[1] /\ Tail(s) \in Seq(Message)
         /\ \A i \in DOMAIN Tail(s) : i + 1 \in DOMAIN s /\ Tail(s)[i] = s[i + 1]
         /\ \A i, j \in DOMAIN Tail(s) : i + 1 = j + 1 => i = j
         /\ \A i \in DOMAIN Tail(s) : i + 1 # 1
<1>1. Len(s) \in Nat \ {0} /\ 1 \in DOMAIN s /\ Head(s) = s[1] /\ Tail(s) \in Seq(Message)
  OBVIOUS
<1>2. \A i \in DOMAIN Tail(s) : i \in Nat \ {0} /\ i + 1 \in DOMAIN s /\ Tail(s)[i] = s[i + 1]
  OBVIOUS
<1> QED
  BY <1>1, <1>2

(* Requests that have lost their connection are of none. *)
LEMMA OrphanedDead ==
  ASSUME NEW s \in Seq(Message)
  PROVE  NoneLive(Orphaned(s))
<1>1. \A i \in DOMAIN s : s[i] \in Message
  OBVIOUS
<1>2. ASSUME NEW m \in Message PROVE ~[m EXCEPT !.live = FALSE].live
  BY DEF Message
<1> QED
  BY <1>1, <1>2 DEF Orphaned, NoneLive

(* A call makes no dead message live. *)
LEMMA OlderDead ==
  ASSUME NEW s \in Seq(Message), NoneLive(s)
  PROVE  NoneLive(Older(s))
<1>1. \A i \in DOMAIN s : s[i] \in Message
  OBVIOUS
<1>2. ASSUME NEW m \in Message PROVE [m EXCEPT !.age = @ + 1].live = m.live
  BY DEF Message
<1> QED
  BY <1>1, <1>2 DEF Older, NoneLive

(* With nothing under way there is nothing to prove. *)
LEMMA NothingUnderWay ==
  ASSUME NoneLive(requests)', flight' = <<>>, inbox' = <<>>
  PROVE  OneAtATime'
BY DEF OneAtATime, NoneLive

(* Of one answer, nothing is left when it is taken. *)
LEMMA NothingLeft ==
  ASSUME NumberInv, OneAtATime, "LINK" \in recovery, sleepSuffices,
         inbox # <<>>, inbox' \in {Tail(inbox), <<>>}, UNCHANGED <<requests, flight>>
  PROVE  OneAtATime'
<1>1. Len(inbox) = 1 /\ flight = <<>> /\ NoneLive(requests) /\ inbox \in Seq(Answer)
  BY QueuesTyped DEF OneAtATime
<1>2. inbox' = <<>>
  BY <1>1, TailOfOne
<1>3. NoneLive(requests)' /\ flight' = <<>>
  BY <1>1 DEF NoneLive
<1> QED
  BY <1>2, <1>3, NothingUnderWay

(* What is under way stays, and no call begins or ends. *)
LEMMA NothingMoves ==
  ASSUME OneAtATime, UNCHANGED <<setting, queues>>,
         phase' \in {"idle", "sending"} => phase \in {"idle", "sending"}
  PROVE  OneAtATime'
BY DEF OneAtATime, NoneLive, setting, queues

(* A step under LINK, with a sleep that suffices. *)
AloneStep == OneAtATime' /\ accepted' \in {accepted, -1, 0}

(* A call begins when nothing is under way. *)
LEMMA CallAlone ==
  ASSUME NumberInv, OneAtATime, "LINK" \in recovery, sleepSuffices,
         NEW r \in Requests, Call(r)
  PROVE  AloneStep
<1>1. /\ NoneLive(requests) /\ requests \in Seq(Message) /\ flight = <<>> /\ inbox = <<>>
  BY QueuesTyped DEF Call, OneAtATime
<1>2. /\ requests' = Older(requests) /\ flight' = Older(flight) /\ inbox' = Older(inbox)
      /\ accepted' = -1
  BY DEF Call
<1>3. NoneLive(requests)'
  BY <1>1, <1>2, OlderDead DEF NoneLive
<1>4. flight' = <<>> /\ inbox' = <<>>
  BY <1>1, <1>2 DEF Older
<1> QED
  BY <1>2, <1>3, <1>4, NothingUnderWay DEF AloneStep

(* The request goes out alone. *)
LEMMA SendAlone ==
  ASSUME NumberInv, OneAtATime, "LINK" \in recovery, sleepSuffices, Send
  PROVE  AloneStep
<1> DEFINE m == [tid |-> tid, request |-> cur, live |-> TRUE, age |-> 0]
<1>1. /\ NoneLive(requests) /\ requests \in Seq(Message) /\ flight = <<>> /\ inbox = <<>>
  BY QueuesTyped DEF Send, OneAtATime
<1>2. /\ requests' = Append(requests, m) /\ phase' = "waiting" /\ m.age = 0
      /\ UNCHANGED <<flight, inbox, accepted>>
  BY DEF Send, history
<1> HIDE DEF m
<1>3. /\ \A i \in DOMAIN requests : Append(requests, m)[i] = requests[i]
      /\ \A i \in DOMAIN Append(requests, m) : i \in DOMAIN requests \/ i = Len(requests) + 1
      /\ Append(requests, m)[Len(requests) + 1] = m
  BY <1>1
<1>4. \A i \in DOMAIN requests' :
        requests'[i].live => i = Len(requests) + 1 /\ requests'[i].age = 0
  BY <1>1, <1>2, <1>3 DEF NoneLive
<1>5. OneAtATime'
  BY <1>1, <1>2, <1>4 DEF OneAtATime
<1> QED
  BY <1>2, <1>5 DEF AloneStep

(* A new connection has nothing in it, ... *)
LEMMA ReconnectAlone ==
  ASSUME NumberInv, Connect \/ FailToConnect, UNCHANGED accepted
  PROVE  AloneStep
<1>1. requests' = Orphaned(requests) /\ flight' = <<>> /\ inbox' = <<>>
  BY DEF Connect, FailToConnect
<1>2. NoneLive(requests)'
  BY <1>1, QueuesTyped, OrphanedDead DEF NoneLive
<1> QED
  BY <1>1, <1>2, NothingUnderWay DEF AloneStep

(* ... and neither has a link after a sleep and a flush. *)
LEMMA FlushAlone ==
  ASSUME sleepSuffices, Settled, inbox' = <<>>, UNCHANGED <<requests, flight, accepted>>
  PROVE  AloneStep
<1>1. NoneLive(requests)' /\ flight' = <<>>
  BY DEF Settled, NoneLive
<1> QED
  BY <1>1, NothingUnderWay DEF AloneStep

(* Sending. *)
LEMMA SendingAlone ==
  ASSUME NumberInv, OneAtATime, "LINK" \in recovery, sleepSuffices, Sending
  PROVE  AloneStep
<1>1. CASE Send
  BY <1>1, SendAlone
<1>2. CASE SendFails \/ SendRefused
  BY <1>2 DEF SendFails, SendRefused
<1>3. CASE SendReconnects \/ SendFailsToReconnect
  BY <1>3, ReconnectAlone DEF SendReconnects, SendFailsToReconnect, history
<1>4. CASE SendFlushes
  BY <1>4, FlushAlone DEF SendFlushes, history
<1> QED
  BY <1>1, <1>2, <1>3, <1>4 DEF Sending

(* Receiving: the answer that is taken is the only one, and it is of the   *)
(* present call.                                                           *)
LEMMA ReceivingAlone ==
  ASSUME NumberInv, OneAtATime, "LINK" \in recovery, sleepSuffices, Receiving
  PROVE  AloneStep
<1>1. CASE ReceiveConfirmation
  <2>1. /\ inbox # <<>> /\ inbox' = Tail(inbox) /\ UNCHANGED <<requests, flight>>
        /\ accepted' = Head(inbox).age
    BY <1>1 DEF ReceiveConfirmation, Take
  <2>2. 1 \in DOMAIN inbox /\ Head(inbox) = inbox[1]
    BY <2>1, QueuesTyped
  <2>3. accepted' = 0
    BY <2>1, <2>2 DEF OneAtATime
  <2> QED
    BY <2>1, <2>3, NothingLeft DEF AloneStep
<1>2. CASE ReceiveBadException \/ ReceiveMismatch
  <2>1. /\ inbox # <<>> /\ inbox' = Tail(inbox) /\ UNCHANGED <<requests, flight, accepted>>
    BY <1>2 DEF ReceiveBadException, ReceiveMismatch, Take
  <2> QED
    BY <2>1, NothingLeft DEF AloneStep
<1>3. CASE ReceiveDamaged
  <2>1. /\ inbox # <<>> /\ inbox' \in {Tail(inbox), <<>>}
        /\ UNCHANGED <<requests, flight, accepted>>
    BY <1>3 DEF ReceiveDamaged, history
  <2> QED
    BY <2>1, NothingLeft DEF AloneStep
<1>4. CASE Timeout
  <2>1. /\ phase' = "sleeping" /\ UNCHANGED <<setting, queues, accepted>>
    BY <1>4 DEF Timeout, history
  <2> QED
    BY <2>1, NothingMoves DEF AloneStep
<1>5. CASE Flush
  BY <1>5, FlushAlone DEF Flush, history
<1>6. CASE LoseConnection
  BY <1>6 DEF LoseConnection
<1>7. CASE LoseAndReconnect
  BY <1>7, ReconnectAlone DEF LoseAndReconnect, history
<1> QED
  BY <1>1, <1>2, <1>3, <1>4, <1>5, <1>6, <1>7 DEF Receiving

(* The server answers the one live request, or drops a dead one. *)
LEMMA HandleAlone ==
  ASSUME NumberInv, OneAtATime, "LINK" \in recovery, sleepSuffices,
         NEW exception \in BOOLEAN, Handle(exception)
  PROVE  AloneStep
<1> DEFINE r == Head(requests)
           a == [tid |-> r.tid, request |-> r.request, exception |-> exception, age |-> r.age]
<1>1. /\ requests # <<>> /\ requests \in Seq(Message) /\ requests' = Tail(requests)
      /\ flight' = IF r.live THEN Append(flight, a) ELSE flight
      /\ UNCHANGED <<setting, phase, inbox, accepted>>
  BY QueuesTyped DEF Handle, client
<1>2. /\ 1 \in DOMAIN requests /\ r = requests[1]
      /\ \A i \in DOMAIN requests' : i + 1 \in DOMAIN requests /\ requests'[i] = requests[i + 1]
      /\ \A i, j \in DOMAIN requests' : i + 1 = j + 1 => i = j
      /\ \A i \in DOMAIN requests' : i + 1 # 1
  BY <1>1, TailDead
<1>3. CASE r.live
  <2>1. ~NoneLive(requests)
    BY <1>2, <1>3 DEF NoneLive
  <2>2. flight = <<>> /\ inbox = <<>> /\ phase \notin {"idle", "sending"} /\ r.age = 0
    BY <1>2, <1>3, <2>1 DEF OneAtATime
  <2>3. NoneLive(requests)'
    BY <1>2, <1>3 DEF NoneLive, OneAtATime
  <2>4. flight' = <<a>> /\ a.age = 0
    BY <1>1, <1>3, <2>2
  <2>5. Len(flight') = 1 /\ \A i \in DOMAIN flight' : flight'[i].age = 0
    <3> HIDE DEF a
    <3> QED BY <2>4
  <2>6. OneAtATime'
    BY <1>1, <2>2, <2>3, <2>5 DEF OneAtATime, NoneLive
  <2> QED
    BY <1>1, <2>6 DEF AloneStep
<1>4. CASE ~r.live
  <2>1. flight' = flight
    BY <1>1, <1>4
  <2>2. NoneLive(requests) => NoneLive(requests)'
    BY <1>2 DEF NoneLive
  <2>3. /\ \A i, j \in DOMAIN requests' : requests'[i].live /\ requests'[j].live => i = j
        /\ \A i \in DOMAIN requests' : requests'[i].live => requests'[i].age = 0
    BY <1>2 DEF OneAtATime
  <2>4. OneAtATime'
    BY <1>1, <2>1, <2>2, <2>3 DEF OneAtATime, setting
  <2> QED
    BY <1>1, <2>4 DEF AloneStep
<1> QED
  BY <1>3, <1>4

(* The one answer arrives. *)
LEMMA DeliverAlone ==
  ASSUME NumberInv, OneAtATime, "LINK" \in recovery, sleepSuffices, Deliver
  PROVE  AloneStep
<1> DEFINE a == Head(flight)
<1>1. /\ flight # <<>> /\ flight \in Seq(Answer) /\ flight' = Tail(flight)
      /\ inbox' = Append(inbox, a) /\ UNCHANGED <<setting, phase, requests, accepted>>
  BY QueuesTyped DEF Deliver, client, history
<1>2. Len(flight) = 1 /\ NoneLive(requests) /\ inbox = <<>> /\ phase \notin {"idle", "sending"}
  BY <1>1 DEF OneAtATime
<1>3. flight' = <<>>
  BY <1>1, <1>2, TailOfOne
<1>4. inbox' = <<a>> /\ a.age = 0
  <2>1. 1 \in DOMAIN flight /\ a = flight[1]
    BY <1>1
  <2>2. a.age = 0
    BY <2>1 DEF OneAtATime
  <2> QED
    BY <1>1, <1>2, <2>2
<1>5. Len(inbox') = 1 /\ \A i \in DOMAIN inbox' : inbox'[i].age = 0
  <2> HIDE DEF a
  <2> QED BY <1>4
<1>6. OneAtATime'
  BY <1>1, <1>2, <1>3, <1>5 DEF OneAtATime, NoneLive
<1> QED
  BY <1>1, <1>6 DEF AloneStep

(* What is lost leaves less under way. *)
LEMMA LossAlone ==
  ASSUME NumberInv, OneAtATime, "LINK" \in recovery, sleepSuffices,
         LoseRequest \/ LoseAnswer \/ Break
  PROVE  AloneStep
<1>1. CASE LoseRequest
  <2>1. /\ requests # <<>> /\ requests \in Seq(Message) /\ requests' = Tail(requests)
        /\ UNCHANGED <<setting, phase, flight, inbox, accepted>>
    BY <1>1, QueuesTyped DEF LoseRequest, client, history
  <2>2. /\ \A i \in DOMAIN requests' : i + 1 \in DOMAIN requests /\ requests'[i] = requests[i + 1]
        /\ \A i, j \in DOMAIN requests' : i + 1 = j + 1 => i = j
    BY <2>1, TailDead
  <2>3. NoneLive(requests) => NoneLive(requests)'
    BY <2>2 DEF NoneLive
  <2>4. /\ \A i, j \in DOMAIN requests' : requests'[i].live /\ requests'[j].live => i = j
        /\ \A i \in DOMAIN requests' : requests'[i].live => requests'[i].age = 0
    BY <2>2 DEF OneAtATime
  <2>5. OneAtATime'
    BY <2>1, <2>3, <2>4 DEF OneAtATime, setting
  <2> QED
    BY <2>1, <2>5 DEF AloneStep
<1>2. CASE LoseAnswer
  <2>1. /\ flight # <<>> /\ flight \in Seq(Answer) /\ flight' = Tail(flight)
        /\ UNCHANGED <<requests, inbox, accepted>>
    BY <1>2, QueuesTyped DEF LoseAnswer, history
  <2>2. Len(flight) = 1 /\ NoneLive(requests) /\ inbox = <<>>
    BY <2>1 DEF OneAtATime
  <2>3. flight' = <<>> /\ inbox' = <<>> /\ NoneLive(requests)'
    BY <2>1, <2>2, TailOfOne DEF NoneLive
  <2> QED
    BY <2>1, <2>3, NothingUnderWay DEF AloneStep
<1>3. CASE Break
  <2>1. /\ requests' = Orphaned(requests) /\ flight' = <<>>
        /\ UNCHANGED <<setting, phase, inbox, accepted>>
    BY <1>3 DEF Break, client, history
  <2>2. NoneLive(requests)'
    BY <2>1, QueuesTyped, OrphanedDead DEF NoneLive
  <2>3. OneAtATime'
    BY <2>1, <2>2 DEF OneAtATime, NoneLive, setting
  <2> QED
    BY <2>1, <2>3 DEF AloneStep
<1> QED
  BY <1>1, <1>2, <1>3

(* The application connects again or flushes; or nothing happens.          *)
LEMMA ApplicationAlone ==
  ASSUME NumberInv, OneAtATime, "LINK" \in recovery, sleepSuffices,
         ApplicationReconnects \/ ApplicationFlushes \/ UNCHANGED vars
  PROVE  AloneStep
<1>1. CASE ApplicationReconnects
  BY <1>1, ReconnectAlone DEF ApplicationReconnects, history
<1>2. CASE ApplicationFlushes
  <2>1. /\ inbox # <<>> /\ inbox' = <<>> /\ UNCHANGED <<requests, flight, accepted>>
    BY <1>2 DEF ApplicationFlushes, history
  <2> QED
    BY <2>1, NothingLeft DEF AloneStep
<1>3. CASE UNCHANGED vars
  BY <1>3, NothingMoves DEF AloneStep, vars, client, history
<1> QED
  BY <1>1, <1>2, <1>3

(* So every step keeps what LINK promises. *)
LEMMA AloneInvariant == IInv /\ [Next]_vars => OneAtATime' /\ OwnUnderLink'
<1> SUFFICES ASSUME IInv, [Next]_vars PROVE OneAtATime' /\ OwnUnderLink'
  OBVIOUS
<1>1. NumberInv /\ OneAtATime /\ OwnUnderLink
  BY DEF IInv
<1>2. UNCHANGED setting
  BY <1>1, CallStep, SendingStep, ReceivingStep, ReconnectStep, EnvironmentStep, StutterStep
  DEF Next, TypedStep
<1>3. CASE "LINK" \in recovery /\ sleepSuffices
  <2>1. AloneStep
    BY <1>1, <1>3, CallAlone, SendingAlone, ReceivingAlone, HandleAlone, DeliverAlone,
       LossAlone, ApplicationAlone
    DEF Next, Environment
  <2>2. accepted <= 0
    BY <1>1, <1>3 DEF OwnUnderLink
  <2> QED
    BY <2>1, <2>2 DEF AloneStep, OwnUnderLink
<1>4. CASE ~("LINK" \in recovery /\ sleepSuffices)
  BY <1>2, <1>4 DEF OneAtATime, OwnUnderLink, setting
<1> QED
  BY <1>3, <1>4

(***************************************************************************)
(* The calls as the server sees them.                                      *)
(***************************************************************************)

(* The messages of calls before the present one. *)
OfOthers(s) == {i \in DOMAIN s : s[i].age > 0}

(* They can be counted. *)
LEMMA OthersCounted ==
  ASSUME NEW X, NEW s \in Seq(X)
  PROVE  /\ DOMAIN s = 1..Len(s) /\ IsFiniteSet(DOMAIN s)
         /\ IsFiniteSet(OfOthers(s)) /\ Cardinality(OfOthers(s)) \in Nat
<1>1. DOMAIN s = 1..Len(s) /\ Len(s) \in Nat
  OBVIOUS
<1>2. IsFiniteSet(DOMAIN s)
  BY <1>1, FS_Interval
<1>3. OfOthers(s) \in SUBSET (DOMAIN s)
  BY DEF OfOthers
<1>4. IsFiniteSet(OfOthers(s))
  BY <1>2, <1>3, FS_Subset
<1> QED
  BY <1>1, <1>2, <1>4, FS_CardinalityType

(* The first message leaves the queue. *)
LEMMA OthersOfTail ==
  ASSUME NEW X, NEW s \in Seq(X), s # <<>>
  PROVE  /\ Head(s) = s[1] /\ 1 \in DOMAIN s
         /\ Cardinality(OfOthers(s)) \in Nat /\ Cardinality(OfOthers(Tail(s))) \in Nat
         /\ Cardinality(OfOthers(Tail(s))) =
              IF Head(s).age > 0 THEN Cardinality(OfOthers(s)) - 1
                                 ELSE Cardinality(OfOthers(s))
<1>1. Head(s) = s[1] /\ 1 \in DOMAIN s /\ Tail(s) \in Seq(X)
  OBVIOUS
<1>2. /\ \A i \in DOMAIN Tail(s) : i \in Nat /\ i + 1 \in DOMAIN s \ {1} /\ Tail(s)[i] = s[i + 1]
      /\ \A j \in DOMAIN s \ {1} : j \in Nat /\ j - 1 \in DOMAIN Tail(s) /\ (j - 1) + 1 = j
  OBVIOUS
<1> DEFINE S == OfOthers(Tail(s))
           T == OfOthers(s) \ {1}
           f == [i \in S |-> i + 1]
<1>3. f \in Bijection(S, T)
  <2>1. \A i \in S : i \in Nat /\ i + 1 \in T
    BY <1>2 DEF OfOthers
  <2>2. f \in [S -> T]
    BY <2>1
  <2>3. \A i, j \in S : f[i] = f[j] => i = j
    BY <2>1
  <2>4. ASSUME NEW j \in T PROVE \E i \in S : f[i] = j
    <3>1. j \in DOMAIN s \ {1} /\ s[j].age > 0
      BY DEF OfOthers
    <3>2. j - 1 \in DOMAIN Tail(s) /\ Tail(s)[j - 1] = s[j] /\ (j - 1) + 1 = j
      BY <1>2, <3>1
    <3>3. j - 1 \in S
      BY <3>1, <3>2 DEF OfOthers
    <3> QED
      BY <3>2, <3>3
  <2> QED
    BY <2>2, <2>3, <2>4, Fun_IsBij
<1>4. IsFiniteSet(OfOthers(s)) /\ IsFiniteSet(S)
  BY <1>1, OthersCounted
<1>5. Cardinality(T) = Cardinality(S)
  <2>1. ExistsBijection(S, T)
    BY <1>3 DEF ExistsBijection
  <2> QED
    BY <1>4, <2>1, FS_Bijection
<1>6. Cardinality(T) = IF 1 \in OfOthers(s) THEN Cardinality(OfOthers(s)) - 1
                                            ELSE Cardinality(OfOthers(s))
  BY <1>4, FS_RemoveElement
<1>7. 1 \in OfOthers(s) <=> Head(s).age > 0
  BY <1>1 DEF OfOthers
<1>8. Cardinality(OfOthers(s)) \in Nat /\ Cardinality(OfOthers(Tail(s))) \in Nat
  BY <1>1, OthersCounted
<1> QED
  BY <1>1, <1>5, <1>6, <1>7, <1>8

(* A request of the present call joins them. *)
LEMMA OthersOfAppend ==
  ASSUME NEW X, NEW s \in Seq(X), NEW m \in X, m.age = 0
  PROVE  OfOthers(Append(s, m)) = OfOthers(s)
<1>1. /\ DOMAIN Append(s, m) = DOMAIN s \union {Len(s) + 1}
      /\ Append(s, m)[Len(s) + 1] = m
      /\ \A i \in DOMAIN s : Append(s, m)[i] = s[i] /\ i # Len(s) + 1
  OBVIOUS
<1> QED
  BY <1>1 DEF OfOthers

(* A connection ends. *)
LEMMA OthersOfOrphaned ==
  ASSUME NEW s \in Seq(Message)
  PROVE  /\ DOMAIN Orphaned(s) = DOMAIN s
         /\ \A i \in DOMAIN s : Orphaned(s)[i].age = s[i].age
         /\ OfOthers(Orphaned(s)) = OfOthers(s)
<1>1. \A i \in DOMAIN s : s[i] \in Message
  OBVIOUS
<1>2. ASSUME NEW m \in Message PROVE [m EXCEPT !.live = FALSE].age = m.age
  BY DEF Message
<1>3. DOMAIN Orphaned(s) = DOMAIN s /\ \A i \in DOMAIN s : Orphaned(s)[i].age = s[i].age
  BY <1>1, <1>2 DEF Orphaned
<1> QED
  BY <1>3 DEF OfOthers

(* A new call begins: all messages are of others. *)
LEMMA AllOfOthers ==
  ASSUME NEW X \in {Message, Answer}, NEW s \in Seq(X)
  PROVE  DOMAIN Older(s) = DOMAIN s /\ NoneOfThisCall(Older(s)) /\ OfOthers(Older(s)) = DOMAIN s
<1>1. \A i \in DOMAIN s : s[i] \in X
  OBVIOUS
<1>2. ASSUME NEW m \in X PROVE [m EXCEPT !.age = @ + 1].age > 0
  <2>1. CASE X = Message
    BY <2>1 DEF Message
  <2>2. CASE X = Answer
    BY <2>2 DEF Answer
  <2> QED
    BY <2>1, <2>2
<1>3. DOMAIN Older(s) = DOMAIN s /\ \A i \in DOMAIN s : Older(s)[i].age > 0
  BY <1>1, <1>2 DEF Older
<1> QED
  BY <1>3 DEF NoneOfThisCall, OfOthers

(* One message more than before, if one was of this call. *)
LEMMA OneMoreOfOthers ==
  ASSUME NEW s \in Seq(Message), AtMostOne(s)
  PROVE  Cardinality(DOMAIN s) = IF NoneOfThisCall(s) THEN Cardinality(OfOthers(s))
                                                      ELSE Cardinality(OfOthers(s)) + 1
<1>1. \A i \in DOMAIN s : s[i].age \in Nat
  <2>1. \A i \in DOMAIN s : s[i] \in Message
    OBVIOUS
  <2> QED
    BY <2>1 DEF Message
<1>2. CASE NoneOfThisCall(s)
  <2>1. OfOthers(s) = DOMAIN s
    BY <1>2 DEF NoneOfThisCall, OfOthers
  <2> QED
    BY <1>2, <2>1
<1>3. CASE ~NoneOfThisCall(s)
  <2>1. PICK k \in DOMAIN s : s[k].age = 0
    BY <1>1, <1>3 DEF NoneOfThisCall
  <2>2. \A i \in DOMAIN s : i # k => s[i].age > 0
    BY <1>1, <2>1 DEF AtMostOne
  <2>3. DOMAIN s = OfOthers(s) \cup {k}
    BY <2>1, <2>2 DEF OfOthers
  <2>4. IsFiniteSet(OfOthers(s))
    BY OthersCounted
  <2>5. k \notin OfOthers(s)
    <3>1. ~(s[k].age > 0)
      BY <2>1
    <3> QED
      BY <3>1 DEF OfOthers
  <2> QED
    BY <1>3, <2>3, <2>4, <2>5, FS_AddElement
<1> QED
  BY <1>2, <1>3

(* What is abandoned. *)
LEMMA AbandonedAre ==
  /\ Abandoned = OfOthers(requests) /\ Abandoned' = OfOthers(requests')
BY DEF Abandoned, OfOthers

(* What takes messages of the present call from a queue, and adds none.    *)
NoMore(s, t) ==
  /\ NoneOfThisCall(s) => NoneOfThisCall(t)
  /\ AtMostOne(s) => AtMostOne(t)

(* The first message leaves the queue. *)
LEMMA TailNoMore ==
  ASSUME NEW X, NEW s \in Seq(X), s # <<>>
  PROVE  /\ NoMore(s, Tail(s))
         /\ NoneOfThisCall(s) => Head(s).age > 0
         /\ X = Message /\ AtMostOne(s) /\ Head(s).age = 0 => NoneOfThisCall(Tail(s))
<1>1. 1 \in DOMAIN s /\ Head(s) = s[1]
  OBVIOUS
<1>2. \A i \in DOMAIN Tail(s) : i \in Nat \ {0} /\ i + 1 \in DOMAIN s /\ Tail(s)[i] = s[i + 1]
  OBVIOUS
<1>3. NoneOfThisCall(s) => NoneOfThisCall(Tail(s)) /\ Head(s).age > 0
  BY <1>1, <1>2 DEF NoneOfThisCall
<1>4. AtMostOne(s) => AtMostOne(Tail(s))
  <2>1. \A i, j \in DOMAIN Tail(s) : i + 1 = j + 1 => i = j
    BY <1>2
  <2> QED
    BY <1>2, <2>1 DEF AtMostOne
<1>5. ASSUME AtMostOne(s), Head(s).age = 0, X = Message PROVE NoneOfThisCall(Tail(s))
  <2>1. \A i \in DOMAIN s : s[i] \in Message
    BY <1>5
  <2>2. \A i \in DOMAIN s : s[i].age \in Nat
    BY <2>1 DEF Message
  <2>3. \A i \in DOMAIN Tail(s) : i + 1 # 1
    BY <1>2
  <2>4. \A i \in DOMAIN Tail(s) : s[i + 1].age # 0
    BY <1>1, <1>2, <1>5, <2>3 DEF AtMostOne
  <2> QED
    BY <1>2, <2>2, <2>4 DEF NoneOfThisCall
<1> QED
  BY <1>3, <1>4, <1>5 DEF NoMore

(* A message comes behind the others. *)
LEMMA AppendNoMore ==
  ASSUME NEW X, NEW s \in Seq(X), NEW m \in X
  PROVE  /\ m.age > 0 /\ NoneOfThisCall(s) => NoneOfThisCall(Append(s, m))
         /\ NoneOfThisCall(s) => AtMostOne(Append(s, m))
<1>1. /\ DOMAIN Append(s, m) = DOMAIN s \union {Len(s) + 1}
      /\ Append(s, m)[Len(s) + 1] = m
      /\ \A i \in DOMAIN s : Append(s, m)[i] = s[i] /\ i # Len(s) + 1
  OBVIOUS
<1>2. m.age > 0 /\ NoneOfThisCall(s) => NoneOfThisCall(Append(s, m))
  BY <1>1 DEF NoneOfThisCall
<1>3. ASSUME NoneOfThisCall(s) PROVE AtMostOne(Append(s, m))
  <2>1. \A i \in DOMAIN s : ~(s[i].age = 0)
    BY <1>3 DEF NoneOfThisCall
  <2> QED
    BY <1>1, <2>1 DEF AtMostOne
<1> QED
  BY <1>2, <1>3

(* An empty queue, and one whose connection has ended. *)
LEMMA FewerNoMore ==
  /\ NoneOfThisCall(<<>>)
  /\ \A s : NoMore(s, s)
  /\ \A s \in Seq(Message) : NoMore(s, Orphaned(s))
<1>1. NoneOfThisCall(<<>>)
  BY DEF NoneOfThisCall
<1>2. ASSUME NEW s \in Seq(Message) PROVE NoMore(s, Orphaned(s))
  <2>1. DOMAIN Orphaned(s) = DOMAIN s /\ \A i \in DOMAIN s : Orphaned(s)[i].age = s[i].age
    BY OthersOfOrphaned
  <2> QED
    BY <2>1 DEF NoMore, NoneOfThisCall, AtMostOne
<1> QED
  BY <1>1, <1>2 DEF NoMore

(* A step that adds no message of the call keeps the count of what was     *)
(* handled in order.                                                       *)
LEMMA OnceKept ==
  ASSUME HandledOnce, handled' = handled, NoMore(requests, requests'),
         NoneOfThisCall(flight) /\ NoneOfThisCall(inbox)
           => NoneOfThisCall(flight') /\ NoneOfThisCall(inbox'),
         phase' = "sending" => phase = "sending",
         phase' # "idle" => phase # "idle" /\ accepted' = accepted,
         phase' = "sleeping" => rc' # "none"
  PROVE  HandledOnce'
<1>1. AtMostOne(requests')
  BY DEF HandledOnce, NoMore, AtMostOne
<1>2. phase' = "sending" \/ handled' = 1 => NoneOfThisCall(requests')
  BY DEF HandledOnce, NoMore
<1> QED
  BY <1>1, <1>2 DEF HandledOnce, AtMostOne, NoneOfThisCall

(***************************************************************************)
(* Every step is one of a call of Calls.                                   *)
(***************************************************************************)
CallsStep == HandledOnce' /\ [Contract!Next]_(Contract!vars)

(* A step of which Calls knows nothing. *)
LEMMA Unseen ==
  ASSUME HandledOnce', handled' = handled, UNCHANGED <<serial, phase, rc, accepted>>,
         Cardinality(OfOthers(requests')) = Cardinality(OfOthers(requests))
  PROVE  CallsStep
<1>1. Outcome' = Outcome /\ (phase # "idle")' = (phase # "idle")
  BY DEF Outcome, Numbers
<1>2. UNCHANGED Contract!vars
  BY <1>1, AbandonedAre DEF Contract!vars
<1> QED
  BY <1>2 DEF CallsStep

(* A step in the midst of a call. *)
LEMMA GoesOn ==
  ASSUME HandledOnce', handled' = handled, phase # "idle", phase' # "idle",
         Cardinality(OfOthers(requests')) = Cardinality(OfOthers(requests))
  PROVE  CallsStep
<1>1. Outcome' = Outcome /\ (phase # "idle")' = (phase # "idle")
  BY DEF Outcome
<1>2. UNCHANGED Contract!vars
  BY <1>1, AbandonedAre DEF Contract!vars
<1> QED
  BY <1>2 DEF CallsStep

(* A call fails. *)
LEMMA Fails ==
  ASSUME HandledOnce, HandledOnce', handled' = handled, phase # "idle", phase' = "idle",
         rc' # "none", accepted' = accepted, UNCHANGED serial,
         Cardinality(OfOthers(requests')) = Cardinality(OfOthers(requests))
  PROVE  CallsStep
<1>1. accepted' = -1
  BY DEF HandledOnce
<1>2. Outcome' = "failed"
  BY <1>1, NumbersPositive DEF Outcome, Numbers
<1>3. Contract!Fail
  BY <1>2, AbandonedAre DEF Contract!Fail
<1> QED
  BY <1>3 DEF CallsStep, Contract!Next

(* A call begins. *)
LEMMA CallBegins ==
  ASSUME NumberInv, HandledOnce, NEW r \in Requests, Call(r)
  PROVE  CallsStep
<1>1. /\ requests \in Seq(Message) /\ flight \in Seq(Answer) /\ inbox \in Seq(Answer)
      /\ handled \in Nat
  BY DEF NumberInv, TypeOK
<1>2. /\ phase = "idle" /\ phase' = "sending" /\ handled' = 0 /\ accepted' = -1
      /\ requests' = Older(requests) /\ flight' = Older(flight) /\ inbox' = Older(inbox)
  BY DEF Call
<1>3. /\ NoneOfThisCall(requests') /\ NoneOfThisCall(flight') /\ NoneOfThisCall(inbox')
      /\ OfOthers(requests') = DOMAIN requests
  BY <1>1, <1>2, AllOfOthers
<1>4. AtMostOne(requests')
  <2>1. \A i \in DOMAIN requests' : ~(requests'[i].age = 0)
    BY <1>3 DEF NoneOfThisCall
  <2> QED
    BY <2>1 DEF AtMostOne
<1>5. HandledOnce'
  BY <1>2, <1>3, <1>4 DEF HandledOnce, AtMostOne, NoneOfThisCall
<1>6. \/ Cardinality(OfOthers(requests')) = Cardinality(OfOthers(requests))
      \/ handled = 0
         /\ Cardinality(OfOthers(requests')) = Cardinality(OfOthers(requests)) + 1
  BY <1>1, <1>3, OneMoreOfOthers DEF HandledOnce
<1>7. Contract!Begin
  BY <1>2, <1>6, AbandonedAre DEF Contract!Begin, Outcome
<1> QED
  BY <1>5, <1>7 DEF CallsStep, Contract!Next

(* The request goes out, and it was not handled before. *)
LEMMA SendOnce ==
  ASSUME NumberInv, HandledOnce, Send
  PROVE  CallsStep
<1> DEFINE m == [tid |-> tid, request |-> cur, live |-> TRUE, age |-> 0]
<1>1. requests \in Seq(Message) /\ m \in Message /\ m.age = 0
  BY DEF NumberInv, TypeOK, Message
<1>2. /\ phase = "sending" /\ phase' = "waiting" /\ requests' = Append(requests, m)
      /\ UNCHANGED <<flight, inbox, handled, accepted>>
  BY DEF Send, history
<1>3. handled = 0 /\ NoneOfThisCall(requests)
  BY <1>2 DEF HandledOnce
<1> HIDE DEF m
<1>4. AtMostOne(requests')
  BY <1>1, <1>2, <1>3, AppendNoMore
<1>5. HandledOnce'
  BY <1>2, <1>3, <1>4 DEF HandledOnce, AtMostOne, NoneOfThisCall
<1>6. Cardinality(OfOthers(requests')) = Cardinality(OfOthers(requests))
  BY <1>1, <1>2, OthersOfAppend
<1> QED
  BY <1>2, <1>5, <1>6, GoesOn

(* A new connection takes its requests from the queue, and loses none.     *)
LEMMA ConnectNoMore ==
  ASSUME NumberInv, Connect \/ FailToConnect
  PROVE  /\ NoMore(requests, requests')
         /\ OfOthers(requests') = OfOthers(requests)
         /\ NoneOfThisCall(flight') /\ NoneOfThisCall(inbox')
<1>1. requests \in Seq(Message)
  BY DEF NumberInv, TypeOK
<1>2. requests' = Orphaned(requests) /\ flight' = <<>> /\ inbox' = <<>>
  BY DEF Connect, FailToConnect
<1> QED
  BY <1>1, <1>2, FewerNoMore, OthersOfOrphaned

(* Sending again, or giving it up. *)
LEMMA SendingOnce ==
  ASSUME NumberInv, HandledOnce, Sending
  PROVE  CallsStep
<1>1. CASE Send
  BY <1>1, SendOnce
<1>2. CASE SendFails \/ SendRefused
  <2>1. /\ phase = "sending" /\ phase' = "idle" /\ rc' # "none"
        /\ UNCHANGED <<serial, requests, flight, inbox, handled, accepted>>
    BY <1>2 DEF SendFails, SendRefused, Return, setting, queues, history
  <2>2. HandledOnce'
    BY <2>1, OnceKept, FewerNoMore
  <2> QED
    BY <2>1, <2>2, Fails
<1>3. CASE SendReconnects \/ SendFailsToReconnect
  <2>1. /\ phase = "sending" /\ (Connect \/ FailToConnect)
        /\ UNCHANGED <<serial, phase, rc, handled, accepted>>
    BY <1>3 DEF SendReconnects, SendFailsToReconnect, setting, client, history
  <2>2. HandledOnce'
    BY <2>1, OnceKept, ConnectNoMore
  <2> QED
    BY <2>1, <2>2, ConnectNoMore, Unseen
<1>4. CASE SendFlushes
  <2>1. inbox' = <<>> /\ UNCHANGED <<serial, phase, rc, requests, flight, handled, accepted>>
    BY <1>4 DEF SendFlushes, setting, client, history
  <2>2. phase = "sending"
    BY <1>4 DEF SendFlushes
  <2>3. HandledOnce'
    BY <2>1, <2>2, OnceKept, FewerNoMore
  <2> QED
    BY <2>1, <2>3, Unseen
<1> QED
  BY <1>1, <1>2, <1>3, <1>4 DEF Sending

(* An answer that confirms is the call's own, so it was handled; or its    *)
(* number has come again.                                                  *)
LEMMA ConfirmsOnce ==
  ASSUME NumberInv, HandledOnce, ReceiveConfirmation
  PROVE  CallsStep
<1> DEFINE a == Head(inbox)
<1>1. inbox \in Seq(Answer) /\ handled \in Nat
  BY DEF NumberInv, TypeOK
<1>2. /\ phase = "waiting" /\ inbox # <<>> /\ inbox' = Tail(inbox)
      /\ UNCHANGED <<setting, requests, flight, handled>>
      /\ accepted' = a.age /\ phase' = "idle" /\ rc' \in {"ok", "exception"}
  BY DEF ReceiveConfirmation, Take, Return
<1>3. accepted' \in Nat /\ (accepted' = 0 \/ accepted' >= Numbers)
  <2>1. TypedStep
    BY ReceivingStep DEF Receiving
  <2>2. a \in Answer
    BY <1>1, <1>2
  <2>3. a.age \in Nat
    BY <2>2 DEF Answer
  <2> QED
    BY <1>2, <2>1, <2>3 DEF TypedStep
<1>4. HandledOnce'
  <2>1. NoneOfThisCall(inbox) => NoneOfThisCall(inbox')
    BY <1>1, <1>2, TailNoMore DEF NoMore
  <2> QED
    BY <1>2, <2>1, OnceKept, FewerNoMore
<1>5. Numbers' = Numbers
  BY <1>2 DEF Numbers, setting
<1>6. CASE accepted' = 0
  <2>1. handled = 1
    <3>1. ~NoneOfThisCall(inbox)
      <4>1. 1 \in DOMAIN inbox /\ a = inbox[1]
        BY <1>1, <1>2
      <4> QED
        BY <1>2, <1>6, <4>1 DEF NoneOfThisCall
    <3> QED
      BY <1>1, <3>1 DEF HandledOnce
  <2>2. Outcome' = "confirmed"
    BY <1>2, <1>5, <1>6, NumbersPositive DEF Outcome
  <2>3. Contract!Confirm
    BY <1>2, <2>1, <2>2, AbandonedAre DEF Contract!Confirm
  <2> QED
    BY <1>4, <2>3 DEF CallsStep, Contract!Next
<1>7. CASE accepted' >= Numbers
  <2>1. Outcome' = "failed"
    BY <1>2, <1>3, <1>5, <1>7, NumbersPositive DEF Outcome
  <2>2. Contract!Fail
    BY <1>2, <2>1, AbandonedAre DEF Contract!Fail
  <2> QED
    BY <1>4, <2>2 DEF CallsStep, Contract!Next
<1> QED
  BY <1>3, <1>6, <1>7

(* Receiving, and giving it up. *)
LEMMA ReceivingOnce ==
  ASSUME NumberInv, HandledOnce, Receiving
  PROVE  CallsStep
<1>1. CASE ReceiveConfirmation
  BY <1>1, ConfirmsOnce
<1>2. inbox \in Seq(Answer)
  BY DEF NumberInv, TypeOK
<1>3. CASE ReceiveBadException \/ ReceiveMismatch \/ ReceiveDamaged
  <2>1. /\ phase = "waiting" /\ inbox # <<>> /\ inbox' \in {Tail(inbox), <<>>}
        /\ phase' \in {"sleeping", "idle"} /\ rc' # "none"
        /\ UNCHANGED <<serial, requests, flight, handled, accepted>>
    BY <1>3 DEF ReceiveBadException, ReceiveMismatch, ReceiveDamaged, Take, Return,
                setting, history
  <2>2. NoneOfThisCall(inbox) => NoneOfThisCall(inbox')
    BY <1>2, <2>1, TailNoMore, FewerNoMore DEF NoMore
  <2>3. HandledOnce'
    BY <2>1, <2>2, OnceKept, FewerNoMore
  <2> QED
    BY <2>1, <2>3, GoesOn, Fails
<1>4. CASE Timeout \/ Flush \/ LoseConnection
  <2>1. /\ phase \in {"waiting", "sleeping"} /\ phase' \in {"sleeping", "idle"}
        /\ inbox' \in {inbox, <<>>}
        /\ UNCHANGED <<serial, requests, flight, handled, accepted>>
    BY <1>4 DEF Timeout, Flush, LoseConnection, Return, setting, queues, history
  <2>2. rc' # "none"
    BY <1>4 DEF Timeout, Flush, LoseConnection, Return, HandledOnce
  <2>3. HandledOnce'
    BY <2>1, <2>2, OnceKept, FewerNoMore
  <2> QED
    BY <2>1, <2>2, <2>3, GoesOn, Fails
<1>5. CASE LoseAndReconnect
  <2>1. /\ phase = "waiting" /\ (Connect \/ FailToConnect)
        /\ phase' = "idle" /\ rc' # "none"
        /\ UNCHANGED <<serial, handled, accepted>>
    BY <1>5 DEF LoseAndReconnect, Return, setting, history
  <2>2. HandledOnce'
    BY <2>1, OnceKept, ConnectNoMore
  <2> QED
    BY <2>1, <2>2, ConnectNoMore, Fails
<1> QED
  BY <1>1, <1>3, <1>4, <1>5 DEF Receiving

(* The server handles a request, of this call or of another. *)
LEMMA HandleOnce ==
  ASSUME NumberInv, HandledOnce, NEW exception \in BOOLEAN, Handle(exception)
  PROVE  CallsStep
<1> DEFINE r == Head(requests)
           a == [tid |-> r.tid, request |-> r.request, exception |-> exception, age |-> r.age]
<1>1. requests \in Seq(Message) /\ flight \in Seq(Answer) /\ handled \in Nat
  BY DEF NumberInv, TypeOK
<1>2. /\ requests # <<>> /\ requests' = Tail(requests)
      /\ flight' \in {flight, Append(flight, a)}
      /\ handled' = IF r.age = 0 THEN handled + 1 ELSE handled
      /\ UNCHANGED <<setting, phase, rc, inbox, accepted>>
  BY DEF Handle, client
<1>3. r \in Message /\ r.age \in Nat
  <2>1. r \in Message
    BY <1>1, <1>2
  <2> QED
    BY <2>1 DEF Message
<1>4. a \in Answer /\ a.age = r.age
  BY <1>3 DEF Message, Answer
<1> HIDE DEF a
<1>5. Outcome' = Outcome /\ (phase # "idle")' = (phase # "idle")
  BY <1>2 DEF Outcome, Numbers, setting
<1>6. CASE r.age = 0
  <2>1. handled = 0 /\ phase # "sending" /\ NoneOfThisCall(requests')
    BY <1>1, <1>2, <1>6, TailNoMore DEF HandledOnce
  <2>2. AtMostOne(requests')
    BY <1>1, <1>2, TailNoMore DEF NoMore, HandledOnce
  <2>3. HandledOnce'
    BY <1>2, <1>6, <2>1, <2>2 DEF HandledOnce, AtMostOne, NoneOfThisCall
  <2>4. Cardinality(OfOthers(requests')) = Cardinality(OfOthers(requests))
    BY <1>1, <1>2, <1>6, OthersOfTail
  <2>5. Contract!Handle
    BY <1>2, <1>5, <1>6, <2>1, <2>4, AbandonedAre DEF Contract!Handle
  <2> QED
    BY <2>3, <2>5 DEF CallsStep, Contract!Next
<1>7. CASE r.age > 0
  <2>1. NoneOfThisCall(flight) => NoneOfThisCall(flight')
    BY <1>1, <1>2, <1>4, <1>7, AppendNoMore
  <2>2. HandledOnce'
    <3>1. handled' = handled
      BY <1>2, <1>7
    <3> QED
      BY <1>1, <1>2, <2>1, <3>1, OnceKept, TailNoMore DEF HandledOnce
  <2>3. /\ Cardinality(OfOthers(requests')) = Cardinality(OfOthers(requests)) - 1
        /\ Cardinality(OfOthers(requests')) \in Nat /\ Cardinality(OfOthers(requests)) \in Nat
    BY <1>1, <1>2, <1>7, OthersOfTail
  <2>4. Contract!HandleLate
    BY <1>2, <1>5, <1>7, <2>3, AbandonedAre DEF Contract!HandleLate
  <2> QED
    BY <2>2, <2>4 DEF CallsStep, Contract!Next
<1> QED
  BY <1>3, <1>6, <1>7

(* Messages move, are lost, or are cut off. *)
LEMMA LinkOnce ==
  ASSUME NumberInv, HandledOnce, Deliver \/ LoseRequest \/ LoseAnswer \/ Break
  PROVE  CallsStep
<1>1. /\ requests \in Seq(Message) /\ flight \in Seq(Answer) /\ inbox \in Seq(Answer)
      /\ handled \in Nat
  BY DEF NumberInv, TypeOK
<1>2. /\ UNCHANGED <<setting, client, handled, accepted>>
      /\ UNCHANGED <<serial, phase, rc>>
  BY DEF Deliver, LoseRequest, LoseAnswer, Break, history, setting, client
<1>3. CASE Deliver
  <2>1. /\ flight # <<>> /\ flight' = Tail(flight) /\ inbox' = Append(inbox, Head(flight))
        /\ requests' = requests
    BY <1>3 DEF Deliver
  <2>2. Head(flight) \in Answer
    BY <1>1, <2>1
  <2>3. NoneOfThisCall(flight) /\ NoneOfThisCall(inbox)
          => NoneOfThisCall(flight') /\ NoneOfThisCall(inbox')
    BY <1>1, <2>1, <2>2, TailNoMore, AppendNoMore DEF NoMore
  <2>4. HandledOnce'
    BY <1>2, <2>1, <2>3, OnceKept, FewerNoMore DEF HandledOnce
  <2> QED
    BY <1>2, <2>1, <2>4, Unseen
<1>4. CASE LoseRequest
  <2>1. requests # <<>> /\ requests' = Tail(requests) /\ UNCHANGED <<flight, inbox>>
    BY <1>4 DEF LoseRequest
  <2>2. HandledOnce'
    BY <1>1, <1>2, <2>1, OnceKept, TailNoMore DEF HandledOnce
  <2>3. Head(requests).age \in Nat
    <3>1. Head(requests) \in Message
      BY <1>1, <2>1
    <3> QED
      BY <3>1 DEF Message
  <2>4. CASE Head(requests).age = 0
    <3>1. Cardinality(OfOthers(requests')) = Cardinality(OfOthers(requests))
      BY <1>1, <2>1, <2>4, OthersOfTail
    <3> QED
      BY <1>2, <2>2, <3>1, Unseen
  <2>5. CASE Head(requests).age > 0
    <3>1. /\ Cardinality(OfOthers(requests')) = Cardinality(OfOthers(requests)) - 1
          /\ Cardinality(OfOthers(requests')) \in Nat /\ Cardinality(OfOthers(requests)) \in Nat
      BY <1>1, <2>1, <2>5, OthersOfTail
    <3>2. Outcome' = Outcome /\ (phase # "idle")' = (phase # "idle")
      BY <1>2 DEF Outcome, Numbers
    <3>3. Contract!HandleLate
      BY <1>2, <3>1, <3>2, AbandonedAre DEF Contract!HandleLate
    <3> QED
      BY <2>2, <3>3 DEF CallsStep, Contract!Next
  <2> QED
    BY <2>3, <2>4, <2>5
<1>5. CASE LoseAnswer
  <2>1. flight # <<>> /\ flight' = Tail(flight) /\ UNCHANGED <<requests, inbox>>
    BY <1>5 DEF LoseAnswer
  <2>2. HandledOnce'
    BY <1>1, <1>2, <2>1, OnceKept, TailNoMore, FewerNoMore DEF NoMore, HandledOnce
  <2> QED
    BY <1>2, <2>1, <2>2, Unseen
<1>6. CASE Break
  <2>1. requests' = Orphaned(requests) /\ flight' = <<>> /\ inbox' = inbox
    BY <1>6 DEF Break
  <2>2. HandledOnce'
    BY <1>1, <1>2, <2>1, OnceKept, FewerNoMore DEF HandledOnce
  <2> QED
    BY <1>1, <1>2, <2>1, <2>2, OthersOfOrphaned, Unseen
<1> QED
  BY <1>3, <1>4, <1>5, <1>6

(* The application connects again or flushes; or nothing happens. *)
LEMMA ApplicationOnce ==
  ASSUME NumberInv, HandledOnce, ApplicationReconnects \/ ApplicationFlushes \/ UNCHANGED vars
  PROVE  CallsStep
<1>1. CASE ApplicationReconnects
  <2>1. Connect /\ phase = "idle" /\ UNCHANGED <<serial, phase, rc, handled, accepted>>
    BY <1>1 DEF ApplicationReconnects, setting, client, history
  <2>2. HandledOnce'
    BY <2>1, OnceKept, ConnectNoMore
  <2> QED
    BY <2>1, <2>2, ConnectNoMore, Unseen
<1>2. CASE ApplicationFlushes
  <2>1. /\ phase = "idle" /\ inbox' = <<>>
        /\ UNCHANGED <<serial, phase, rc, requests, flight, handled, accepted>>
    BY <1>2 DEF ApplicationFlushes, setting, client, history
  <2>2. HandledOnce'
    BY <2>1, OnceKept, FewerNoMore
  <2> QED
    BY <2>1, <2>2, Unseen
<1>3. CASE UNCHANGED vars
  <2>1. UNCHANGED <<serial, phase, rc, requests, flight, inbox, handled, accepted>>
    BY <1>3 DEF vars, setting, client, queues, history
  <2>2. HandledOnce'
    BY <2>1, OnceKept, FewerNoMore DEF HandledOnce
  <2> QED
    BY <2>1, <2>2, Unseen
<1> QED
  BY <1>1, <1>2, <1>3

(* All together. *)
LEMMA EveryStepOnce == IInv /\ [Next]_vars => CallsStep
<1> SUFFICES ASSUME NumberInv, HandledOnce, [Next]_vars PROVE CallsStep
  BY DEF IInv
<1> QED
  BY CallBegins, SendingOnce, ReceivingOnce, HandleOnce, LinkOnce, ApplicationOnce
  DEF Next, Environment

(***************************************************************************)
(* The theorems.                                                           *)
(***************************************************************************)

(* The inductive invariant of a client and its server. *)
THEOREM Invariance == Spec => []IInv
<1>1. Init => IInv
  <2> SUFFICES ASSUME Init PROVE IInv
    OBVIOUS
  <2>1. OneAtATime /\ OwnUnderLink
    BY DEF Init, OneAtATime, NoneLive, OwnUnderLink
  <2>2. HandledOnce
    BY DEF Init, HandledOnce, AtMostOne, NoneOfThisCall
  <2> QED
    BY <2>1, <2>2, InitNumbers DEF IInv
<1>2. IInv /\ [Next]_vars => IInv'
  <2> SUFFICES ASSUME IInv, [Next]_vars PROVE IInv'
    OBVIOUS
  <2>1. NumberInv'
    BY CallStep, SendingStep, ReceivingStep, ReconnectStep, EnvironmentStep, StutterStep,
       TypedStepInvariant
    DEF Next, IInv
  <2> QED
    BY <2>1, AloneInvariant, EveryStepOnce DEF IInv, CallsStep
<1> QED
  BY <1>1, <1>2, PTL DEF Spec

(* Nothing the client and the server exchange leaves its type. *)
THEOREM TypeCorrect == Spec => []TypeOK
<1>1. IInv => TypeOK
  BY DEF IInv, NumberInv
<1> QED
  BY <1>1, Invariance, PTL

(* An answer is taken by its own call only, or Numbers calls later         *)
(* (_modbus_tcp_pre_check_confirmation, with 65536 identifiers).           *)
THEOREM TakesOwnAnswer == Spec => []OwnUnlessWrapped
<1>1. IInv => OwnUnlessWrapped
  BY DEF IInv, NumberInv
<1> QED
  BY <1>1, Invariance, PTL

(* With LINK and a sleep that suffices, no call takes an answer of         *)
(* another, on a line without identifiers too: the sleep and the flush of  *)
(* _modbus_receive_msg leave nothing behind.                               *)
THEOREM TakesOwnUnderLink == Spec => []OwnUnderLink
<1>1. IInv => OwnUnderLink
  BY DEF IInv
<1> QED
  BY <1>1, Invariance, PTL
(* A confirmed call was handled exactly once, before it returned, and a    *)
(* failed one at most once, whatever the recovery of send_msg and          *)
(* _modbus_receive_msg repeats: every step of a client, its link and its   *)
(* server is a step of Calls, or one of which Calls knows nothing.         *)
THEOREM HandlesCallsOnce == Spec => ImplementsCalls
<1>1. Init => Contract!Init
  <2> SUFFICES ASSUME Init PROVE Contract!Init
    OBVIOUS
  <2>1. Abandoned = {}
    BY DEF Init, Abandoned
  <2>2. Cardinality(Abandoned) = 0
    BY <2>1, FS_EmptySet
  <2> QED
    BY <2>2 DEF Init, Contract!Init, Outcome
<1>2. IInv /\ [Next]_vars => [Contract!Next]_(Contract!vars)
  BY EveryStepOnce DEF CallsStep
<1> QED
  BY <1>1, <1>2, Invariance, PTL DEF Spec, ImplementsCalls, Contract!Spec
=============================================================================
