------------------------------ MODULE Gateway -------------------------------
(***************************************************************************)
(* What a modbus gateway promises whatever happens to the device: every    *)
(* request gets one answer, in the order they came; a device handles none  *)
(* of them twice; what a requester gets is an answer that the device gave, *)
(* to this request or to an earlier one, and gave to nobody else.          *)
(***************************************************************************)
EXTENDS Naturals, Sequences

CONSTANTS Slaves, MaxRequests

VARIABLES
  sent,      \* sent[n]: the slave that request n is for
  handled,   \* handled[n]: how often a device has handled request n
  replies    \* replies[n]: the request whose answer request n got, or Failed

vars == <<sent, handled, replies>>

Failed == 0

Init == sent = <<>> /\ handled = [n \in 1..MaxRequests |-> 0] /\ replies = <<>>

Ask(s) ==
  /\ Len(sent) < MaxRequests
  /\ sent' = Append(sent, s)
  /\ UNCHANGED <<handled, replies>>

Handle(n) ==
  /\ n \in DOMAIN sent /\ handled[n] = 0
  /\ handled' = [handled EXCEPT ![n] = 1]
  /\ UNCHANGED <<sent, replies>>

Relayed == { replies[n] : n \in DOMAIN replies }

(* The requester learns what the device answered, or that it failed. *)
Answer ==
  LET n == Len(replies) + 1
  IN  /\ n \in DOMAIN sent
      /\ \/ \E m \in 1..n \ Relayed : handled[m] = 1 /\ replies' = Append(replies, m)
         \/ replies' = Append(replies, Failed)
      /\ UNCHANGED <<sent, handled>>

Next ==
  \/ \E s \in Slaves : Ask(s)
  \/ \E n \in 1..MaxRequests : Handle(n)
  \/ Answer

SafeSpec == Init /\ [][Next]_vars

(* And no requester waits for ever. *)
Spec == SafeSpec /\ WF_vars(Answer)
=============================================================================
