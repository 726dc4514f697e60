---------------------------- MODULE FrameChannel ----------------------------
(***************************************************************************)
(* What a receiver of modbus messages promises when nothing is lost: the   *)
(* frames of the peer come out whole, one per call, in the order in which  *)
(* they were sent, however the transport cuts them into pieces.            *)
(***************************************************************************)
EXTENDS Naturals, Sequences

CONSTANTS Frames,     \* the frames the peer may send
          MaxFrames   \* bound: frames sent on the connection

VARIABLES sent,       \* the frames sent, in order
          delivered   \* how many of them the receiver has returned

vars == <<sent, delivered>>

Init == sent = <<>> /\ delivered = 0

Send(m) ==
  /\ Len(sent) < MaxFrames
  /\ sent' = Append(sent, m)
  /\ UNCHANGED delivered

Deliver ==
  /\ delivered < Len(sent)
  /\ delivered' = delivered + 1
  /\ UNCHANGED sent

Next == Deliver \/ \E m \in Frames : Send(m)

(* What may happen; that every frame sent is returned in the end is the    *)
(* fairness below.                                                         *)
SafeSpec == Init /\ [][Next]_vars

Spec == SafeSpec /\ WF_vars(Deliver)
=============================================================================
