------------------------------- MODULE Calls --------------------------------
(***************************************************************************)
(* What the calls of a modbus client promise about the server: a call that *)
(* is confirmed was handled by the server, once and before it returned;    *)
(* one that failed was handled once or not at all, perhaps after it        *)
(* returned.  An answer never confirms any call but the one it belongs to. *)
(***************************************************************************)
EXTENDS Naturals

VARIABLES
  open,       \* a call is in progress
  handled,    \* how often the server has handled the present, or last, call
  abandoned,  \* earlier calls, given up, that the server may still handle
  outcome     \* "none", "confirmed" or "failed"

vars == <<open, handled, abandoned, outcome>>

Init == open = FALSE /\ handled = 0 /\ abandoned = 0 /\ outcome = "none"

(* The last call may have been given up before the server handled it. *)
Begin ==
  /\ ~open /\ open' = TRUE
  /\ handled' = 0 /\ outcome' = "none"
  /\ \/ abandoned' = abandoned
     \/ handled = 0 /\ abandoned' = abandoned + 1

Handle ==
  /\ handled = 0 /\ handled' = 1
  /\ UNCHANGED <<open, abandoned, outcome>>

(* A request of an earlier call is handled late, or some are lost. *)
HandleLate ==
  /\ abandoned' \in 0..abandoned
  /\ UNCHANGED <<open, handled, outcome>>

Confirm ==
  /\ open /\ handled = 1
  /\ open' = FALSE /\ outcome' = "confirmed"
  /\ UNCHANGED <<handled, abandoned>>

Fail ==
  /\ open
  /\ open' = FALSE /\ outcome' = "failed"
  /\ UNCHANGED <<handled, abandoned>>

Next == Begin \/ Handle \/ HandleLate \/ Confirm \/ Fail

Spec == Init /\ [][Next]_vars
=============================================================================
