----------------------------- MODULE MCRtuFrame ------------------------------
(***************************************************************************)
(* Two floats of different bytes from one slave; a burst changes a first   *)
(* byte in every way, so that every entry of the tables is used, and the   *)
(* next one in four ways.                                                  *)
(***************************************************************************)
EXTENDS RtuFrame

OneSlave == {17}
TwoFloats == {[a |-> 66, b |-> 246, c |-> 233, d |-> 121], [a |-> 128, b |-> 0, c |-> 255, d |-> 1]}
SomeNoise == {0, 1, 128, 255}
=============================================================================
