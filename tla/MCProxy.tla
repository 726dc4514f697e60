------------------------------ MODULE MCProxy -------------------------------
(***************************************************************************)
(* A small instance of Proxy: two slaves, the broadcast address, and the   *)
(* address that only a TCP backend takes.                                  *)
(***************************************************************************)
EXTENDS Proxy

MCSlaves == {0, 1, 2, 255}
=============================================================================
