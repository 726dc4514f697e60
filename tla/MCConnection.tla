---------------------------- MODULE MCConnection -----------------------------
(***************************************************************************)
(* Three descriptors, of which select can take two; two addresses for      *)
(* TCP_PI.  A listener, a connection and the one that replaces it, or one  *)
(* too large, fill the table.                                              *)
(***************************************************************************)
EXTENDS Connection
=============================================================================
