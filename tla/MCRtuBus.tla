------------------------------ MODULE MCRtuBus -------------------------------
(***************************************************************************)
(* Slave 1 and one other slave; three messages at most are unread.         *)
(***************************************************************************)
EXTENDS RtuBus

OneOther == {2}
=============================================================================
