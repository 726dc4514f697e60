----------------------------- MODULE MCSession ------------------------------
(***************************************************************************)
(* Small instances of Session: two kinds of calls, a few transaction       *)
(* identifiers instead of 65536, and messages that stay under way for a    *)
(* few calls at most.                                                      *)
(***************************************************************************)
EXTENDS Session

Read == [function |-> FC_READ_HOLDING_REGISTERS, what |-> 1]
Write == [function |-> FC_WRITE_SINGLE_REGISTER, what |-> 1]

ReadsAndWrites == {Read, Write}
=============================================================================
