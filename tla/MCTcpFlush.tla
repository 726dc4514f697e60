----------------------------- MODULE MCTcpFlush ------------------------------
(***************************************************************************)
(* Pieces of 3 bytes and a count to 10: as 260 and 65535, no multiple of   *)
(* each other; the bytes unread at one time can overflow the count.        *)
(***************************************************************************)
EXTENDS TcpFlush
=============================================================================
