--------------------------- MODULE MCRemoteAccess ---------------------------
(***************************************************************************)
(* Small instances of RemoteAccess.  Bytes hold two bits, so three coils   *)
(* take two bytes; one table begins at address zero, the others after it;  *)
(* addresses wrap at 8, beyond the last cell, and calls beyond it are made.*)
(***************************************************************************)
EXTENDS RemoteAccess, TLC

MCStart == [bits |-> 1, input_bits |-> 2, registers |-> 1, input_registers |-> 0]
MCNb    == [bits |-> 3, input_bits |-> 3, registers |-> 2, input_registers |-> 2]

MCMaxRead  == [bits |-> 3, input_bits |-> 3, registers |-> 2, input_registers |-> 2]
MCMaxWrite == [bits |-> 3, input_bits |-> 0, registers |-> 2, input_registers |-> 0]

MCInitialTables ==
  [bits            |-> [i \in 0..2 |-> 0],
   input_bits      |-> [i \in 0..2 |-> i % 2],
   registers       |-> [i \in 0..1 |-> <<0, 0>>],
   input_registers |-> [i \in 0..1 |-> <<i, 1 - i>>]]

Addresses == {0, 1, 3, 9}

Runs(S, ns) == UNION { [1..n -> S] : n \in ns }

ReadOps ==
  [call : {"read"}, table : Tables, addr : Addresses, nb : 0..4]

WriteOneOps ==
  [call : {"write_one"}, table : {"bits"}, addr : Addresses, values : Runs(Bit, {1})]
    \union
  [call : {"write_one"}, table : {"registers"}, addr : Addresses, values : Runs(Word, {1})]

WriteOps ==
  [call : {"write"}, table : {"bits"}, addr : Addresses, values : Runs(Bit, {0, 2, 3}) \union Runs({1}, {4})]
    \union
  [call : {"write"}, table : {"registers"}, addr : Addresses,
   values : Runs({<<0, 1>>, <<1, 0>>}, {0, 2}) \union Runs({<<1, 0>>}, {3})]

MaskOps ==
  [call : {"mask_write"}, addr : Addresses, and : {<<0, 0>>, <<0, 1>>, <<1, 1>>}, or : {<<0, 1>>, <<1, 0>>}]

WriteAndReadOps ==
  [call : {"write_and_read"}, addr : {0, 1, 2}, nb : {0, 1, 2}, write_addr : {1, 2, 10},
   values : Runs({<<0, 1>>, <<1, 0>>}, {1}) \union Runs({<<1, 1>>}, {0, 2})]

MCOps == ReadOps \union WriteOneOps \union WriteOps \union MaskOps \union WriteAndReadOps

(* Requests no function of the library builds: quantities out of range,    *)
(* byte counts that do not agree with them, coil values that are neither   *)
(* on nor off, truncated or overlong requests, unknown functions.          *)
Raw(function) == [function |-> function, slave |-> 17, length |-> "exact", address |-> 1]

MCRawRequests ==
  { Raw(f) @@ [nb |-> nb] : f \in 1..4, nb \in 0..4 }
    \union
  { [r EXCEPT !.address = a] : a \in {0, 2, 3},
      r \in { Raw(6) @@ [value |-> <<1, 1>>] }
              \union { Raw(15) @@ [nb |-> nb, count |-> 1, data |-> <<<<1, 1>>>>] : nb \in {1, 2} }
              \union { Raw(16) @@ [nb |-> 2, count |-> 4, data |-> <<1, 1, 1, 1>>] } }
    \union
  { Raw(5) @@ [value |-> v] : v \in Word }
    \union
  { [r EXCEPT !.length = l] : l \in {"short", "long"},
      r \in { Raw(f) @@ [value |-> <<1, 1>>] : f \in {5, 6} }
              \union { Raw(22) @@ [and |-> <<0, 0>>, or |-> <<1, 1>>] } }
    \union
  { Raw(15) @@ [nb |-> nb, count |-> Len(d), data |-> d] :
      nb \in 0..4, d \in Runs({<<1, 1>>}, 0..3) }
    \union
  { Raw(16) @@ [nb |-> nb, count |-> Len(d), data |-> d] :
      nb \in 0..3, d \in Runs({1}, {0, 2, 3, 4}) }
    \union
  { Raw(23) @@ [nb |-> nb, write_address |-> a, write_nb |-> n, count |-> Len(d), data |-> d] :
      nb \in 0..3, a \in 0..2, n \in 0..2, d \in Runs({1}, {2, 4}) }
    \union
  { Raw(f) : f \in {FC_READ_EXCEPTION_STATUS, FC_REPORT_SLAVE_ID, 43, 200} }

(* The library's own calls over TCP, and as broadcasts on a serial line    *)
(* that are answered; requests made by hand on a serial line, for a slave, *)
(* and broadcasts that are not answered.                                   *)
MCSettings ==
  {[backend |-> "TCP", quirks |-> {}, slave |-> 255, byHand |-> FALSE],
   [backend |-> "RTU", quirks |-> {"REPLY_TO_BROADCAST"}, slave |-> 0, byHand |-> FALSE],
   [backend |-> "RTU", quirks |-> {}, slave |-> 0, byHand |-> TRUE]}
=============================================================================
