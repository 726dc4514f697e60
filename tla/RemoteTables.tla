---------------------------- MODULE RemoteTables ----------------------------
(***************************************************************************)
(* What a modbus client and server promise together, as the application    *)
(* on the client's side sees it: four tables of cells, each cell at its    *)
(* modbus address, and calls that read or write a run of cells of one      *)
(* table at once, all of it or nothing.                                    *)
(***************************************************************************)
EXTENDS ModbusData

CONSTANTS
  Ops,            \* the calls the application may make
  AddressSpace,   \* addresses are counted modulo this: 16 bits in a message
  InitialTables,  \* the cells at first
  MaxRead,        \* MaxRead[t]: the most cells of table t one call reads
  MaxWrite,       \* MaxWrite[t]: the most it writes
  MaxWrWrite,     \* the most registers a write-and-read call writes
  MaxWrRead       \* and the most it reads

VARIABLES
  mem,           \* mem[t]: the cells of table t, a function of their addresses
  pending,       \* the call in progress, or NoOp
  answer         \* what the call in progress, or the last one, has returned

vars == <<mem, pending, answer>>

NoOp == [call |-> "none"]

Values(vs)  == [status |-> "ok", values |-> vs]
Exception(code) == [status |-> "exception", code |-> code]
Error(errno) == [status |-> errno]

IllegalAddress == Exception(2)

(* The nb cells from an address on, if the table has all of them. *)
Cells(t, addr, nb) == [ i \in 1..nb |-> mem[t][addr + i - 1] ]
Has(t, addr, nb) == \A i \in 0..(nb - 1) : addr + i \in DOMAIN mem[t]

Stored(t, addr, vs) ==
  [ mem EXCEPT ![t] =
      [ a \in DOMAIN @ |->
          IF a \in addr..(addr + Len(vs) - 1) THEN vs[a - addr + 1] ELSE @[a] ] ]

Address(op) == op.addr % AddressSpace

(* The calls the library refuses without asking the server. *)
Refused(op) ==
  \/ op.call = "read" /\ op.nb \notin 1..MaxRead[op.table]
  \/ op.call = "write" /\ Len(op.values) \notin 1..MaxWrite[op.table]
  \/ /\ op.call = "write_and_read"
     /\ Len(op.values) \notin 1..MaxWrWrite \/ op.nb \notin 1..MaxWrRead

Read(op) ==
  /\ op.call = "read"
  /\ IF Has(op.table, Address(op), op.nb)
     THEN answer' = Values(Cells(op.table, Address(op), op.nb))
     ELSE answer' = IllegalAddress
  /\ UNCHANGED mem

(* One cell or several: either all of them are written or none. *)
Write(op) ==
  /\ op.call \in {"write_one", "write"}
  /\ IF Has(op.table, Address(op), Len(op.values))
     THEN /\ mem' = Stored(op.table, Address(op), op.values)
          /\ answer' = Values(<<>>)
     ELSE answer' = IllegalAddress /\ UNCHANGED mem

MaskWrite(op) ==
  /\ op.call = "mask_write"
  /\ IF Has("registers", Address(op), 1)
     THEN /\ mem' = Stored("registers", Address(op),
                <<MaskWord(mem["registers"][Address(op)], op.and, op.or)>>)
          /\ answer' = Values(<<>>)
     ELSE answer' = IllegalAddress /\ UNCHANGED mem

(* The write comes before the read, and neither happens without the other. *)
WriteAndRead(op) ==
  /\ op.call = "write_and_read"
  /\ LET w == op.write_addr % AddressSpace
         stored == Stored("registers", w, op.values)
     IN  IF /\ Has("registers", w, Len(op.values))
            /\ Has("registers", Address(op), op.nb)
         THEN /\ mem' = stored
              /\ answer' = Values([ i \in 1..op.nb |->
                                      stored["registers"][Address(op) + i - 1] ])
         ELSE answer' = IllegalAddress /\ UNCHANGED mem

Invoke(op) ==
  /\ pending = NoOp /\ ~Refused(op)
  /\ pending' = op /\ answer' = Error("none")
  /\ UNCHANGED mem

Refuse(op) ==
  /\ pending = NoOp /\ Refused(op)
  /\ answer' = Error("refused")
  /\ UNCHANGED <<mem, pending>>

Execute ==
  /\ pending # NoOp /\ answer = Error("none")
  /\ Read(pending) \/ Write(pending) \/ MaskWrite(pending) \/ WriteAndRead(pending)
  /\ UNCHANGED pending

Return ==
  /\ pending # NoOp /\ answer # Error("none")
  /\ pending' = NoOp
  /\ UNCHANGED <<mem, answer>>

Init == mem = InitialTables /\ pending = NoOp /\ answer = Error("idle")

Next ==
  \/ \E op \in Ops : Invoke(op) \/ Refuse(op)
  \/ Execute \/ Return

SafeSpec == Init /\ [][Next]_vars

(* A call is carried out and returns. *)
Spec == SafeSpec /\ WF_vars(Execute) /\ WF_vars(Return)
=============================================================================
