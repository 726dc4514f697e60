------------------------------- MODULE Context -------------------------------
(***************************************************************************)
(* The memory of a context and of a register mapping: modbus_new_tcp,      *)
(* modbus_new_tcp_pi, modbus_new_rtu, modbus_mapping_new_start_address,    *)
(* modbus_free and modbus_mapping_free.  A structure is allocated block    *)
(* after block, and any of them may fail: then those before it are freed,  *)
(* once, and none through a pointer that was not written yet.              *)
(***************************************************************************)
EXTENDS Sequences, SequencesExt

VARIABLES
  heap,     \* the blocks allocated
  pointer,  \* the pointer to each block: "garbage", "NULL" or "set"
  backend,  \* ctx->backend: "TCP", "TCP_PI" or "RTU"
  call,     \* the call in progress: "idle", "new" and "mapping_new" here
  todo,     \* the blocks that call has yet to allocate
  context,  \* the application has a context
  mapping,  \* the application has a mapping
  misfreed  \* history: something was freed that was not allocated

memory == <<heap, pointer, backend, todo, context, mapping, misfreed>>

Tables == <<"tab_bits", "tab_input_bits", "tab_registers", "tab_input_registers">>
MappingBlocks == <<"mb_mapping">> \o Tables

(* The blocks of a context, in the order of their allocation. *)
ContextBlocks(b) ==
  CASE b = "TCP"    -> <<"ctx", "backend_data">>
    [] b = "TCP_PI" -> <<"ctx", "backend_data", "node", "service">>
    [] b = "RTU"    -> <<"ctx", "backend_data", "device">>

Blocks == ToSet(MappingBlocks) \union {"ctx", "backend_data", "node", "service", "device"}

(* free, through the pointers p to the blocks of S; NULL is passed over.   *)
(* What is freed holds no pointers any more.                               *)
Free(S, p) ==
  /\ heap' = heap \ {b \in S : p[b] = "set"}
  /\ misfreed' = (misfreed \/ \E b \in S : p[b] = "garbage" \/ (p[b] = "set" /\ b \notin heap))
  /\ pointer' = [b \in Blocks |-> IF b \in S THEN "garbage" ELSE p[b]]

(* Seeded fault: node and service are not cleared. *)
Cleared_None(b) == {}

(* The pointers of a structure that are cleared as soon as it is there. *)
Cleared(b) == IF b = "backend_data" /\ backend = "TCP_PI" THEN {"node", "service"} ELSE {}

Written(b, value) ==
  [p \in Blocks |-> IF p = b THEN value ELSE IF p \in Cleared(b) THEN "NULL" ELSE pointer[p]]

(* Seeded fault: the strings of the backend are forgotten. *)
FreedWithContext_NoStrings(p) ==
  IF p["backend_data"] = "set" THEN {"ctx", "backend_data"} ELSE {"ctx"}

(* modbus_free *)
FreedWithContext(p) ==
  IF p["backend_data"] = "set" THEN ToSet(ContextBlocks(backend)) ELSE {"ctx"}

(* What is freed when a block of a mapping fails. *)
FreedBefore ==
  [mb_mapping          |-> {},
   tab_bits            |-> {"mb_mapping"},
   tab_input_bits      |-> {"tab_bits", "mb_mapping"},
   tab_registers       |-> {"tab_input_bits", "tab_bits", "mb_mapping"},
   tab_input_registers |-> {"tab_registers", "tab_input_bits", "tab_bits", "mb_mapping"}]

Begin(what, blocks) ==
  /\ call = "idle"
  /\ call' = what /\ todo' = blocks

(* modbus_new_tcp, modbus_new_tcp_pi, modbus_new_rtu. *)
New(b) ==
  /\ ~context
  /\ Begin("new", ContextBlocks(b))
  /\ backend' = b
  /\ UNCHANGED <<heap, pointer, context, mapping, misfreed>>

(* modbus_mapping_new_start_address *)
MappingNew ==
  /\ ~mapping
  /\ Begin("mapping_new", MappingBlocks)
  /\ UNCHANGED <<heap, pointer, backend, context, mapping, misfreed>>

(* malloc or strdup *)
Allocate ==
  /\ todo # <<>>
  /\ heap' = heap \union {Head(todo)} /\ pointer' = Written(Head(todo), "set")
  /\ todo' = Tail(todo)
  /\ UNCHANGED <<backend, call, context, mapping, misfreed>>

(* A table of no elements. *)
NoTable ==
  /\ call = "mapping_new" /\ todo # <<>> /\ Head(todo) # "mb_mapping"
  /\ pointer' = Written(Head(todo), "NULL")
  /\ todo' = Tail(todo)
  /\ UNCHANGED <<heap, backend, call, context, mapping, misfreed>>

(* The block is not allocated, and the call returns NULL. *)
OutOfMemory ==
  /\ todo # <<>>
  /\ LET p == Written(Head(todo), "NULL")
     IN  Free(CASE call = "mapping_new" -> FreedBefore[Head(todo)]
                [] Head(todo) = "ctx"   -> {}
                [] OTHER                -> FreedWithContext(p), p)
  /\ call' = "idle" /\ todo' = <<>>
  /\ UNCHANGED <<backend, context, mapping>>

(* The address is empty or too long, or the parity is none. *)
Reject ==
  /\ call = "new" /\ todo = <<>> /\ backend \in {"TCP", "RTU"}
  /\ Free(FreedWithContext(pointer), pointer)
  /\ call' = "idle"
  /\ UNCHANGED <<backend, todo, context, mapping>>

Return ==
  /\ call \in {"new", "mapping_new"} /\ todo = <<>>
  /\ call' = "idle"
  /\ context' = (context \/ call = "new") /\ mapping' = (mapping \/ call = "mapping_new")
  /\ UNCHANGED <<heap, pointer, backend, todo, misfreed>>

(* modbus_free *)
FreeContext ==
  /\ call = "idle" /\ context
  /\ Free(FreedWithContext(pointer), pointer)
  /\ context' = FALSE
  /\ UNCHANGED <<backend, call, todo, mapping>>

(* modbus_mapping_free *)
MappingFree ==
  /\ call = "idle" /\ mapping
  /\ Free(ToSet(MappingBlocks), pointer)
  /\ mapping' = FALSE
  /\ UNCHANGED <<backend, call, todo, context>>

MemoryInit ==
  /\ heap = {} /\ pointer = [p \in Blocks |-> "garbage"]
  /\ backend = "TCP" /\ call = "idle" /\ todo = <<>>
  /\ context = FALSE /\ mapping = FALSE /\ misfreed = FALSE

(***************************************************************************)
(* Properties.                                                             *)
(***************************************************************************)

(* Between calls nothing is allocated but what the application holds, and  *)
(* all of that is: a modbus_new_* or modbus_mapping_new that fails leaves  *)
(* nothing behind, whichever block it fails at, and the free functions     *)
(* free every block.                                                       *)
NoGarbage ==
  call = "idle" =>
    heap = (IF context THEN ToSet(ContextBlocks(backend)) ELSE {})
           \union (IF mapping THEN {b \in ToSet(MappingBlocks) : pointer[b] = "set"} ELSE {})

(* Nothing is freed twice, nor through a pointer that was never written    *)
(* (modbus_free of a context that modbus_new_* has not finished).          *)
FreesWhatItHas == ~misfreed
=============================================================================
