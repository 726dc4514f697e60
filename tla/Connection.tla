----------------------------- MODULE Connection ------------------------------
(***************************************************************************)
(* The descriptors of a context: modbus_connect and modbus_close of the    *)
(* three backends, modbus_tcp_listen and modbus_tcp_accept with their _pi_ *)
(* variants, modbus_set_socket, and the close and connect of LINK          *)
(* recovery.  The system hands out the lowest free descriptor, so that one *)
(* closed twice, or kept after it was closed, is soon another's.           *)
(***************************************************************************)
EXTENDS Context, Integers

CONSTANTS
  FD_SETSIZE,   \* what select can take; descriptors may be as large
  MaxAddresses  \* bound: what getaddrinfo returns

ASSUME DescriptorAssumption == FD_SETSIZE \in Nat \ {0} /\ MaxAddresses \in Nat \ {0}

Descriptors == 0..FD_SETSIZE

VARIABLES
  s,        \* ctx->s
  new_s,    \* the local variables s and new_s of connect and listen
  tries,    \* the addresses left to try
  opened,   \* what each descriptor is: "closed", "socket", "listener", "line"
  held,     \* the descriptors the application knows of
  line,     \* the settings of the serial line: "found", "ours", or "left" by a
            \* close that could not restore them
  old_tios, \* ctx_rtu->old_tios
  careless  \* history: the application dropped a descriptor, see below

descriptors == <<s, new_s, tries, opened, held, line, old_tios, careless>>
vars == <<memory, call, descriptors>>

Close(d) == [opened EXCEPT ![d] = "closed"]

(* socket, accept and open. *)
Obtain(d, what) ==
  /\ opened[d] = "closed" /\ \A e \in 0..(d - 1) : opened[e] # "closed"
  /\ opened' = [opened EXCEPT ![d] = what]

Idle == call = "idle" /\ context

(* What ctx->s is. *)
Kind == IF backend = "RTU" THEN "line" ELSE "socket"

(* The application knows of ctx->s, or there is none: it may be replaced.  *)
Replaceable == s \in held \union {-1}

(***************************************************************************)
(* Connecting and listening: TCP and TCP_PI.                               *)
(***************************************************************************)

(* _modbus_tcp_connect, _modbus_tcp_pi_connect, and their listens.         *)
Start(what) ==
  /\ Idle /\ backend # "RTU"
  /\ call' = what
  /\ tries' \in IF backend = "TCP" THEN {1} ELSE 1..MaxAddresses
  /\ UNCHANGED <<memory, s, new_s, opened, held, line, old_tios, careless>>

(* Seeded fault: one address too many. *)
GiveUp_OneMore ==
  /\ tries' = tries - 1
  /\ call' = IF tries = 0 THEN "idle" ELSE call
  /\ new_s' = -1
  /\ UNCHANGED <<memory, s, held, line, old_tios, careless>>

(* The next address, if there is one; or -1 is returned. *)
GiveUp ==
  /\ tries' = tries - 1
  /\ call' = IF tries = 1 THEN "idle" ELSE call
  /\ new_s' = -1
  /\ UNCHANGED <<memory, s, held, line, old_tios, careless>>

Socket ==
  /\ call \in {"connect", "listen"} /\ new_s = -1
  /\ \/ GiveUp /\ UNCHANGED opened
     \/ /\ new_s' \in Descriptors
        /\ Obtain(new_s', IF call = "listen" THEN "listener" ELSE "socket")
        /\ UNCHANGED <<memory, call, s, tries, held, line, old_tios, careless>>

(* Seeded fault: a socket that did not connect is not closed. *)
Fail_KeepsOpen ==
  /\ call \in {"connect", "listen"} /\ new_s # -1
  /\ UNCHANGED opened /\ GiveUp

(* Its descriptor is too large, or an option, bind, listen or the          *)
(* connection fails.                                                       *)
Fail ==
  /\ call \in {"connect", "listen"} /\ new_s # -1
  /\ opened' = Close(new_s) /\ GiveUp

(* The new socket replaces the one before. *)
Connected ==
  /\ call = "connect" /\ new_s # -1 /\ new_s < FD_SETSIZE
  /\ opened' = IF s >= 0 THEN Close(s) ELSE opened
  /\ held' = held \ {s}
  /\ s' = new_s /\ new_s' = -1 /\ tries' = 0 /\ call' = "idle"
  /\ UNCHANGED <<memory, line, old_tios, careless>>

Listening ==
  /\ call = "listen" /\ new_s # -1
  /\ held' = held \union {new_s}
  /\ new_s' = -1 /\ tries' = 0 /\ call' = "idle"
  /\ UNCHANGED <<memory, s, opened, line, old_tios, careless>>

(* Seeded fault: a descriptor that is too large is closed, and stays in    *)
(* ctx->s.                                                                 *)
Accepted_TooLarge(d) ==
  IF d < FD_SETSIZE
  THEN s' = d /\ Obtain(d, "socket") /\ held' = held \union {d}
  ELSE s' = d /\ UNCHANGED <<opened, held>>

Accepted(d) ==
  IF d < FD_SETSIZE
  THEN s' = d /\ Obtain(d, "socket") /\ held' = held \union {d}
  ELSE s' = -1 /\ UNCHANGED <<opened, held>>

(* modbus_tcp_accept, modbus_tcp_pi_accept: ctx->s is overwritten, and its *)
(* value returned.                                                         *)
Accept ==
  /\ Idle /\ backend # "RTU" /\ \E d \in held : opened[d] = "listener"
  /\ \/ s' = -1 /\ UNCHANGED <<opened, held>>
     \/ \E d \in Descriptors : Accepted(d)
  /\ careless' = (careless \/ ~Replaceable)
  /\ UNCHANGED <<memory, call, new_s, tries, line, old_tios>>

(***************************************************************************)
(* Connecting: RTU.                                                        *)
(***************************************************************************)

LineOpen == \E d \in Descriptors : opened[d] = "line"

(* _modbus_rtu_connect: what was in ctx->s is overwritten. *)
Open ==
  /\ careless' = (careless \/ LineOpen)
  /\ \/ s' = -1 /\ call' = "idle" /\ UNCHANGED opened
     \/ /\ s' \in Descriptors /\ call' = "save"
        /\ Obtain(s', "line")

RtuConnect ==
  /\ Idle /\ backend = "RTU"
  /\ Open
  /\ UNCHANGED <<memory, new_s, tries, held, line, old_tios>>

SetUpFails ==
  /\ call \in {"save", "configure"}
  /\ opened' = Close(s) /\ s' = -1
  /\ call' = "idle"
  /\ UNCHANGED <<memory, new_s, tries, held, line, old_tios, careless>>

Save ==
  /\ call = "save" /\ call' = "configure"
  /\ old_tios' = line
  /\ UNCHANGED <<memory, s, new_s, tries, opened, held, line, careless>>

Configure ==
  /\ call = "configure" /\ call' = "idle"
  /\ line' = "ours"
  /\ UNCHANGED <<memory, s, new_s, tries, opened, held, old_tios, careless>>

(***************************************************************************)
(* Closing, and what the application does by itself.                       *)
(***************************************************************************)

(* Seeded fault: the settings are not restored. *)
Closing_NoRestore ==
  IF s >= 0
  THEN /\ opened' = Close(s) /\ s' = -1 /\ held' = held \ {s}
       /\ UNCHANGED line
  ELSE UNCHANGED <<s, opened, held, line>>

(* _modbus_tcp_close, _modbus_rtu_close: the settings of the line are      *)
(* restored, or that fails and the line is closed all the same.            *)
Closing ==
  IF s >= 0
  THEN /\ opened' = Close(s) /\ s' = -1 /\ held' = held \ {s}
       /\ IF backend = "RTU" THEN line' \in {old_tios, "left"} ELSE UNCHANGED line
  ELSE UNCHANGED <<s, opened, held, line>>

ModbusClose ==
  /\ Idle /\ Closing
  /\ UNCHANGED <<memory, call, new_s, tries, old_tios, careless>>

(* LINK recovery closes, and connects: over a descriptor the application   *)
(* keeps by itself, it leaves it with one that is closed.                  *)
Reconnect ==
  /\ Idle /\ Closing
  /\ careless' = (careless \/ s \in held)
  /\ call' = "reconnect"
  /\ UNCHANGED <<memory, new_s, tries, old_tios>>

ConnectAgain ==
  /\ call = "reconnect"
  /\ IF backend = "RTU"
     THEN Open /\ UNCHANGED tries
     ELSE /\ call' = "connect" /\ UNCHANGED <<s, opened, careless>>
          /\ tries' \in IF backend = "TCP" THEN {1} ELSE 1..MaxAddresses
  /\ UNCHANGED <<memory, new_s, held, line, old_tios>>

(* modbus_get_socket *)
GetSocket ==
  /\ Idle /\ s >= 0
  /\ held' = held \union {s}
  /\ UNCHANGED <<memory, call, s, new_s, tries, opened, line, old_tios, careless>>

(* modbus_set_socket *)
SetSocket ==
  /\ Idle
  /\ s' \in {-1} \union {d \in held : opened[d] = Kind}
  /\ careless' = (careless \/ ~Replaceable)
  /\ UNCHANGED <<memory, call, new_s, tries, opened, held, line, old_tios>>

(* The application accepts, or closes, by itself; a line it leaves to      *)
(* modbus_close, as it does the descriptor in ctx->s.                      *)
AppAccepts ==
  /\ Idle /\ \E d \in held : opened[d] = "listener"
  /\ \E d \in Descriptors : Obtain(d, "socket") /\ held' = held \union {d}
  /\ UNCHANGED <<memory, call, s, new_s, tries, line, old_tios, careless>>

AppCloses ==
  /\ call = "idle"
  /\ \E d \in held :
       /\ d # s /\ opened[d] # "line"
       /\ opened' = Close(d) /\ held' = held \ {d}
  /\ UNCHANGED <<memory, call, s, new_s, tries, line, old_tios, careless>>

(* modbus_free, which closes nothing. *)
ModbusFree ==
  /\ FreeContext
  /\ s' = -1
  /\ careless' = (careless \/ ~Replaceable \/ LineOpen)
  /\ UNCHANGED <<new_s, tries, opened, held, line, old_tios>>

(***************************************************************************)
(* The specification.                                                      *)
(***************************************************************************)
Init ==
  /\ MemoryInit
  /\ s = -1 /\ new_s = -1 /\ tries = 0
  /\ opened = [d \in Descriptors |-> "closed"] /\ held = {}
  /\ line = "found" /\ old_tios = "found" /\ careless = FALSE

Allocation ==
  /\ \/ \E b \in {"TCP", "TCP_PI", "RTU"} : New(b)
     \/ MappingNew \/ Allocate \/ NoTable \/ OutOfMemory \/ Reject \/ Return \/ MappingFree
  /\ UNCHANGED descriptors

Next ==
  \/ Allocation \/ ModbusFree
  \/ Start("connect") \/ Start("listen") \/ Socket \/ Fail \/ Connected \/ Listening
  \/ Accept \/ RtuConnect \/ SetUpFails \/ Save \/ Configure
  \/ ModbusClose \/ Reconnect \/ ConnectAgain
  \/ GetSocket \/ SetSocket \/ AppAccepts \/ AppCloses

Spec == Init /\ [][Next]_vars

(***************************************************************************)
(* Properties.                                                             *)
(***************************************************************************)

Settings == {"found", "ours", "left"}

(* The type invariant. *)
TypeOK ==
  /\ heap \subseteq Blocks /\ pointer \in [Blocks -> {"garbage", "NULL", "set"}]
  /\ backend \in {"TCP", "TCP_PI", "RTU"}
  /\ call \in {"idle", "new", "mapping_new", "connect", "listen", "save", "configure", "reconnect"}
  /\ todo \in Seq(Blocks)
  /\ context \in BOOLEAN /\ mapping \in BOOLEAN /\ misfreed \in BOOLEAN
  /\ s \in Descriptors \union {-1} /\ new_s \in Descriptors \union {-1}
  /\ tries \in 0..MaxAddresses
  /\ opened \in [Descriptors -> {"closed", "socket", "listener", "line"}]
  /\ held \subseteq Descriptors
  /\ line \in Settings /\ old_tios \in Settings /\ careless \in BOOLEAN

(* No descriptor is lost: between calls every one that is open is in the   *)
(* context, or the application knows of it.  Not so when the application   *)
(* accepts, sets a socket, connects a line or frees the context over a     *)
(* connection of which it does not know; connecting a socket again is no   *)
(* such fault (modbus_connect, modbus_tcp_listen, modbus_tcp_accept).      *)
NothingLost ==
  call = "idle" /\ ~careless =>
    \A d \in Descriptors : opened[d] # "closed" => d \in held \union {s}

(* The context never keeps a descriptor that is closed, whichever step of  *)
(* a connection, of an accept or of a recovery fails: it would close, read *)
(* or write another's (modbus_tcp_accept, _modbus_rtu_connect).            *)
OwnsItsSocket ==
  call = "idle" /\ ~careless /\ s >= 0 => opened[s] = Kind

(* When the serial line is closed it has the settings it was found with,   *)
(* after any number of failed connections and recoveries, unless a close   *)
(* could not restore them; never those of a connection that has ended      *)
(* otherwise (_modbus_rtu_connect, _modbus_rtu_close).                     *)
RestoresLine ==
  ~careless /\ ~LineOpen => line \in {"found", "left"}
=============================================================================
