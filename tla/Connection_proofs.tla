-------------------------- MODULE Connection_proofs ---------------------------
(***************************************************************************)
(* For any number of descriptors and of addresses: an application that     *)
(* drops no descriptor itself never loses one to the library, never has a  *)
(* closed one in its context, and gets the serial line back as it was; and *)
(* whatever fails, no memory is lost or freed twice.                       *)
(***************************************************************************)
EXTENDS Connection, TLAPS

(***************************************************************************)
(* The inductive invariant.                                                *)
(***************************************************************************)
Typed ==
  /\ s \in Descriptors \union {-1} /\ new_s \in Descriptors \union {-1}
  /\ opened \in [Descriptors -> {"closed", "socket", "listener", "line"}]
  /\ held \subseteq Descriptors
  /\ backend \in {"TCP", "TCP_PI", "RTU"}

(* What each call in progress implies. *)
Progress ==
  /\ new_s # -1 => call \in {"connect", "listen"}
  /\ call = "connect" /\ new_s # -1 => opened[new_s] = "socket"
  /\ call = "listen" /\ new_s # -1 => opened[new_s] = "listener"
  /\ call \in {"connect", "listen"} => context /\ backend # "RTU"
  /\ call \in {"save", "configure"} => context /\ backend = "RTU" /\ s # -1
  /\ call = "reconnect" => context /\ s = -1
  /\ call = "new" => ~context
  /\ todo # <<>> => call \in {"new", "mapping_new"}
  /\ ~context => s = -1

NoneLost == \A d \in Descriptors : opened[d] # "closed" => d \in held \union {s, new_s}

Owned == s # -1 => opened[s] = Kind /\ new_s # s

(* There is one line at most, its context is there, and what is to be      *)
(* restored is what was found, or was left then.                           *)
OneLine ==
  /\ \A d \in Descriptors : opened[d] = "line" => context /\ backend = "RTU"
  /\ \A d \in Descriptors, e \in Descriptors : opened[d] = "line" /\ opened[e] = "line" => d = e
  /\ LineOpen \/ line \in {"found", "left"}
  /\ call \in {"save", "configure"} => line \in {"found", "left"}
  /\ LineOpen /\ call # "save" => old_tios \in {"found", "left"}

Careful == ~careless => NoneLost /\ Owned /\ OneLine

DInv == Typed /\ Progress /\ Careful

(***************************************************************************)
(* Descriptors and -1.                                                     *)
(***************************************************************************)
LEMMA MinusOne ==
  /\ -1 \notin Descriptors
  /\ \A d \in Descriptors \union {-1} : (d >= 0 <=> d # -1) /\ (d # -1 => d \in Descriptors)
BY DescriptorAssumption DEF Descriptors

(* DInv holds at first. *)
LEMMA DInvInit ==
  Init => DInv
<1> SUFFICES ASSUME Init PROVE DInv
  OBVIOUS
<1>1. \A d \in Descriptors : opened[d] = "closed"
  BY DEF Init
<1>2. ~LineOpen
  BY <1>1 DEF LineOpen
<1>3. Typed
  BY DEF Init, MemoryInit, Typed
<1>4. Progress
  BY DEF Init, MemoryInit, Progress
<1>5. Careful
  BY <1>1, <1>2 DEF Init, MemoryInit, Careful, NoneLost, Owned, OneLine
<1> QED
  BY <1>3, <1>4, <1>5 DEF DInv

(***************************************************************************)
(* The memory: of it, the context and its backend matter.                  *)
(***************************************************************************)

(* A step of an allocation. *)
LEMMA DInvAllocation ==
  ASSUME DInv, Allocation
  PROVE  DInv'
<1> USE DEF DInv
<1>1. UNCHANGED <<s, new_s, opened, held, line, old_tios, careless>>
  BY DEF Allocation, descriptors
<1>2. LineOpen' <=> LineOpen
  BY <1>1 DEF LineOpen
<1>3. CASE \E b \in {"TCP", "TCP_PI", "RTU"} : New(b)
  <2>1. ~context /\ ~context' /\ call = "idle" /\ call' = "new" /\ s = -1 /\ new_s = -1
        /\ backend' \in {"TCP", "TCP_PI", "RTU"}
    BY <1>3 DEF New, Begin, Progress
  <2> QED
    BY <1>1, <1>2, <2>1 DEF Typed, Progress, Careful, NoneLost, Owned, OneLine, LineOpen
<1>4. CASE MappingNew \/ Allocate \/ NoTable \/ OutOfMemory \/ Reject \/ MappingFree
  <2>1. UNCHANGED <<backend, context>>
    BY <1>4 DEF MappingNew, Allocate, NoTable, OutOfMemory, Reject, MappingFree
  <2>2. \/ call = "idle" /\ call' = "mapping_new"
        \/ call' = call /\ (todo' # <<>> => call \in {"new", "mapping_new"})
        \/ call \in {"new", "mapping_new"} /\ call' = "idle" /\ todo' = <<>>
    <3>1. CASE MappingNew
      BY <3>1 DEF MappingNew, Begin
    <3>2. CASE Allocate
      BY <3>2 DEF Allocate, Progress
    <3>3. CASE NoTable
      BY <3>3 DEF NoTable
    <3>4. CASE OutOfMemory
      BY <3>4 DEF OutOfMemory, Progress
    <3>5. CASE Reject
      BY <3>5 DEF Reject
    <3>6. CASE MappingFree
      BY <3>6 DEF MappingFree, Progress
    <3> QED
      BY <1>4, <3>1, <3>2, <3>3, <3>4, <3>5, <3>6
  <2>3. Typed'
    BY <1>1, <2>1 DEF Typed
  <2>4. Progress'
    BY <1>1, <2>1, <2>2 DEF Progress
  <2>5. Careful'
    BY <1>1, <1>2, <2>1, <2>2 DEF Careful, NoneLost, Owned, OneLine, Kind
  <2> QED
    BY <2>3, <2>4, <2>5
<1>5. CASE Return
  <2>1. /\ call \in {"new", "mapping_new"} /\ call' = "idle" /\ backend' = backend
        /\ context => context'
        /\ new_s = -1 /\ todo' = <<>>
    BY <1>5 DEF Return, Progress
  <2> QED
    BY <1>1, <1>2, <2>1 DEF Typed, Progress, Careful, NoneLost, Owned, OneLine, Kind
<1> QED
  BY <1>3, <1>4, <1>5 DEF Allocation

(***************************************************************************)
(* Sockets.                                                                *)
(***************************************************************************)

(* What GiveUp leaves when the new socket, if there was one, is closed. *)
LEMMA AfterGiveUp ==
  ASSUME DInv, call \in {"connect", "listen"}, GiveUp,
         IF new_s # -1 THEN opened' = Close(new_s) ELSE UNCHANGED opened
  PROVE  DInv'
<1> USE MinusOne DEF DInv
<1>1. UNCHANGED <<s, held, line, old_tios, careless, backend, context, todo>>
      /\ new_s' = -1 /\ call' \in {"idle", call}
  BY DEF GiveUp, memory
<1>2. opened' \in [Descriptors -> {"closed", "socket", "listener", "line"}]
      /\ \A d \in Descriptors : opened'[d] = IF d = new_s THEN "closed" ELSE opened[d]
  BY DEF Typed, Close
<1>3. \A d \in Descriptors : opened'[d] = "line" <=> opened[d] = "line"
  BY <1>2 DEF Progress
<1>4. LineOpen' <=> LineOpen
  BY <1>3 DEF LineOpen
<1>5. Typed'
  BY <1>1, <1>2 DEF Typed
<1>6. Progress'
  BY <1>1 DEF Progress
<1>7. Careful'
  <2>1. NoneLost => NoneLost'
    BY <1>1, <1>2 DEF NoneLost
  <2>2. Owned => Owned'
    BY <1>1, <1>2 DEF Owned, Kind, Typed
  <2>3. OneLine => OneLine'
    BY <1>1, <1>3, <1>4 DEF OneLine
  <2> QED
    BY <1>1, <2>1, <2>2, <2>3 DEF Careful
<1> QED
  BY <1>5, <1>6, <1>7

(* A call begins to connect or to listen. *)
LEMMA DInvStart ==
  ASSUME DInv, \/ Start("connect") \/ Start("listen")
               \/ ConnectAgain /\ backend # "RTU"
  PROVE  DInv'
<1> USE DEF DInv
<1>1. /\ UNCHANGED <<s, new_s, opened, held, line, old_tios, careless, backend, context, todo>>
      /\ call' \in {"connect", "listen"} /\ call \notin {"connect", "listen", "save", "configure"}
      /\ context /\ backend # "RTU" /\ todo = <<>>
  BY DEF Start, Idle, ConnectAgain, memory, Progress
<1>2. LineOpen' <=> LineOpen
  BY <1>1 DEF LineOpen
<1>3. Typed' /\ Progress'
  BY <1>1 DEF Typed, Progress
<1>4. Careful'
  BY <1>1, <1>2 DEF Careful, NoneLost, Owned, OneLine, Kind
<1> QED
  BY <1>3, <1>4

(* A socket is made, or not. *)
LEMMA DInvSocket ==
  ASSUME DInv, Socket
  PROVE  DInv'
<1> USE MinusOne DEF DInv
<1>1. CASE GiveUp /\ UNCHANGED opened
  BY <1>1, AfterGiveUp DEF Socket
<1>2. CASE ~(GiveUp /\ UNCHANGED opened)
  <2> DEFINE what == IF call = "listen" THEN "listener" ELSE "socket"
  <2>1. /\ new_s' \in Descriptors /\ opened[new_s'] = "closed"
        /\ opened' = [opened EXCEPT ![new_s'] = what]
        /\ call \in {"connect", "listen"} /\ new_s = -1
        /\ UNCHANGED <<backend, context, todo, call, s, held, line, old_tios, careless>>
    BY <1>2 DEF Socket, Obtain, memory
  <2>2. opened' \in [Descriptors -> {"closed", "socket", "listener", "line"}]
        /\ \A d \in Descriptors : opened'[d] = IF d = new_s' THEN what ELSE opened[d]
    BY <2>1 DEF Typed
  <2>3. \A d \in Descriptors : opened'[d] = "line" <=> opened[d] = "line"
    BY <2>1, <2>2
  <2>4. LineOpen' <=> LineOpen
    BY <2>3 DEF LineOpen
  <2>5. Typed' /\ Progress'
    BY <2>1, <2>2 DEF Typed, Progress
  <2>6. NoneLost => NoneLost'
    BY <2>1, <2>2 DEF NoneLost
  <2>7. Owned => Owned'
    BY <2>1, <2>2 DEF Owned, Kind, Typed
  <2>8. OneLine => OneLine'
    BY <2>1, <2>3, <2>4 DEF OneLine
  <2> QED
    BY <2>1, <2>5, <2>6, <2>7, <2>8 DEF Careful
<1> QED
  BY <1>1, <1>2

(* A step of a connection fails. *)
LEMMA DInvFail ==
  ASSUME DInv, Fail
  PROVE  DInv'
BY AfterGiveUp DEF Fail

(* The connection replaces the one before. *)
LEMMA DInvConnected ==
  ASSUME DInv, Connected
  PROVE  DInv'
<1> USE MinusOne DEF DInv
<1>1. /\ call = "connect" /\ call' = "idle" /\ new_s # -1
      /\ s' = new_s /\ new_s' = -1 /\ held' = held \ {s}
      /\ opened' = IF s # -1 THEN Close(s) ELSE opened
      /\ UNCHANGED <<backend, context, todo, line, old_tios, careless>>
  BY DEF Connected, memory, Typed
<1>2. opened' \in [Descriptors -> {"closed", "socket", "listener", "line"}]
      /\ \A d \in Descriptors : opened'[d] = IF d = s THEN "closed" ELSE opened[d]
  BY <1>1 DEF Typed, Close
<1>3. Typed' /\ Progress'
  BY <1>1, <1>2 DEF Typed, Progress
<1>4. NoneLost => NoneLost'
  BY <1>1, <1>2 DEF NoneLost
<1>5. Owned => Owned'
  BY <1>1, <1>2 DEF Owned, Kind, Typed, Progress
<1>6. OneLine => OneLine'
  <2> SUFFICES ASSUME OneLine PROVE OneLine'
    OBVIOUS
  <2>1. \A d \in Descriptors : opened[d] # "line"
    BY <1>1 DEF OneLine, Progress
  <2>2. \A d \in Descriptors : opened'[d] # "line"
    BY <1>2, <2>1
  <2>3. ~LineOpen /\ ~LineOpen'
    BY <2>1, <2>2 DEF LineOpen
  <2> QED
    BY <1>1, <2>2, <2>3 DEF OneLine
<1> QED
  BY <1>1, <1>3, <1>4, <1>5, <1>6 DEF Careful

(* A socket listens. *)
LEMMA DInvListening ==
  ASSUME DInv, Listening
  PROVE  DInv'
<1> USE MinusOne DEF DInv
<1>1. /\ call = "listen" /\ call' = "idle" /\ new_s # -1 /\ new_s' = -1
      /\ held' = held \union {new_s}
      /\ UNCHANGED <<backend, context, todo, s, opened, line, old_tios, careless>>
  BY DEF Listening, memory
<1>2. LineOpen' <=> LineOpen
  BY <1>1 DEF LineOpen
<1>3. Typed' /\ Progress'
  BY <1>1 DEF Typed, Progress
<1>4. Careful'
  BY <1>1, <1>2 DEF Careful, NoneLost, Owned, OneLine, Kind, Typed
<1> QED
  BY <1>3, <1>4

(* A connection is accepted, or not. *)
LEMMA DInvAccept ==
  ASSUME DInv, Accept
  PROVE  DInv'
<1> USE MinusOne DEF DInv
<1>1. /\ call = "idle" /\ context /\ backend # "RTU" /\ new_s = -1
      /\ UNCHANGED <<backend, context, todo, call, new_s, line, old_tios>>
      /\ ~careless' => ~careless /\ (s # -1 => s \in held)
  BY DEF Accept, Idle, Replaceable, memory, Progress
<1>2. CASE s' = -1 /\ UNCHANGED <<opened, held>>
  <2>1. LineOpen' <=> LineOpen
    BY <1>2 DEF LineOpen
  <2>2. Typed' /\ Progress'
    BY <1>1, <1>2 DEF Typed, Progress
  <2>3. Careful'
    BY <1>1, <1>2, <2>1 DEF Careful, NoneLost, Owned, OneLine
  <2> QED
    BY <2>2, <2>3
<1>3. CASE ~(s' = -1 /\ UNCHANGED <<opened, held>>)
  <2>1. PICK d \in Descriptors : s' = d /\ Obtain(d, "socket") /\ held' = held \union {d}
    BY <1>3 DEF Accept, Accepted
  <2>2. opened[d] = "closed" /\ opened' = [opened EXCEPT ![d] = "socket"]
    BY <2>1 DEF Obtain
  <2>3. opened' \in [Descriptors -> {"closed", "socket", "listener", "line"}]
        /\ \A e \in Descriptors : opened'[e] = IF e = d THEN "socket" ELSE opened[e]
    BY <2>2 DEF Typed
  <2>4. \A e \in Descriptors : opened'[e] = "line" <=> opened[e] = "line"
    BY <2>2, <2>3
  <2>5. LineOpen' <=> LineOpen
    BY <2>4 DEF LineOpen
  <2>6. Typed' /\ Progress'
    BY <1>1, <2>1, <2>3 DEF Typed, Progress
  <2>7. ~careless' => NoneLost'
    BY <1>1, <2>1, <2>3 DEF Careful, NoneLost
  <2>8. Owned'
    BY <1>1, <2>1, <2>3 DEF Owned, Kind
  <2>9. OneLine => OneLine'
    BY <1>1, <2>4, <2>5 DEF OneLine
  <2> QED
    BY <1>1, <2>6, <2>7, <2>8, <2>9 DEF Careful
<1> QED
  BY <1>2, <1>3

(***************************************************************************)
(* The serial line.                                                        *)
(***************************************************************************)

(* The line is opened, or not: modbus_connect, and again in LINK recovery. *)
LEMMA DInvOpen ==
  ASSUME DInv, Open, context, backend = "RTU", new_s = -1, todo = <<>>,
         UNCHANGED <<backend, context, todo, new_s, held, line, old_tios>>
  PROVE  DInv'
<1> USE MinusOne DEF DInv
<1>1. ~careless' => ~careless /\ ~LineOpen
  BY DEF Open
<1>2. ~careless' => s = -1
  BY <1>1 DEF Careful, Owned, Kind, LineOpen, Typed
<1>3. CASE s' = -1 /\ call' = "idle" /\ UNCHANGED opened
  <2>1. LineOpen' <=> LineOpen
    BY <1>3 DEF LineOpen
  <2>2. Typed' /\ Progress'
    BY <1>3 DEF Typed, Progress
  <2>3. Careful'
    BY <1>1, <1>2, <1>3, <2>1 DEF Careful, NoneLost, Owned, OneLine
  <2> QED
    BY <2>2, <2>3
<1>4. CASE s' \in Descriptors /\ call' = "save" /\ Obtain(s', "line")
  <2>1. opened[s'] = "closed" /\ opened' = [opened EXCEPT ![s'] = "line"]
    BY <1>4 DEF Obtain
  <2>2. opened' \in [Descriptors -> {"closed", "socket", "listener", "line"}]
        /\ \A e \in Descriptors : opened'[e] = IF e = s' THEN "line" ELSE opened[e]
    BY <1>4, <2>1 DEF Typed
  <2>3. Typed' /\ Progress'
    BY <1>4, <2>2 DEF Typed, Progress
  <2>4. ~careless' => NoneLost'
    BY <1>1, <1>2, <1>4, <2>2 DEF Careful, NoneLost
  <2>5. Owned'
    BY <1>4, <2>2 DEF Owned, Kind
  <2>6. ~careless' => OneLine'
    <3> SUFFICES ASSUME ~careless' PROVE OneLine'
      OBVIOUS
    <3>1. \A d \in Descriptors : opened[d] # "line"
      BY <1>1 DEF LineOpen
    <3>2. \A d \in Descriptors : opened'[d] = "line" => d = s'
      BY <2>2, <3>1
    <3>3. line \in {"found", "left"}
      BY <1>1 DEF Careful, OneLine
    <3> QED
      BY <1>4, <3>2, <3>3 DEF OneLine
  <2> QED
    BY <2>3, <2>4, <2>5, <2>6 DEF Careful
<1> QED
  BY <1>3, <1>4 DEF Open

LEMMA DInvRtuConnect ==
  ASSUME DInv, RtuConnect
  PROVE  DInv'
<1>1. context /\ backend = "RTU" /\ new_s = -1 /\ todo = <<>>
  BY DEF RtuConnect, Idle, DInv, Progress
<1>2. Open /\ UNCHANGED <<backend, context, todo, new_s, held, line, old_tios>>
  BY DEF RtuConnect, memory
<1> QED
  BY <1>1, <1>2, DInvOpen

LEMMA DInvConnectAgain ==
  ASSUME DInv, ConnectAgain
  PROVE  DInv'
<1>1. CASE backend = "RTU"
  <2>1. context /\ new_s = -1 /\ todo = <<>>
    BY DEF ConnectAgain, DInv, Progress
  <2>2. Open /\ UNCHANGED <<backend, context, todo, new_s, held, line, old_tios>>
    BY <1>1 DEF ConnectAgain, memory
  <2> QED
    BY <1>1, <2>1, <2>2, DInvOpen
<1>2. CASE backend # "RTU"
  BY <1>2, DInvStart
<1> QED
  BY <1>1, <1>2

(* What is in ctx->s is closed: modbus_close, a recovery, a set-up that    *)
(* fails.  The line is as found then, or as an earlier close left it.      *)
LEMMA AfterClose ==
  ASSUME DInv, s # -1, opened' = Close(s), s' = -1, held' \subseteq held, held \ {s} \subseteq held',
         call' \in {"idle", "reconnect"}, context, new_s = -1, todo = <<>>,
         ~careless' => ~careless,
         \/ IF backend = "RTU" THEN line' \in {old_tios, "left"} ELSE line' = line
         \/ line' = line /\ call \in {"save", "configure"},
         call # "save" \/ line' = line,
         UNCHANGED <<backend, context, todo, new_s, old_tios>>
  PROVE  DInv'
<1> USE MinusOne DEF DInv
<1>1. s \in Descriptors
  BY DEF Typed
<1>2. opened' \in [Descriptors -> {"closed", "socket", "listener", "line"}]
      /\ \A d \in Descriptors : opened'[d] = IF d = s THEN "closed" ELSE opened[d]
  BY DEF Typed, Close
<1>3. Typed' /\ Progress'
  BY <1>2 DEF Typed, Progress
<1>4. NoneLost => NoneLost'
  BY <1>2 DEF NoneLost
<1>5. Owned'
  BY DEF Owned
<1>6. OneLine /\ Owned => OneLine'
  <2> SUFFICES ASSUME OneLine, Owned PROVE OneLine'
    OBVIOUS
  <2>1. CASE backend = "RTU"
    <3>1. opened[s] = "line"
      BY <2>1 DEF Owned, Kind
    <3>2. \A d \in Descriptors : opened'[d] # "line"
      BY <1>1, <1>2, <3>1 DEF OneLine
    <3>3. LineOpen /\ ~LineOpen'
      BY <1>1, <3>1, <3>2 DEF LineOpen
    <3>4. line' \in {"found", "left"}
      BY <2>1, <3>3 DEF OneLine
    <3> QED
      BY <3>2, <3>3, <3>4 DEF OneLine
  <2>2. CASE backend # "RTU"
    <3>1. \A d \in Descriptors : opened[d] # "line" /\ opened'[d] # "line"
      BY <1>2, <2>2 DEF OneLine
    <3>2. ~LineOpen /\ ~LineOpen'
      BY <3>1 DEF LineOpen
    <3>3. line' \in {"found", "left"}
      BY <2>2, <3>2 DEF OneLine, Progress
    <3> QED
      BY <3>1, <3>2, <3>3 DEF OneLine
  <2> QED
    BY <2>1, <2>2
<1> QED
  BY <1>3, <1>4, <1>5, <1>6 DEF Careful

(* The line cannot be set up. *)
LEMMA DInvSetUpFails ==
  ASSUME DInv, SetUpFails
  PROVE  DInv'
<1>1. /\ call \in {"save", "configure"} /\ opened' = Close(s) /\ s' = -1 /\ call' = "idle"
      /\ UNCHANGED <<backend, context, todo, new_s, held, line, old_tios, careless>>
  BY DEF SetUpFails, memory
<1>2. s # -1 /\ context /\ new_s = -1 /\ todo = <<>>
  BY <1>1 DEF DInv, Progress
<1> QED
  BY <1>1, <1>2, AfterClose

(* The settings of the line are saved, and replaced. *)
LEMMA DInvSave ==
  ASSUME DInv, Save \/ Configure
  PROVE  DInv'
<1> USE MinusOne DEF DInv
<1>1. /\ UNCHANGED <<backend, context, todo, s, new_s, opened, held, careless>>
      /\ call \in {"save", "configure"} /\ call' \in {"configure", "idle"}
  BY DEF Save, Configure, memory
<1>2. LineOpen' <=> LineOpen
  BY <1>1 DEF LineOpen
<1>3. Typed' /\ Progress'
  BY <1>1 DEF Typed, Progress
<1>4. NoneLost => NoneLost'
  BY <1>1 DEF NoneLost
<1>5. Owned => Owned'
  BY <1>1 DEF Owned, Kind
<1>6. OneLine /\ Owned => OneLine'
  <2> SUFFICES ASSUME OneLine, Owned PROVE OneLine'
    OBVIOUS
  <2>1. LineOpen
    BY <1>1 DEF Owned, Kind, LineOpen, Progress, Typed
  <2>2. CASE Save
    <3>1. /\ call' = "configure" /\ line' = line
          /\ line \in {"found", "left"} /\ old_tios' \in {"found", "left"}
      BY <2>2 DEF Save, OneLine
    <3> QED
      BY <1>1, <1>2, <2>1, <3>1 DEF OneLine
  <2>3. CASE Configure
    <3>1. call' = "idle" /\ old_tios \in {"found", "left"} /\ old_tios' = old_tios
      BY <2>1, <2>3 DEF Configure, OneLine
    <3> QED
      BY <1>1, <1>2, <2>1, <3>1 DEF OneLine
  <2> QED
    BY <2>2, <2>3
<1> QED
  BY <1>1, <1>3, <1>4, <1>5, <1>6 DEF Careful

(***************************************************************************)
(* Closing, and the application.                                           *)
(***************************************************************************)

(* modbus_close, and the close of LINK recovery. *)
LEMMA DInvClosing ==
  ASSUME DInv, Idle, Closing, call' \in {"idle", "reconnect"}, ~careless' => ~careless,
         UNCHANGED <<backend, context, todo, new_s, old_tios>>
  PROVE  DInv'
<1> USE MinusOne DEF DInv
<1>1. call = "idle" /\ context /\ new_s = -1 /\ todo = <<>>
  BY DEF Idle, Progress
<1>2. CASE s # -1
  <2>1. s >= 0
    BY <1>2 DEF Typed
  <2>2. /\ opened' = Close(s) /\ s' = -1 /\ held' = held \ {s}
        /\ IF backend = "RTU" THEN line' \in {old_tios, "left"} ELSE line' = line
    BY <2>1 DEF Closing
  <2> QED
    BY <1>1, <1>2, <2>2, AfterClose
<1>3. CASE s = -1
  <2>1. UNCHANGED <<s, opened, held, line>>
    BY <1>3 DEF Closing
  <2>2. LineOpen' <=> LineOpen
    BY <2>1 DEF LineOpen
  <2>3. Typed' /\ Progress'
    BY <1>1, <1>3, <2>1 DEF Typed, Progress
  <2>4. Careful'
    BY <1>1, <1>3, <2>1, <2>2 DEF Careful, NoneLost, Owned, OneLine
  <2> QED
    BY <2>3, <2>4
<1> QED
  BY <1>2, <1>3

LEMMA DInvClose ==
  ASSUME DInv, ModbusClose \/ Reconnect
  PROVE  DInv'
<1>1. CASE ModbusClose
  <2>1. /\ Idle /\ Closing /\ call' = "idle" /\ careless' = careless
        /\ UNCHANGED <<backend, context, todo, new_s, old_tios>>
    BY <1>1 DEF ModbusClose, Idle, memory
  <2> QED
    BY <2>1, DInvClosing
<1>2. CASE Reconnect
  <2>1. /\ Idle /\ Closing /\ call' = "reconnect" /\ (~careless' => ~careless)
        /\ UNCHANGED <<backend, context, todo, new_s, old_tios>>
    BY <1>2 DEF Reconnect, memory
  <2> QED
    BY <2>1, DInvClosing
<1> QED
  BY <1>1, <1>2

(* A descriptor is given to the application, or to the context. *)
LEMMA DInvGetSet ==
  ASSUME DInv, GetSocket \/ SetSocket
  PROVE  DInv'
<1> USE MinusOne DEF DInv
<1>1. /\ call = "idle" /\ context /\ new_s = -1 /\ todo = <<>>
      /\ UNCHANGED <<backend, context, todo, call, new_s, opened, line, old_tios>>
  BY DEF GetSocket, SetSocket, Idle, memory, Progress
<1>2. LineOpen' <=> LineOpen
  BY <1>1 DEF LineOpen
<1>3. CASE GetSocket
  <2>1. s # -1 /\ held' = held \union {s} /\ UNCHANGED <<s, careless>>
    BY <1>3 DEF GetSocket, Typed
  <2>2. Typed' /\ Progress'
    BY <1>1, <2>1 DEF Typed, Progress
  <2>3. Careful'
    BY <1>1, <1>2, <2>1 DEF Careful, NoneLost, Owned, OneLine, Kind
  <2> QED
    BY <2>2, <2>3
<1>4. CASE SetSocket
  <2>1. /\ s' = -1 \/ (s' \in held /\ opened[s'] = Kind)
        /\ ~careless' => ~careless /\ (s # -1 => s \in held)
        /\ UNCHANGED held
    BY <1>4 DEF SetSocket, Replaceable
  <2>2. Typed' /\ Progress'
    BY <1>1, <2>1 DEF Typed, Progress
  <2>3. ~careless' => NoneLost'
    BY <1>1, <2>1 DEF Careful, NoneLost
  <2>4. Owned'
    BY <1>1, <2>1 DEF Owned, Kind, Typed
  <2>5. OneLine => OneLine'
    BY <1>1, <1>2 DEF OneLine
  <2> QED
    BY <2>1, <2>2, <2>3, <2>4, <2>5 DEF Careful
<1> QED
  BY <1>3, <1>4

(* The application accepts, or closes, by itself. *)
LEMMA DInvApp ==
  ASSUME DInv, AppAccepts \/ AppCloses
  PROVE  DInv'
<1> USE MinusOne DEF DInv
<1>1. call = "idle" /\ new_s = -1 /\ todo = <<>>
      /\ UNCHANGED <<backend, context, todo, call, s, new_s, line, old_tios, careless>>
  BY DEF AppAccepts, AppCloses, Idle, memory, Progress
<1>2. PICK d \in Descriptors, what \in {"socket", "closed"} :
        /\ opened' = [opened EXCEPT ![d] = what]
        /\ opened[d] # "line"
        /\ held' = IF what = "socket" THEN held \union {d} ELSE held \ {d}
        /\ what = "socket" => opened[d] = "closed"
        /\ what = "closed" => d # s
  <2>1. CASE AppAccepts
    BY <2>1 DEF AppAccepts, Obtain
  <2>2. CASE AppCloses
    BY <2>2 DEF AppCloses, Close, Typed
  <2> QED
    BY <2>1, <2>2
<1>3. opened' \in [Descriptors -> {"closed", "socket", "listener", "line"}]
      /\ \A e \in Descriptors : opened'[e] = IF e = d THEN what ELSE opened[e]
  BY <1>2 DEF Typed
<1>4. \A e \in Descriptors : opened'[e] = "line" <=> opened[e] = "line"
  BY <1>2, <1>3
<1>5. LineOpen' <=> LineOpen
  BY <1>4 DEF LineOpen
<1>6. Typed' /\ Progress'
  BY <1>1, <1>2, <1>3 DEF Typed, Progress
<1>7. NoneLost => NoneLost'
  BY <1>1, <1>2, <1>3 DEF NoneLost
<1>8. Owned => Owned'
  BY <1>1, <1>2, <1>3 DEF Owned, Kind, Typed
<1>9. OneLine => OneLine'
  BY <1>1, <1>4, <1>5 DEF OneLine
<1> QED
  BY <1>1, <1>6, <1>7, <1>8, <1>9 DEF Careful

(* modbus_free *)
LEMMA DInvFree ==
  ASSUME DInv, ModbusFree
  PROVE  DInv'
<1> USE MinusOne DEF DInv
<1>1. /\ call = "idle" /\ new_s = -1 /\ todo = <<>> /\ context' = FALSE /\ s' = -1
      /\ UNCHANGED <<backend, todo, call, new_s, opened, held, line, old_tios>>
      /\ ~careless' => ~careless /\ ~LineOpen /\ (s # -1 => s \in held)
  BY DEF ModbusFree, FreeContext, Replaceable, Progress
<1>2. LineOpen' <=> LineOpen
  BY <1>1 DEF LineOpen
<1>3. Typed' /\ Progress'
  BY <1>1 DEF Typed, Progress
<1>4. ~careless' => NoneLost'
  BY <1>1 DEF Careful, NoneLost
<1>5. ~careless' => OneLine'
  BY <1>1, <1>2 DEF Careful, OneLine, LineOpen
<1> QED
  BY <1>1, <1>3, <1>4, <1>5 DEF Careful, Owned

(***************************************************************************)
(* The memory: what each constructor has come past is allocated.           *)
(***************************************************************************)
ContextMemory == {"ctx", "backend_data", "node", "service", "device"}
MappingMemory == {"mb_mapping", "tab_bits", "tab_input_bits", "tab_registers", "tab_input_registers"}

(* What a constructor may have left to allocate. *)
RestOfContext(b) ==
  CASE b = "TCP"    -> {<<"ctx", "backend_data">>, <<"backend_data">>, <<>>}
    [] b = "TCP_PI" -> {<<"ctx", "backend_data", "node", "service">>,
                        <<"backend_data", "node", "service">>, <<"node", "service">>,
                        <<"service">>, <<>>}
    [] b = "RTU"    -> {<<"ctx", "backend_data", "device">>, <<"backend_data", "device">>,
                        <<"device">>, <<>>}

RestOfMapping ==
  {<<"mb_mapping", "tab_bits", "tab_input_bits", "tab_registers", "tab_input_registers">>,
   <<"tab_bits", "tab_input_bits", "tab_registers", "tab_input_registers">>,
   <<"tab_input_bits", "tab_registers", "tab_input_registers">>,
   <<"tab_registers", "tab_input_registers">>, <<"tab_input_registers">>, <<>>}

(* The blocks a constructor has come past, or the application holds. *)
Have(there, constructor, all) ==
  IF there THEN all ELSE IF call = constructor THEN all \ ToSet(todo) ELSE {}

HaveContext == Have(context, "new", ToSet(ContextBlocks(backend)))
HaveMapping == Have(mapping, "mapping_new", MappingMemory)

MemoryTyped ==
  /\ heap \subseteq Blocks /\ pointer \in [Blocks -> {"garbage", "NULL", "set"}]
  /\ backend \in {"TCP", "TCP_PI", "RTU"}
  /\ call \in {"idle", "new", "mapping_new", "connect", "listen", "save", "configure", "reconnect"}
  /\ context \in BOOLEAN /\ mapping \in BOOLEAN

(* Where a constructor is. *)
Constructing ==
  /\ call = "new" => ~context /\ todo \in RestOfContext(backend)
  /\ call = "mapping_new" => ~mapping /\ todo \in RestOfMapping
  /\ call \notin {"new", "mapping_new"} => todo = <<>>

(* A block of a context is allocated once it is come past; the strings of  *)
(* the backend that are not have pointers that say so.                     *)
ContextKept ==
  /\ heap \intersect ContextMemory = HaveContext
  /\ \A b \in HaveContext : pointer[b] = "set"
  /\ call = "new" /\ backend = "TCP_PI" /\ "backend_data" \in HaveContext =>
       \A b \in {"node", "service"} : b \in ToSet(todo) => pointer[b] = "NULL"

(* A block of a mapping is what its pointer says. *)
MappingKept ==
  /\ \A b \in HaveMapping : pointer[b] \in {"set", "NULL"}
  /\ heap \intersect MappingMemory = {b \in HaveMapping : pointer[b] = "set"}

MInv ==
  /\ MemoryTyped /\ Constructing /\ ContextKept /\ MappingKept
  /\ misfreed = FALSE

(* A sequence with one more element in front. *)
LEMMA Prepended ==
  ASSUME NEW X, NEW a \in X, NEW q \in Seq(X)
  PROVE  /\ <<a>> \o q \in Seq(X) /\ Len(<<a>> \o q) = Len(q) + 1
         /\ (<<a>> \o q)[1] = a
         /\ \A i \in 1..Len(q) : (<<a>> \o q)[i + 1] = q[i]
OBVIOUS

(* The blocks of a mapping, one by one. *)
LEMMA MappingBlocksListed ==
  /\ MappingBlocks = <<"mb_mapping", "tab_bits", "tab_input_bits",
                       "tab_registers", "tab_input_registers">>
  /\ ToSet(MappingBlocks) = MappingMemory
<1>1. Tables \in Seq(MappingMemory) /\ "mb_mapping" \in MappingMemory
  BY DEF Tables, MappingMemory
<1>2. Len(Tables) = 4
  BY DEF Tables
<1>3. /\ MappingBlocks \in Seq(MappingMemory) /\ Len(MappingBlocks) = Len(Tables) + 1
      /\ MappingBlocks[1] = "mb_mapping"
      /\ \A i \in 1..Len(Tables) : MappingBlocks[i + 1] = Tables[i]
  BY <1>1, Prepended DEF MappingBlocks
<1>4. /\ MappingBlocks \in Seq(MappingMemory) /\ Len(MappingBlocks) = 5
      /\ MappingBlocks[1] = "mb_mapping"
      /\ \A i \in 1..4 : MappingBlocks[i + 1] = Tables[i]
  BY <1>2, <1>3
<1>5. /\ MappingBlocks[1 + 1] = "tab_bits" /\ MappingBlocks[2 + 1] = "tab_input_bits"
      /\ MappingBlocks[3 + 1] = "tab_registers" /\ MappingBlocks[4 + 1] = "tab_input_registers"
  BY <1>4 DEF Tables
<1>6. MappingBlocks = <<"mb_mapping", "tab_bits", "tab_input_bits",
                        "tab_registers", "tab_input_registers">>
  BY <1>4, <1>5
<1> QED
  BY <1>6 DEF ToSet, MappingMemory

(* The blocks of each context. *)
LEMMA ContextBlocksListed ==
  /\ ToSet(ContextBlocks("TCP")) = {"ctx", "backend_data"}
  /\ ToSet(ContextBlocks("TCP_PI")) = {"ctx", "backend_data", "node", "service"}
  /\ ToSet(ContextBlocks("RTU")) = {"ctx", "backend_data", "device"}
BY DEF ContextBlocks, ToSet

(* Every block is of the one kind or of the other. *)
LEMMA BlocksListed ==
  /\ Blocks = ContextMemory \union MappingMemory
  /\ ContextMemory \intersect MappingMemory = {}
  /\ \A b \in {"TCP", "TCP_PI", "RTU"} : ToSet(ContextBlocks(b)) \subseteq ContextMemory
BY MappingBlocksListed, ContextBlocksListed DEF Blocks, ContextMemory, MappingMemory

(* What is left to allocate is a list of blocks. *)
LEMMA RestListed ==
  /\ \A b \in {"TCP", "TCP_PI", "RTU"} : RestOfContext(b) \subseteq Seq(Blocks)
  /\ RestOfMapping \subseteq Seq(Blocks)
<1>1. /\ {"ctx", "backend_data", "node", "service", "device"} \subseteq Blocks
      /\ MappingMemory \subseteq Blocks
  BY BlocksListed DEF ContextMemory
<1>2. RestOfContext("TCP") \subseteq Seq(Blocks)
  BY <1>1 DEF RestOfContext
<1>3. RestOfContext("TCP_PI") \subseteq Seq(Blocks)
  BY <1>1 DEF RestOfContext
<1>4. RestOfContext("RTU") \subseteq Seq(Blocks)
  BY <1>1 DEF RestOfContext
<1>5. RestOfMapping \subseteq Seq(Blocks)
  BY <1>1 DEF RestOfMapping, MappingMemory
<1> QED
  BY <1>2, <1>3, <1>4, <1>5

(* Nothing is left of an empty list. *)
LEMMA NothingToDo == ToSet(<<>>) = {}
BY DEF ToSet

(* The next block of a context, and those before and after it. *)
LEMMA ContextInOrder ==
  ASSUME NEW b \in {"TCP", "TCP_PI", "RTU"}, NEW t \in RestOfContext(b), t # <<>>
  PROVE  /\ Head(t) \in ToSet(ContextBlocks(b)) /\ Head(t) \in ToSet(t)
         /\ ToSet(t) \subseteq ToSet(ContextBlocks(b))
         /\ Tail(t) \in RestOfContext(b) /\ ToSet(Tail(t)) = ToSet(t) \ {Head(t)}
         /\ Head(t) = "ctx" => ToSet(t) = ToSet(ContextBlocks(b))
         /\ Head(t) # "ctx" => "ctx" \notin ToSet(t)
         /\ Head(t) = "backend_data" => ToSet(t) = ToSet(ContextBlocks(b)) \ {"ctx"}
         /\ Head(t) \notin {"ctx", "backend_data"} => "backend_data" \notin ToSet(t)
<1>1. CASE b = "TCP"
  <2>1. t \in {<<"ctx", "backend_data">>, <<"backend_data">>}
    BY <1>1 DEF RestOfContext
  <2>2. CASE t = <<"ctx", "backend_data">>
    BY <1>1, <2>2, ContextBlocksListed DEF RestOfContext, ToSet
  <2>3. CASE t = <<"backend_data">>
    BY <1>1, <2>3, ContextBlocksListed DEF RestOfContext, ToSet
  <2> QED
    BY <2>1, <2>2, <2>3
<1>2. CASE b = "TCP_PI"
  <2>1. t \in {<<"ctx", "backend_data", "node", "service">>,
               <<"backend_data", "node", "service">>, <<"node", "service">>, <<"service">>}
    BY <1>2 DEF RestOfContext
  <2>2. CASE t = <<"ctx", "backend_data", "node", "service">>
    BY <1>2, <2>2, ContextBlocksListed DEF RestOfContext, ToSet
  <2>3. CASE t = <<"backend_data", "node", "service">>
    BY <1>2, <2>3, ContextBlocksListed DEF RestOfContext, ToSet
  <2>4. CASE t = <<"node", "service">>
    BY <1>2, <2>4, ContextBlocksListed DEF RestOfContext, ToSet
  <2>5. CASE t = <<"service">>
    BY <1>2, <2>5, ContextBlocksListed DEF RestOfContext, ToSet
  <2> QED
    BY <2>1, <2>2, <2>3, <2>4, <2>5
<1>3. CASE b = "RTU"
  <2>1. t \in {<<"ctx", "backend_data", "device">>, <<"backend_data", "device">>, <<"device">>}
    BY <1>3 DEF RestOfContext
  <2>2. CASE t = <<"ctx", "backend_data", "device">>
    BY <1>3, <2>2, ContextBlocksListed DEF RestOfContext, ToSet
  <2>3. CASE t = <<"backend_data", "device">>
    BY <1>3, <2>3, ContextBlocksListed DEF RestOfContext, ToSet
  <2>4. CASE t = <<"device">>
    BY <1>3, <2>4, ContextBlocksListed DEF RestOfContext, ToSet
  <2> QED
    BY <2>1, <2>2, <2>3, <2>4
<1> QED
  BY <1>1, <1>2, <1>3

(* The same of a mapping: what is freed when a block fails is what is      *)
(* before it.                                                              *)
LEMMA MappingInOrder ==
  ASSUME NEW t \in RestOfMapping, t # <<>>
  PROVE  /\ Head(t) \in MappingMemory /\ Head(t) \in ToSet(t)
         /\ ToSet(t) \subseteq MappingMemory
         /\ Tail(t) \in RestOfMapping /\ ToSet(Tail(t)) = ToSet(t) \ {Head(t)}
         /\ FreedBefore[Head(t)] = MappingMemory \ ToSet(t)
<1> USE DEF RestOfMapping, MappingMemory, ToSet, FreedBefore
<1>1. CASE t = <<"mb_mapping", "tab_bits", "tab_input_bits", "tab_registers", "tab_input_registers">>
  BY <1>1
<1>2. CASE t = <<"tab_bits", "tab_input_bits", "tab_registers", "tab_input_registers">>
  BY <1>2
<1>3. CASE t = <<"tab_input_bits", "tab_registers", "tab_input_registers">>
  BY <1>3
<1>4. CASE t = <<"tab_registers", "tab_input_registers">>
  BY <1>4
<1>5. CASE t = <<"tab_input_registers">>
  BY <1>5
<1> QED
  BY <1>1, <1>2, <1>3, <1>4, <1>5

(* At first nothing is allocated. *)
LEMMA MInvInit == MemoryInit => MInv
<1> SUFFICES ASSUME MemoryInit PROVE MInv
  OBVIOUS
<1> QED
  BY DEF MemoryInit, MInv, MemoryTyped, Constructing, ContextKept, MappingKept,
         HaveContext, HaveMapping, Have

(* What a pointer is after one was written. *)
LEMMA WrittenPointers ==
  ASSUME MemoryTyped, NEW b \in Blocks, NEW value \in {"garbage", "NULL", "set"}
  PROVE  /\ Written(b, value) \in [Blocks -> {"garbage", "NULL", "set"}]
         /\ Written(b, value)[b] = value
         /\ \A p \in Blocks \ {b} :
              Written(b, value)[p] = IF p \in Cleared(b) THEN "NULL" ELSE pointer[p]
BY DEF MemoryTyped, Written

(* A constructor begins. *)
LEMMA MInvBegin ==
  ASSUME MInv, MappingNew \/ \E b \in {"TCP", "TCP_PI", "RTU"} : New(b)
  PROVE  MInv'
<1> USE DEF MInv
<1>1. ASSUME NEW b \in {"TCP", "TCP_PI", "RTU"}, New(b) PROVE MInv'
  <2>1. /\ ~context /\ call = "idle" /\ call' = "new" /\ todo' = ContextBlocks(b) /\ backend' = b
        /\ UNCHANGED <<heap, pointer, context, mapping, misfreed>>
    BY <1>1 DEF New, Begin
  <2>2. todo' \in RestOfContext(b)
    BY <2>1 DEF RestOfContext, ContextBlocks
  <2>3. MemoryTyped' /\ Constructing'
    BY <2>1, <2>2 DEF MemoryTyped, Constructing
  <2>4. HaveContext = {} /\ HaveContext' = {}
    BY <2>1 DEF HaveContext, Have
  <2>5. ContextKept'
    BY <2>1, <2>4 DEF ContextKept
  <2>6. HaveMapping' = HaveMapping
    BY <2>1 DEF HaveMapping, Have
  <2>7. MappingKept'
    BY <2>1, <2>6 DEF MappingKept
  <2> QED
    BY <2>1, <2>3, <2>5, <2>7
<1>2. ASSUME MappingNew PROVE MInv'
  <2>1. /\ ~mapping /\ call = "idle" /\ call' = "mapping_new" /\ todo' = MappingBlocks
        /\ UNCHANGED <<heap, pointer, backend, context, mapping, misfreed>>
    BY <1>2 DEF MappingNew, Begin
  <2>2. todo' \in RestOfMapping /\ ToSet(todo') = MappingMemory
    BY <2>1, MappingBlocksListed DEF RestOfMapping
  <2>3. MemoryTyped' /\ Constructing'
    BY <2>1, <2>2 DEF MemoryTyped, Constructing
  <2>4. HaveContext' = HaveContext
    BY <2>1 DEF HaveContext, Have
  <2>5. ContextKept'
    BY <2>1, <2>4 DEF ContextKept
  <2>6. HaveMapping = {} /\ HaveMapping' = {}
    BY <2>1, <2>2 DEF HaveMapping, Have
  <2>7. MappingKept'
    BY <2>1, <2>6 DEF MappingKept
  <2> QED
    BY <2>1, <2>3, <2>5, <2>7
<1> QED
  BY <1>1, <1>2

(* A block is allocated. *)
LEMMA MInvAllocate ==
  ASSUME MInv, Allocate
  PROVE  MInv'
<1> USE DEF MInv
<1> DEFINE h == Head(todo)
<1>1. /\ todo # <<>> /\ heap' = heap \union {h} /\ pointer' = Written(h, "set")
      /\ todo' = Tail(todo) /\ UNCHANGED <<backend, call, context, mapping, misfreed>>
  BY DEF Allocate
<1>2. CASE call = "new"
  <2>1. /\ ~context /\ todo \in RestOfContext(backend) /\ backend \in {"TCP", "TCP_PI", "RTU"}
    BY <1>2 DEF Constructing, MemoryTyped
  <2>2. /\ h \in ToSet(ContextBlocks(backend)) /\ h \in ToSet(todo)
        /\ ToSet(todo) \subseteq ToSet(ContextBlocks(backend))
        /\ todo' \in RestOfContext(backend) /\ ToSet(todo') = ToSet(todo) \ {h}
        /\ h \notin {"ctx", "backend_data"} => "backend_data" \notin ToSet(todo)
        /\ h \in ContextMemory /\ h \in Blocks /\ h \notin MappingMemory
    BY <1>1, <2>1, ContextInOrder, BlocksListed
  <2>3. /\ pointer' \in [Blocks -> {"garbage", "NULL", "set"}] /\ pointer'[h] = "set"
        /\ \A p \in Blocks \ {h} : pointer'[p] = IF p \in Cleared(h) THEN "NULL" ELSE pointer[p]
    BY <1>1, <2>2, WrittenPointers
  <2>4. MemoryTyped' /\ Constructing'
    BY <1>1, <1>2, <2>1, <2>2, <2>3 DEF MemoryTyped, Constructing
  <2>5. HaveContext' = HaveContext \union {h} /\ HaveContext \intersect ToSet(todo) = {}
    BY <1>1, <1>2, <2>1, <2>2 DEF HaveContext, Have
  <2>6. h = "backend_data" \/ Cleared(h) = {}
    BY DEF Cleared
  <2>7. h = "backend_data" /\ backend = "TCP_PI" => {"node", "service"} \subseteq ToSet(todo)
    <3> SUFFICES ASSUME h = "backend_data", backend = "TCP_PI"
                 PROVE  {"node", "service"} \subseteq ToSet(todo)
      OBVIOUS
    <3>1. ToSet(todo) = {"ctx", "backend_data", "node", "service"} \ {"ctx"}
      BY <1>1, <2>1, ContextInOrder, ContextBlocksListed
    <3> QED
      BY <3>1
  <2>8. \A p \in HaveContext' : pointer'[p] = "set"
    <3> SUFFICES ASSUME NEW p \in HaveContext' PROVE pointer'[p] = "set"
      OBVIOUS
    <3>1. p = h \/ (p \in HaveContext /\ p \in Blocks \ {h} /\ pointer[p] = "set")
      BY <2>1, <2>2, <2>5, BlocksListed DEF HaveContext, Have, ContextKept
    <3>2. p \in HaveContext => p \notin Cleared(h)
      BY <2>5, <2>7 DEF Cleared
    <3> QED
      BY <2>3, <3>1, <3>2
  <2>9. heap' \intersect ContextMemory = HaveContext'
    BY <1>1, <2>2, <2>5 DEF ContextKept
  <2>10. backend = "TCP_PI" /\ "backend_data" \in HaveContext' =>
           \A b \in {"node", "service"} : b \in ToSet(todo') => pointer'[b] = "NULL"
    <3> SUFFICES ASSUME backend = "TCP_PI", "backend_data" \in HaveContext',
                        NEW b \in {"node", "service"}, b \in ToSet(todo')
                 PROVE  pointer'[b] = "NULL"
      OBVIOUS
    <3>1. b \in Blocks \ {h} /\ b \in ToSet(todo)
      BY <2>2, BlocksListed DEF ContextMemory
    <3>2. pointer'[b] = IF b \in Cleared(h) THEN "NULL" ELSE pointer[b]
      BY <2>3, <3>1
    <3>3. h # "backend_data" => pointer[b] = "NULL"
      BY <1>2, <2>5, <3>1 DEF ContextKept
    <3> QED
      BY <3>2, <3>3 DEF Cleared
  <2>11. ContextKept'
    BY <1>1, <2>8, <2>9, <2>10 DEF ContextKept
  <2>12. HaveMapping' = HaveMapping /\ HaveMapping \subseteq MappingMemory
    BY <1>1, <1>2 DEF HaveMapping, Have
  <2>13. \A p \in MappingMemory : pointer'[p] = pointer[p]
    <3> SUFFICES ASSUME NEW p \in MappingMemory PROVE pointer'[p] = pointer[p]
      OBVIOUS
    <3>1. p \in Blocks \ {h} /\ p \notin Cleared(h)
      BY <2>2, BlocksListed DEF Cleared, ContextMemory
    <3> QED
      BY <2>3, <3>1
  <2>14. MappingKept'
    BY <1>1, <2>2, <2>12, <2>13 DEF MappingKept
  <2> QED
    BY <1>1, <2>4, <2>11, <2>14
<1>3. CASE call = "mapping_new"
  <2>1. ~mapping /\ todo \in RestOfMapping
    BY <1>3 DEF Constructing
  <2>2. /\ h \in MappingMemory /\ h \in ToSet(todo) /\ ToSet(todo) \subseteq MappingMemory
        /\ todo' \in RestOfMapping /\ ToSet(todo') = ToSet(todo) \ {h}
        /\ h \in Blocks /\ h \notin ContextMemory
    BY <1>1, <2>1, MappingInOrder, BlocksListed
  <2>3. /\ pointer' \in [Blocks -> {"garbage", "NULL", "set"}] /\ pointer'[h] = "set"
        /\ \A p \in Blocks \ {h} : pointer'[p] = IF p \in Cleared(h) THEN "NULL" ELSE pointer[p]
    BY <1>1, <2>2, WrittenPointers
  <2>4. \A p \in Blocks \ {h} : pointer'[p] = pointer[p]
    BY <2>2, <2>3 DEF Cleared, ContextMemory
  <2>5. MemoryTyped' /\ Constructing'
    BY <1>1, <1>3, <2>1, <2>2, <2>3 DEF MemoryTyped, Constructing
  <2>6. HaveContext' = HaveContext /\ HaveContext \subseteq ContextMemory
    BY <1>1, <1>3, BlocksListed DEF HaveContext, Have, MemoryTyped
  <2>7. ContextKept'
    BY <1>1, <1>3, <2>2, <2>4, <2>6, BlocksListed DEF ContextKept
  <2>8. HaveMapping' = HaveMapping \union {h} /\ h \notin HaveMapping
        /\ HaveMapping \subseteq MappingMemory
    BY <1>1, <1>3, <2>1, <2>2 DEF HaveMapping, Have
  <2>9. \A p \in HaveMapping : pointer'[p] = pointer[p]
    BY <2>4, <2>8, BlocksListed
  <2>10. MappingKept'
    BY <1>1, <2>2, <2>3, <2>8, <2>9 DEF MappingKept
  <2> QED
    BY <1>1, <2>5, <2>7, <2>10
<1> QED
  BY <1>1, <1>2, <1>3 DEF Constructing

(* A table of no elements has none. *)
LEMMA MInvNoTable ==
  ASSUME MInv, NoTable
  PROVE  MInv'
<1> USE DEF MInv
<1> DEFINE h == Head(todo)
<1>1. /\ call = "mapping_new" /\ todo # <<>> /\ pointer' = Written(h, "NULL")
      /\ todo' = Tail(todo) /\ UNCHANGED <<heap, backend, call, context, mapping, misfreed>>
  BY DEF NoTable
<1>2. ~mapping /\ todo \in RestOfMapping
  BY <1>1 DEF Constructing
<1>3. /\ h \in MappingMemory /\ h \in ToSet(todo) /\ ToSet(todo) \subseteq MappingMemory
      /\ todo' \in RestOfMapping /\ ToSet(todo') = ToSet(todo) \ {h}
      /\ h \in Blocks /\ h \notin ContextMemory
  BY <1>1, <1>2, MappingInOrder, BlocksListed
<1>4. /\ pointer' \in [Blocks -> {"garbage", "NULL", "set"}] /\ pointer'[h] = "NULL"
      /\ \A p \in Blocks \ {h} : pointer'[p] = IF p \in Cleared(h) THEN "NULL" ELSE pointer[p]
  BY <1>1, <1>3, WrittenPointers
<1>5. \A p \in Blocks \ {h} : pointer'[p] = pointer[p]
  BY <1>3, <1>4 DEF Cleared, ContextMemory
<1>6. MemoryTyped' /\ Constructing'
  BY <1>1, <1>2, <1>3, <1>4 DEF MemoryTyped, Constructing
<1>7. HaveContext' = HaveContext /\ HaveContext \subseteq ContextMemory
  BY <1>1, BlocksListed DEF HaveContext, Have, MemoryTyped
<1>8. ContextKept'
  BY <1>1, <1>3, <1>5, <1>7, BlocksListed DEF ContextKept
<1>9. HaveMapping' = HaveMapping \union {h} /\ h \notin HaveMapping
      /\ HaveMapping \subseteq MappingMemory
  BY <1>1, <1>2, <1>3 DEF HaveMapping, Have
<1>10. \A p \in HaveMapping : pointer'[p] = pointer[p]
  BY <1>5, <1>9, BlocksListed
<1>11. MappingKept'
  BY <1>1, <1>3, <1>4, <1>9, <1>10 DEF MappingKept
<1> QED
  BY <1>1, <1>6, <1>8, <1>11

(* What a constructor that fails frees, and modbus_free: all blocks of the *)
(* context there are, and nothing else.                                    *)
LEMMA ContextFreed ==
  ASSUME MInv, context \/ call = "new", call' = "idle", todo' = <<>>, context' = FALSE,
         UNCHANGED <<backend, mapping>>,
         NEW S \in SUBSET ToSet(ContextBlocks(backend)),
         NEW p \in [Blocks -> {"garbage", "NULL", "set"}], Free(S, p),
         HaveContext \subseteq S,
         \A b \in S : p[b] = IF b \in HaveContext THEN "set" ELSE "NULL",
         \A b \in MappingMemory : p[b] = pointer[b],
         call \in {"idle", "new"}
  PROVE  MInv'
<1> USE DEF MInv
<1>1. S \subseteq Blocks /\ S \subseteq ContextMemory /\ S \intersect MappingMemory = {}
      /\ HaveContext \subseteq heap /\ misfreed = FALSE /\ heap \subseteq Blocks
  BY BlocksListed DEF MemoryTyped, ContextKept
<1>2. \A b \in S : p[b] = "NULL" \/ (p[b] = "set" /\ b \in heap)
  BY <1>1
<1>3. /\ misfreed' = FALSE /\ heap' \subseteq Blocks
      /\ heap' = heap \ {b \in S : p[b] = "set"}
      /\ pointer' \in [Blocks -> {"garbage", "NULL", "set"}]
      /\ \A b \in Blocks : pointer'[b] = IF b \in S THEN "garbage" ELSE p[b]
  BY <1>1, <1>2 DEF Free
<1>4. MemoryTyped' /\ Constructing'
  BY <1>3 DEF MemoryTyped, Constructing
<1>5. HaveContext' = {} /\ heap' \intersect ContextMemory = {}
  BY <1>1, <1>3 DEF HaveContext, Have, ContextKept
<1>6. ContextKept'
  BY <1>5 DEF ContextKept
<1>7. HaveMapping' = HaveMapping /\ HaveMapping \subseteq MappingMemory
  BY DEF HaveMapping, Have
<1>8. \A b \in MappingMemory : pointer'[b] = pointer[b]
  BY <1>1, <1>3, BlocksListed
<1>9. MappingKept'
  BY <1>1, <1>3, <1>7, <1>8 DEF MappingKept
<1> QED
  BY <1>3, <1>4, <1>6, <1>9

(* The same of a mapping. *)
LEMMA MappingFreed ==
  ASSUME MInv, mapping \/ call = "mapping_new", call \in {"idle", "mapping_new"},
         call' = "idle", todo' = <<>>, mapping' = FALSE, UNCHANGED <<backend, context>>,
         NEW p \in [Blocks -> {"garbage", "NULL", "set"}], NEW S, Free(S, p), S = HaveMapping,
         \A b \in HaveMapping \union ContextMemory : p[b] = pointer[b]
  PROVE  MInv'
<1> USE DEF MInv
<1>1. HaveMapping \subseteq Blocks /\ HaveMapping \intersect ContextMemory = {}
      /\ misfreed = FALSE /\ heap \subseteq Blocks /\ HaveMapping \subseteq MappingMemory
  BY BlocksListed DEF MemoryTyped, HaveMapping, Have
<1>2. \A b \in HaveMapping : p[b] = "NULL" \/ (p[b] = "set" /\ b \in heap)
  BY DEF MappingKept
<1>3. /\ misfreed' = FALSE /\ heap' \subseteq Blocks
      /\ heap' = heap \ {b \in HaveMapping : p[b] = "set"}
      /\ pointer' \in [Blocks -> {"garbage", "NULL", "set"}]
      /\ \A b \in Blocks : pointer'[b] = IF b \in HaveMapping THEN "garbage" ELSE p[b]
  BY <1>1, <1>2 DEF Free
<1>4. MemoryTyped' /\ Constructing'
  BY <1>3 DEF MemoryTyped, Constructing
<1>5. HaveMapping' = {} /\ heap' \intersect MappingMemory = {}
  BY <1>1, <1>3 DEF HaveMapping, Have, MappingKept
<1>6. MappingKept'
  BY <1>5 DEF MappingKept
<1>7. HaveContext' = HaveContext /\ HaveContext \subseteq ContextMemory
  BY BlocksListed DEF HaveContext, Have, MemoryTyped
<1>8. \A b \in ContextMemory : pointer'[b] = pointer[b]
  BY <1>1, <1>3, BlocksListed
<1>9. heap' \intersect ContextMemory = heap \intersect ContextMemory
  BY <1>1, <1>3
<1>10. ContextKept'
  BY <1>7, <1>8, <1>9 DEF ContextKept
<1> QED
  BY <1>3, <1>4, <1>6, <1>10

(* A block is not allocated, and the constructor fails. *)
LEMMA MInvOutOfMemory ==
  ASSUME MInv, OutOfMemory
  PROVE  MInv'
<1> USE DEF MInv
<1> DEFINE h == Head(todo)
           p == Written(h, "NULL")
           freed == CASE call = "mapping_new" -> FreedBefore[h]
                      [] h = "ctx"            -> {}
                      [] OTHER                -> FreedWithContext(p)
<1>1. /\ todo # <<>> /\ call' = "idle" /\ todo' = <<>>
      /\ UNCHANGED <<backend, context, mapping>> /\ Free(freed, p)
  BY DEF OutOfMemory
<1>2. CASE call = "new"
  <2>1. /\ ~context /\ context = FALSE /\ todo \in RestOfContext(backend)
        /\ backend \in {"TCP", "TCP_PI", "RTU"}
    BY <1>2 DEF Constructing, MemoryTyped
  <2>2. /\ h \in ToSet(ContextBlocks(backend)) /\ h \in ToSet(todo)
        /\ ToSet(todo) \subseteq ToSet(ContextBlocks(backend))
        /\ h = "ctx" => ToSet(todo) = ToSet(ContextBlocks(backend))
        /\ h # "ctx" => "ctx" \notin ToSet(todo)
        /\ h = "backend_data" => ToSet(todo) = ToSet(ContextBlocks(backend)) \ {"ctx"}
        /\ h \notin {"ctx", "backend_data"} => "backend_data" \notin ToSet(todo)
        /\ h \in Blocks /\ h \notin MappingMemory
    BY <1>1, <2>1, ContextInOrder, BlocksListed
  <2>3. /\ p \in [Blocks -> {"garbage", "NULL", "set"}] /\ p[h] = "NULL"
        /\ \A b \in Blocks \ {h} : p[b] = IF b \in Cleared(h) THEN "NULL" ELSE pointer[b]
    BY <2>2, WrittenPointers
  <2>4. HaveContext = ToSet(ContextBlocks(backend)) \ ToSet(todo)
    BY <1>2, <2>1 DEF HaveContext, Have
  <2>5. \A b \in MappingMemory : p[b] = pointer[b]
    <3> SUFFICES ASSUME NEW b \in MappingMemory PROVE p[b] = pointer[b]
      OBVIOUS
    <3>1. b \in Blocks \ {h} /\ b \notin Cleared(h)
      BY <2>2, BlocksListed DEF Cleared, ContextMemory
    <3> QED
      BY <2>3, <3>1
  <2> HIDE DEF p
  <2>6. CASE h = "ctx"
    <3>1. Free({}, p) /\ HaveContext = {}
      BY <1>1, <1>2, <2>2, <2>4, <2>6 DEF p
    <3> QED
      BY <1>1, <1>2, <2>1, <2>3, <2>5, <3>1, ContextFreed
  <2>7. CASE h = "backend_data"
    <3>1. /\ ToSet(ContextBlocks(backend)) \ ToSet(todo) = {"ctx"}
          /\ "ctx" \in ToSet(ContextBlocks(backend))
      BY <2>1, <2>2, <2>7, ContextBlocksListed
    <3>2. HaveContext = {"ctx"} /\ Free({"ctx"}, p)
      BY <1>1, <1>2, <2>3, <2>4, <2>7, <3>1 DEF FreedWithContext, p
    <3>3. p["ctx"] = "set"
      <4>1. "ctx" \in Blocks \ {h} /\ "ctx" \notin Cleared(h) /\ pointer["ctx"] = "set"
        BY <2>7, <3>2, BlocksListed DEF ContextMemory, Cleared, ContextKept
      <4> QED
        BY <2>3, <4>1
    <3> QED
      BY <1>1, <1>2, <2>1, <2>3, <2>5, <3>1, <3>2, <3>3, ContextFreed
  <2>8. CASE h \notin {"ctx", "backend_data"}
    <3> DEFINE S == ToSet(ContextBlocks(backend))
    <3>1. "backend_data" \in HaveContext /\ "backend_data" \in Blocks
      BY <2>1, <2>2, <2>4, <2>8, ContextBlocksListed, BlocksListed DEF ContextMemory
    <3>2. \A b \in Blocks \ {h} : p[b] = pointer[b]
      BY <2>3, <2>8 DEF Cleared
    <3>3. p["backend_data"] = "set"
      BY <2>8, <3>1, <3>2 DEF ContextKept
    <3>4. Free(S, p)
      BY <1>1, <1>2, <2>8, <3>3 DEF FreedWithContext, p
    <3>5. S \subseteq Blocks
      BY <2>1, BlocksListed
    <3>6. ASSUME NEW b \in S, b \in HaveContext PROVE p[b] = "set"
      BY <2>2, <2>4, <3>2, <3>5, <3>6 DEF ContextKept
    <3>7. ASSUME NEW b \in S, b \notin HaveContext PROVE p[b] = "NULL"
      <4>1. b \in ToSet(todo)
        BY <2>4, <3>7
      <4>2. CASE b = h
        BY <2>3, <4>2
      <4>3. CASE b # h
        <5>1. backend = "TCP_PI" /\ b \in {"node", "service"}
          <6>1. b \notin {"ctx", "backend_data"} /\ h \in S
            BY <2>2, <2>8, <4>1
          <6> QED
            BY <2>1, <2>8, <4>3, <6>1, ContextBlocksListed
        <5>2. pointer[b] = "NULL"
          BY <1>2, <3>1, <4>1, <5>1 DEF ContextKept
        <5> QED
          BY <3>2, <3>5, <4>3, <5>2
      <4> QED
        BY <4>2, <4>3
    <3>8. HaveContext \subseteq S
      BY <2>4
    <3>9. \A b \in S : p[b] = IF b \in HaveContext THEN "set" ELSE "NULL"
      BY <3>6, <3>7
    <3>10. S \in SUBSET ToSet(ContextBlocks(backend)) /\ p \in [Blocks -> {"garbage", "NULL", "set"}]
      BY <2>3
    <3> HIDE DEF S
    <3> QED
      BY <1>1, <1>2, <2>1, <2>5, <3>4, <3>8, <3>9, <3>10, ContextFreed
  <2> QED
    BY <2>6, <2>7, <2>8
<1>3. CASE call = "mapping_new"
  <2>1. ~mapping /\ mapping = FALSE /\ todo \in RestOfMapping
    BY <1>3 DEF Constructing, MemoryTyped
  <2>2. /\ h \in MappingMemory /\ h \in ToSet(todo) /\ FreedBefore[h] = MappingMemory \ ToSet(todo)
        /\ h \in Blocks /\ h \notin ContextMemory
    BY <1>1, <2>1, MappingInOrder, BlocksListed
  <2>3. /\ p \in [Blocks -> {"garbage", "NULL", "set"}]
        /\ \A b \in Blocks \ {h} : p[b] = IF b \in Cleared(h) THEN "NULL" ELSE pointer[b]
    BY <2>2, WrittenPointers
  <2>4. \A b \in Blocks \ {h} : p[b] = pointer[b]
    BY <2>2, <2>3 DEF Cleared, ContextMemory
  <2>5. HaveMapping = MappingMemory \ ToSet(todo)
    BY <1>3, <2>1 DEF HaveMapping, Have
  <2> HIDE DEF p
  <2>6. freed = HaveMapping
    <3>1. h # "ctx" /\ FreedBefore[h] = HaveMapping
      BY <2>2, <2>5 DEF ContextMemory
    <3> QED
      BY <1>3, <3>1
  <2> HIDE DEF freed
  <2>7. \A b \in HaveMapping \union ContextMemory : p[b] = pointer[b]
    BY <2>2, <2>4, <2>5, BlocksListed
  <2> QED
    BY <1>1, <1>3, <2>1, <2>3, <2>6, <2>7, MappingFreed
<1> QED
  BY <1>1, <1>2, <1>3 DEF Constructing

(* What FreedWithContext frees of a context that is complete. *)
LEMMA WholeContextFreed ==
  ASSUME MInv, call \in {"idle", "new"}, context \/ call = "new", todo = <<>>,
         Free(FreedWithContext(pointer), pointer),
         call' = "idle", context' = FALSE, UNCHANGED <<backend, todo, mapping>>
  PROVE  MInv'
<1> USE DEF MInv
<1>1. HaveContext = ToSet(ContextBlocks(backend)) /\ backend \in {"TCP", "TCP_PI", "RTU"}
  BY NothingToDo DEF HaveContext, Have, MemoryTyped
<1>2. pointer["backend_data"] = "set"
  BY <1>1, ContextBlocksListed DEF ContextKept
<1>3. Free(HaveContext, pointer) /\ \A b \in HaveContext : pointer[b] = "set"
  BY <1>1, <1>2 DEF FreedWithContext, ContextKept
<1>4. pointer \in [Blocks -> {"garbage", "NULL", "set"}]
  BY DEF MemoryTyped
<1> QED
  BY <1>1, <1>3, <1>4, ContextFreed

(* A constructor refuses its arguments. *)
LEMMA MInvReject ==
  ASSUME MInv, Reject
  PROVE  MInv'
<1>1. /\ call = "new" /\ todo = <<>> /\ Free(FreedWithContext(pointer), pointer)
      /\ call' = "idle" /\ UNCHANGED <<backend, todo, context, mapping>>
  BY DEF Reject
<1>2. context' = FALSE
  BY <1>1 DEF MInv, Constructing, MemoryTyped
<1> QED
  BY <1>1, <1>2, WholeContextFreed

(* modbus_free *)
LEMMA MInvFreeContext ==
  ASSUME MInv, FreeContext
  PROVE  MInv'
<1>1. /\ call = "idle" /\ context /\ Free(FreedWithContext(pointer), pointer)
      /\ context' = FALSE /\ UNCHANGED <<backend, call, todo, mapping>>
  BY DEF FreeContext
<1>2. todo = <<>>
  BY <1>1 DEF MInv, Constructing
<1> QED
  BY <1>1, <1>2, WholeContextFreed

(* modbus_mapping_free *)
LEMMA MInvMappingFree ==
  ASSUME MInv, MappingFree
  PROVE  MInv'
<1> USE DEF MInv
<1>1. /\ call = "idle" /\ mapping /\ mapping' = FALSE
      /\ Free(ToSet(MappingBlocks), pointer) /\ UNCHANGED <<backend, call, todo, context>>
  BY DEF MappingFree
<1>2. todo = <<>> /\ ToSet(MappingBlocks) = HaveMapping
  BY <1>1, MappingBlocksListed DEF Constructing, HaveMapping, Have
<1>3. pointer \in [Blocks -> {"garbage", "NULL", "set"}]
  BY DEF MemoryTyped
<1> QED
  BY <1>1, <1>2, <1>3, MappingFreed

(* A constructor returns. *)
LEMMA MInvReturn ==
  ASSUME MInv, Return
  PROVE  MInv'
<1> USE DEF MInv
<1>1. /\ call \in {"new", "mapping_new"} /\ todo = <<>> /\ call' = "idle"
      /\ context' = (context \/ call = "new") /\ mapping' = (mapping \/ call = "mapping_new")
      /\ UNCHANGED <<heap, pointer, backend, todo, misfreed>>
  BY DEF Return
<1>2. MemoryTyped' /\ Constructing'
  BY <1>1 DEF MemoryTyped, Constructing
<1>3. HaveContext' = HaveContext /\ HaveMapping' = HaveMapping
  BY <1>1, NothingToDo DEF HaveContext, HaveMapping, Have
<1>4. ContextKept' /\ MappingKept'
  BY <1>1, <1>3 DEF ContextKept, MappingKept
<1> QED
  BY <1>1, <1>2, <1>4

(* Calls that neither allocate nor free. *)
LEMMA MInvOther ==
  ASSUME MInv, UNCHANGED memory, call \notin {"new", "mapping_new"},
         call' \in {"idle", "connect", "listen", "save", "configure", "reconnect"}
  PROVE  MInv'
<1> USE DEF MInv
<1>1. UNCHANGED <<heap, pointer, backend, todo, context, mapping, misfreed>>
  BY DEF memory
<1>2. MemoryTyped' /\ Constructing'
  BY <1>1 DEF MemoryTyped, Constructing
<1>3. HaveContext' = HaveContext /\ HaveMapping' = HaveMapping
  BY <1>1 DEF HaveContext, HaveMapping, Have
<1>4. ContextKept' /\ MappingKept'
  BY <1>1, <1>3 DEF ContextKept, MappingKept
<1> QED
  BY <1>1, <1>2, <1>4

(* Every step of a call that is not about memory leaves it alone. *)
Other ==
  \/ Start("connect") \/ Start("listen") \/ Socket \/ Fail \/ Connected \/ Listening
  \/ Accept \/ RtuConnect \/ SetUpFails \/ Save \/ Configure
  \/ ModbusClose \/ Reconnect \/ ConnectAgain
  \/ GetSocket \/ SetSocket \/ AppAccepts \/ AppCloses

LEMMA OtherCalls ==
  ASSUME MInv, Other
  PROVE  /\ UNCHANGED memory /\ call \notin {"new", "mapping_new"}
         /\ call' \in {"idle", "connect", "listen", "save", "configure", "reconnect"}
<1> USE DEF MInv, MemoryTyped
<1>1. CASE Start("connect") \/ Start("listen")
  BY <1>1 DEF Start, Idle
<1>2. CASE Socket \/ Fail
  BY <1>2 DEF Socket, Fail, GiveUp
<1>3. CASE Connected \/ Listening
  BY <1>3 DEF Connected, Listening
<1>4. CASE Accept \/ ModbusClose \/ Reconnect \/ GetSocket \/ SetSocket \/ AppAccepts \/ AppCloses
  BY <1>4 DEF Accept, ModbusClose, Reconnect, GetSocket, SetSocket, AppAccepts, AppCloses, Idle
<1>5. CASE RtuConnect \/ ConnectAgain
  BY <1>5 DEF RtuConnect, ConnectAgain, Open, Idle
<1>6. CASE SetUpFails \/ Save \/ Configure
  BY <1>6 DEF SetUpFails, Save, Configure
<1> QED
  BY <1>1, <1>2, <1>3, <1>4, <1>5, <1>6 DEF Other

(* The memory is in order after every step. *)
LEMMA MInvStep == MInv /\ [Next]_vars => MInv'
<1> SUFFICES ASSUME MInv, [Next]_vars PROVE MInv'
  OBVIOUS
<1>1. CASE Allocation
  BY <1>1, MInvBegin, MInvAllocate, MInvNoTable, MInvOutOfMemory, MInvReject, MInvReturn,
     MInvMappingFree
  DEF Allocation
<1>2. CASE ModbusFree
  BY <1>2, MInvFreeContext DEF ModbusFree
<1>3. CASE Other
  BY <1>3, OtherCalls, MInvOther
<1>4. CASE UNCHANGED vars
  BY <1>4 DEF vars, memory, MInv, MemoryTyped, Constructing, ContextKept, MappingKept,
              HaveContext, HaveMapping, Have
<1> QED
  BY <1>1, <1>2, <1>3, <1>4 DEF Next, Other

(***************************************************************************)
(* The rest of the types: the addresses left to try are counted, and never *)
(* below one while a call has any.                                         *)
(***************************************************************************)
Counted ==
  /\ tries \in 0..MaxAddresses
  /\ call \in {"connect", "listen"} => tries >= 1
  /\ line \in Settings /\ old_tios \in Settings /\ careless \in BOOLEAN

(* The counts stay in their range. *)
LEMMA CountedStep == Counted /\ Progress /\ MInv /\ [Next]_vars => Counted'
<1> SUFFICES ASSUME Counted, Progress, MInv, [Next]_vars PROVE Counted'
  OBVIOUS
<1> USE DescriptorAssumption DEF Counted
<1>1. CASE Allocation \/ ModbusFree
  <2>1. UNCHANGED <<tries, line, old_tios>> /\ careless' \in BOOLEAN
    BY <1>1 DEF Allocation, ModbusFree, descriptors
  <2>2. call' \notin {"connect", "listen"} \/ call' = call
    BY <1>1 DEF Allocation, New, MappingNew, Begin, Allocate, NoTable, OutOfMemory, Reject,
                Return, MappingFree, ModbusFree, FreeContext
  <2> QED
    BY <2>1, <2>2
<1>2. CASE Start("connect") \/ Start("listen")
  BY <1>2 DEF Start
<1>3. CASE Socket \/ Fail
  <2>1. CASE GiveUp /\ call \in {"connect", "listen"}
    <3>1. /\ tries' = tries - 1 /\ call' = IF tries = 1 THEN "idle" ELSE call
          /\ UNCHANGED <<line, old_tios, careless>>
      BY <2>1 DEF GiveUp
    <3> QED
      BY <2>1, <3>1
  <2>2. CASE UNCHANGED <<call, tries, line, old_tios, careless>>
    BY <2>2
  <2> QED
    BY <1>3, <2>1, <2>2 DEF Socket, Fail
<1>4. CASE Connected \/ Listening
  BY <1>4 DEF Connected, Listening
<1>5. CASE Accept \/ GetSocket \/ SetSocket \/ AppAccepts \/ AppCloses
  BY <1>5 DEF Accept, GetSocket, SetSocket, AppAccepts, AppCloses
<1>6. CASE RtuConnect \/ ConnectAgain
  <2>2. CASE Open /\ UNCHANGED <<tries, line, old_tios>>
    <3>1. call' \in {"idle", "save"} /\ careless' = (careless \/ LineOpen)
      BY <2>2 DEF Open
    <3>2. careless' \in BOOLEAN
      BY <3>1 DEF LineOpen
    <3> QED
      BY <2>2, <3>1, <3>2
  <2>3. CASE /\ call' = "connect" /\ UNCHANGED <<line, old_tios, careless>>
             /\ tries' \in {1} \union 1..MaxAddresses
    BY <2>3
  <2> QED
    BY <1>6, <2>2, <2>3 DEF RtuConnect, ConnectAgain
<1>7. CASE SetUpFails \/ Save \/ Configure
  BY <1>7 DEF SetUpFails, Save, Configure, Settings
<1>8. CASE ModbusClose \/ Reconnect
  BY <1>8 DEF ModbusClose, Reconnect, Closing, Settings
<1>9. CASE UNCHANGED vars
  BY <1>9 DEF vars, descriptors
<1> QED
  BY <1>1, <1>2, <1>3, <1>4, <1>5, <1>6, <1>7, <1>8, <1>9 DEF Next

(***************************************************************************)
(* The theorems.                                                           *)
(***************************************************************************)

(* DInv is an invariant, whatever the application and the system do.       *)
THEOREM Invariance ==
  Spec => []DInv
<1>1. DInv /\ [Next]_vars => DInv'
  <2> SUFFICES ASSUME DInv, [Next]_vars PROVE DInv'
    OBVIOUS
  <2>1. CASE Allocation
    BY <2>1, DInvAllocation
  <2>2. CASE ModbusFree
    BY <2>2, DInvFree
  <2>3. CASE Start("connect") \/ Start("listen")
    BY <2>3, DInvStart
  <2>4. CASE Socket
    BY <2>4, DInvSocket
  <2>5. CASE Fail
    BY <2>5, DInvFail
  <2>6. CASE Connected
    BY <2>6, DInvConnected
  <2>7. CASE Listening
    BY <2>7, DInvListening
  <2>8. CASE Accept
    BY <2>8, DInvAccept
  <2>9. CASE RtuConnect
    BY <2>9, DInvRtuConnect
  <2>10. CASE SetUpFails
    BY <2>10, DInvSetUpFails
  <2>11. CASE Save \/ Configure
    BY <2>11, DInvSave
  <2>12. CASE ModbusClose \/ Reconnect
    BY <2>12, DInvClose
  <2>13. CASE ConnectAgain
    BY <2>13, DInvConnectAgain
  <2>14. CASE GetSocket \/ SetSocket
    BY <2>14, DInvGetSet
  <2>15. CASE AppAccepts \/ AppCloses
    BY <2>15, DInvApp
  <2>16. CASE UNCHANGED vars
    <3>1. UNCHANGED <<backend, context, todo, call, s, new_s, opened, held, line, old_tios, careless>>
      BY <2>16 DEF vars, memory, descriptors
    <3>2. LineOpen' <=> LineOpen
      BY <3>1 DEF LineOpen
    <3> QED
      BY <3>1, <3>2 DEF DInv, Typed, Progress, Careful, NoneLost, Owned, OneLine, Kind
  <2> QED
    BY <2>1, <2>2, <2>3, <2>4, <2>5, <2>6, <2>7, <2>8, <2>9, <2>10, <2>11, <2>12,
       <2>13, <2>14, <2>15, <2>16 DEF Next
<1> QED
  BY <1>1, DInvInit, PTL DEF Spec

(* No descriptor is lost, for any number of them and of addresses          *)
(* (modbus_connect, modbus_tcp_listen, modbus_tcp_accept).                 *)
THEOREM LosesNothing ==
  Spec => []NothingLost
<1>1. DInv => NothingLost
  BY MinusOne DEF DInv, Progress, Careful, NoneLost, NothingLost
<1> QED
  BY <1>1, Invariance, PTL

(* The context never keeps a descriptor that is closed                     *)
(* (modbus_tcp_accept, _modbus_rtu_connect).                               *)
THEOREM NoStaleSocket ==
  Spec => []OwnsItsSocket
<1>1. DInv => OwnsItsSocket
  BY MinusOne DEF DInv, Typed, Careful, Owned, OwnsItsSocket
<1> QED
  BY <1>1, Invariance, PTL

(* A line that is closed has the settings it was found with, or those left *)
(* by a close that could not restore them (_modbus_rtu_close).             *)
THEOREM LineAsFound ==
  Spec => []RestoresLine
<1>1. DInv => RestoresLine
  BY DEF DInv, Careful, OneLine, RestoresLine
<1> QED
  BY <1>1, Invariance, PTL

(* The memory and the counts are in order, always. *)
THEOREM MemoryInvariance ==
  Spec => [](MInv /\ Counted)
<1>1. Init => MInv /\ Counted
  <2>1. Init => MInv
    BY MInvInit DEF Init
  <2>2. Init => call = "idle"
    BY DEF Init, MemoryInit
  <2>3. Init => Counted
    <3>1. 0 \in 0..MaxAddresses
      BY DescriptorAssumption
    <3>2. Init => tries = 0 /\ line = "found" /\ old_tios = "found" /\ careless = FALSE
      BY DEF Init
    <3> QED
      BY <2>2, <3>1, <3>2 DEF Counted, Settings
  <2> QED
    BY <2>1, <2>3
<1>2. DInv /\ MInv /\ Counted /\ [Next]_vars => (MInv /\ Counted)'
  BY MInvStep, CountedStep DEF DInv
<1> QED
  BY <1>1, <1>2, Invariance, PTL DEF Spec

(* A constructor that fails leaves nothing behind, at whichever block, and *)
(* modbus_free and modbus_mapping_free free every block                    *)
(* (modbus_new_*, modbus_mapping_new_start_address).                       *)
THEOREM LeavesNothing ==
  Spec => []NoGarbage
<1>1. MInv => NoGarbage
  <2> SUFFICES ASSUME MInv, call = "idle"
               PROVE  heap = HaveContext \union {b \in HaveMapping : pointer[b] = "set"}
                      /\ HaveContext = (IF context THEN ToSet(ContextBlocks(backend)) ELSE {})
                      /\ HaveMapping = (IF mapping THEN ToSet(MappingBlocks) ELSE {})
    BY DEF NoGarbage
  <2>1. heap \subseteq ContextMemory \union MappingMemory
    BY BlocksListed DEF MInv, MemoryTyped
  <2>2. /\ heap \intersect ContextMemory = HaveContext
        /\ heap \intersect MappingMemory = {b \in HaveMapping : pointer[b] = "set"}
    BY DEF MInv, ContextKept, MappingKept
  <2>3. /\ HaveContext = (IF context THEN ToSet(ContextBlocks(backend)) ELSE {})
        /\ HaveMapping = (IF mapping THEN ToSet(MappingBlocks) ELSE {})
    BY MappingBlocksListed DEF HaveContext, HaveMapping, Have
  <2> QED
    BY <2>1, <2>2, <2>3
<1> QED
  BY <1>1, MemoryInvariance, PTL

(* Nothing is freed twice, or through a pointer that was never written     *)
(* (modbus_free of a context that is not finished).                        *)
THEOREM FreesOnce ==
  Spec => []FreesWhatItHas
<1>1. MInv => FreesWhatItHas
  BY DEF MInv, FreesWhatItHas
<1> QED
  BY <1>1, MemoryInvariance, PTL

(* Contexts and descriptors keep their types. *)
THEOREM TypeCorrect ==
  Spec => []TypeOK
<1>1. DInv /\ MInv /\ Counted => TypeOK
  <2> SUFFICES ASSUME DInv, MInv, Counted PROVE TypeOK
    OBVIOUS
  <2>1. todo \in Seq(Blocks)
    <3>1. CASE call = "new"
      BY <3>1, RestListed DEF MInv, MemoryTyped, Constructing
    <3>2. CASE call = "mapping_new"
      BY <3>2, RestListed DEF MInv, Constructing
    <3>3. CASE call \notin {"new", "mapping_new"}
      BY <3>3 DEF MInv, Constructing
    <3> QED
      BY <3>1, <3>2, <3>3
  <2> QED
    BY <2>1 DEF DInv, Typed, MInv, MemoryTyped, Counted, TypeOK
<1> QED
  BY <1>1, Invariance, MemoryInvariance, PTL
=============================================================================
