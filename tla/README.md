# libmodbus in TLA+

A model of libmodbus: the receiver that cuts a byte stream into messages, the
server that answers requests from its tables, the client functions, the session
of one client with one server through late answers, timeouts, broken connections
and error recovery, a slave among others on a serial line, the proxy, the memory
and the descriptors of a context, the flush, and a float on its way through
registers and a checksum.  Each module is a translation of code under `src/src/`;
`PROJECT.json` names the lines of every definition.

## 1. Inventory

`modbus_t` (`modbus-private.h`) is the only shared object: slave, socket `s`,
`error_recovery`, `quirks`, three timeouts, a table of backend functions and
the backend's data.  One thread uses a context at a time; the library creates
no thread and takes no lock.  What runs concurrently is the other side: the
peer, the network or line, and the clock.

| part | state it keeps | operations | what is hard | what makes it correct |
|---|---|---|---|---|
| message reception, `_modbus_receive_msg` (`modbus.c` 280-556) | the caller's buffer, `msg_length`, `length_to_read`, `step`, `p_tv` | read the function code, the meta information, the data; check integrity; time out; reconnect | the stream has no marks, and the length field of the TCP header is never read: everything hangs on the geometry of each function code | never past the buffer, never past the message, the boundaries found again after trouble |
| server replies, `modbus_reply` (802-1265) | `modbus_mapping_t`: four tables with a start address and a size | ten function codes, each with its checks, exceptions and stores | boundaries of addresses and quantities; two checks before one write; broadcasts | a refused request changes nothing, an accepted one exactly what it names |
| client functions (1446-1977) | the request and response buffers of one call | read, write, mask write, write and read, report slave id, raw requests | three places compute the length of a response | a call returns what the tables held |
| confirmation check, `check_confirmation` (578-735) | none | compares a response with its request | what it does *not* compare: mask write, report slave id, data of reads | an answer confirms only its own call |
| sending and recovery, `send_msg` (169-228), `_sleep_response_timeout` (98-112), `modbus_flush` | `ctx->s`, `errno` | send, and under LINK close, sleep, connect and send again | a loop without bound; flushes while data are under way | every call returns; no request is handled twice |
| TCP backend (`modbus-tcp.c`) | `t_id`, `ctx->s` | header, identifier, connect, listen, accept, close, flush | identifiers wrap at 65536; the flush counts in 16 bits; several addresses and steps, each of which may fail | identifiers keep answers and calls together; no descriptor lost or stale |
| RTU backend (`modbus-rtu.c`) | `confirmation_to_ignore`, `old_tios`, the RTS line, serial settings | header, CRC, slave filter, connect, close, flush | no identifiers; requests and answers of other slaves look alike; broadcasts | no request for this slave hidden; nothing else handled; the line given back as it was |
| proxy, `modbus_proxy` (1303-1445) | none of its own: two contexts | forward a request, relay the answer | the backend's answers all have identifier 0 | each request one answer, with its own identifier |
| contexts and mappings (`modbus_new_*`, `modbus_free`, 2209-2330) | the blocks of memory of each | new, free | up to five allocations one after the other, each may fail | nothing leaked, nothing freed twice or through a pointer never written |
| checksum, `crc16` | two tables of 256 bytes | one byte after the other | 512 constants | it is the checksum of the Modbus specification |
| data (`modbus-data.c`) | none | bits and bytes, four orders of floats | permutations that must invert each other | `get(set(x)) = x` |
| options | fields of `modbus_t` | getters and setters | single assignments | variables and constants of the modules |

The client's call goes `build_request_basis` → `send_msg` →
`_modbus_receive_msg` → `check_confirmation`; the server's loop goes
`modbus_receive` → `modbus_reply` → `send_msg`.  Both sides share only the bytes
between them.  The hazards that follow, each with its line and the properties
that would catch it, or a note of what they leave out, are in `PROJECT.json`.

## 2. Modules

| module | what it is |
|---|---|
| `ModbusProtocol` | function codes and their geometry: `MetaLength`, `CountOffset` |
| `ReceiveMsg` | `_modbus_receive_msg` over a connection, byte by byte |
| `FrameChannel` | abstract: a reliable channel of frames |
| `ModbusData` | bits and registers as bytes |
| `ModbusReply` | `modbus_reply` on the four tables |
| `RemoteAccess` | the client functions, composed with `ModbusReply` |
| `RemoteTables` | abstract: four tables of addressed cells, each call atomic |
| `Session` | client, server and link, message by message, with recovery |
| `Calls` | abstract: what a call's result says about the server |
| `Proxy` | the loop around `modbus_proxy`, between requesters and a backend device |
| `Gateway` | abstract: one answer for every request, no request handled twice |
| `RtuBus` | a slave that hears the requests for others and their answers |
| `Context` | the memory of a context and of a mapping |
| `Connection` | the descriptors of a context, on top of `Context` |
| `TcpFlush` | `_modbus_tcp_flush` while the peer sends |
| `CrcTables` | `table_crc_hi` and `table_crc_lo` |
| `RtuFrame` | a float in registers, in a frame with its checksum, on a noisy line |
| `..._proofs` | theorems about `ReceiveMsg`, `RemoteAccess`, `Session`, `Proxy`, `RtuBus`, `Connection`, `TcpFlush`, `RtuFrame` |
| `MC...` | instances for TLC |

Definitions named after another with a suffix, under a comment that begins
"Seeded fault", are what a plausible mistake would make of the definition that
follows; nothing uses them but the mutants of `PROJECT.json`.

### ReceiveMsg

`stream` is every byte the peer sent on the connection, `arrived` how many can be
read, `taken` how many have been; the caller's buffer is the stretch from `start`
to `taken`, so `msg_length` is `taken - start`.  `step`, `length_to_read` and
`timer` (`p_tv` is not NULL) are the code's.  One pass of the loop is one action:
`ReadPart` (recv gave less than asked), `ReadFunction` (`_STEP_FUNCTION` to
`_STEP_META`), `ReadMeta` (to `_STEP_DATA`), `ReadTooMany` ("too many data"),
`ReadLast` and `ReadCorrupt` (the loop ends, `check_integrity`).  `Timeout` and
`Flush` are two actions because bytes arrive during the sleep between them.
`Reconnect` and `FailToReconnect` are the one attempt LINK recovery makes.
`ends` is history, the positions where the peer's frames end; no action of the
receiver reads it.  An error of select other than a timeout, and an
error of recv other than the loss of the peer, take the same paths of the code
and are not told apart.  The RTU slave filter changes what the caller does with
a message, not what is read.

### ModbusReply and RemoteAccess

`mapping[t][i]` is cell `i` of table `t`, at address `Start[t] + i`; a request is
a record of the fields of its PDU.  The checks are in the order of the code and
give one `ExceptionCode`; each function code is one action.  `Stored` lets a
store leave the table, as the C loop would: that the checks prevent it is a
property, not a definition.  A broadcast over RTU is carried out and not
answered, unless the server has `MODBUS_QUIRK_REPLY_TO_BROADCAST`.
`RemoteAccess` adds the client: its own checks, the request it builds
(addresses cut to 16 bits), and `check_confirmation`, with the response's
length computed three ways as in the code: by the request
(`compute_response_length_from_request`), by the received bytes
(`ReceivedLength`), and by the server.  Bytes hold `BitsPerByte` bits (8 in the
code, 2 in the instances), registers are pairs of bytes.

`backend`, `quirks`, `slave` and `byHand` are chosen in `Init` and never change.
With `byHand` the application also sends requests of its own
(`modbus_send_raw_request`); nothing is promised to it about results, nor to one
that broadcasts over RTU to a server that does not answer broadcasts.  These
behaviours (`Unwatched`) map to a `RemoteTables` in which nothing happens, and
`Confined`, `Framed` and `TypeOK` are what is said of them.

### Session

Messages carry the transaction identifier, the request, and, as history, their
age: how many calls have begun since the one they belong to.  `requests`,
`flight` and `inbox` are what the server has yet to handle, answers on their way,
and answers the client can read.  `Call` is `build_request_basis`; the `Send...`
actions are the outcomes of `send_msg`; `Receive...`, `Timeout`, `Flush`,
`Lose...` those of `_modbus_receive_msg` and `check_confirmation`.  `"sleeping"`
is `_sleep_response_timeout`: what is sent meanwhile can arrive, and a flush
takes what has.  `ApplicationReconnects` and `ApplicationFlushes` are the
application's own `modbus_close` and `modbus_connect`, and its `modbus_flush`.

`recovery`, `serial` and `sleepSuffices` are chosen in `Init`.  Over TCP nothing
is lost while a connection lives, and `Break` ends it; on a serial line messages
are lost or damaged, and there are no identifiers (`Numbers` is 1).
`sleepSuffices` says that what is under way arrives within the response timeout.
An answer to a request with the same `what` is one the check cannot tell apart.

### Proxy

`sent` is what the requesters have sent and `received` how many requests
`modbus_receive` has returned; their numbers stand for the frontend's
identifiers.  `Receive` with `Forward` or `Refuse` is the call of `modbus_proxy`
up to `modbus_set_slave`; the outcomes of the send and of `_modbus_receive_msg`
are the actions of `Session` again, and each ends with `End`, which is the one
reply the code makes on that path: `modbus_reply_exception` with
`GATEWAY_PATH` or `GATEWAY_TARGET`, or the relayed answer.  The backend
identifier is 0 in every request, so messages have none; `FromSlave` is what
the slave filter of `check_integrity` and the `pre_check_confirmation` let through:
the slave asked over RTU, everything over TCP.  `backend` and `recovery` are
chosen in `Init` and never change, so one run covers both backends and the four
recoveries.  `SleepSuffices` says that what is under way arrives within the
response timeout: it restricts what a flush after a sleep leaves behind
(`Settled`), and nothing else.  A broken connection is noticed at the next
send or recv.  The frontend is TCP and its sends are taken to succeed.

### RtuBus

One slave, a master that asks one slave at a time, and the other slaves, which
answer or stay silent.  A message does not say whether it is a request or an
answer, and the two have different lengths, so `_modbus_rtu_receive` keeps
`confirmation_to_ignore`: what follows a request for another slave is read as its
answer.  `phase` is where the slave is: listening, asleep before a flush,
handling a request, or refusing one (`response_exception` sleeps and flushes
before some exceptions).  Each action of `Receiving` is one outcome of one
`modbus_receive`; `Misread` is a message read for what it is not, or damaged,
which takes bytes of the next ones with it or a piece of them.  `missed` is
history: the step before took or flushed a request for this slave without giving it to
the application.

The clock is two settings chosen in `Init`.  `margin` is how many response
timeouts of this slave, one after the other, fit into the master's; `orderly`
says that nothing is damaged and that who answers does so in time.  `Overtaken`
is where they bite: the master gives up only when this slave's shorter waits
are over.  No other slave answers broadcasts.

### Context and Connection

`heap` is the blocks allocated, `pointer` what the structures' pointers hold:
`"garbage"` after malloc, `"NULL"`, or `"set"`.  A constructor allocates its blocks
in the order of the code (`todo`), and `OutOfMemory` at any of them frees what
the code frees on that path, through whatever the pointers then hold.

`Connection` adds descriptors.  `opened[d]` is what the system has behind
descriptor `d`; the lowest free one is handed out, so that a stale number
soon stands for something else.  `connect` and `listen` go address by address and
step by step, and any step may fail; an RTU `connect` opens the line, saves its
settings and sets its own, and a close restores them or, when the system refuses,
leaves the line as it is, `"left"`, for the next connection to find; `Reconnect` and `ConnectAgain` are the close and
connect of LINK recovery.  The application is there too: it sets and gets the
socket, accepts and closes by itself.  `held` is the descriptors it knows of, and
`careless` is history: it has dropped one itself, by accepting, setting a socket,
opening a line or freeing the context over a connection of which it does not
know, or by keeping a descriptor in a context that recovers.  Properties of
descriptors are about an application that is not careless.

### TcpFlush

`earlier` is what was unread when the flush was called, `later` what came since;
one `recv` of at most `MODBUS_TCP_MAX_ADU_LENGTH` bytes is one action, `Recv` or,
when `rc_sum` would not hold its sum, `Overflow`.

### CrcTables and RtuFrame

The tables are those of the source.  `RtuFrame` puts one float into two registers
with one of the four `modbus_set_float_...`, sends it as the answer to a read,
lets the line flip bits or change two bytes next to each other, checks it as
`_modbus_rtu_check_integrity` does and takes the float out again.  A float is its
four bytes.  `ChecksumIsModbus` compares `crc16` with the division of polynomials
it stands for.  `XorNibble` is a table of tables, one nibble after the other.

## 3. Runs

| run | what it checks | what it shows |
|---|---|---|
| `receive_tcp` | `BufferBound`, `NoOverread`, `ExactFrame`, `LostOnlyBy`, `Resync` | a TCP server reads pipelined requests of known and unknown functions, and one that announces too many bytes, cut anywhere; it loses the boundaries only in the three ways `LostOnlyBy` names, and the byte timeout brings it back |
| `receive_rtu` | `IInv`, `LostOnlyBy`, `Resync` | a client waits for answers, one of them damaged, under LINK and PROTOCOL with flushes and a reconnection; the invariant that is proved holds |
| `frame_channel` | `ImplementsChannel` | without timeouts, well-formed frames come out whole, in order, once: the receiver implements `FrameChannel` |
| `remote_access` | `TypeOK`, `Framed`, `Understood`, `Confined`, `ImplementsTables` | over TCP and as broadcasts, client functions and replies implement atomic reads and writes of four tables, with quantities and addresses inside, at and beyond every limit; hand-made requests change only what they name, and nothing when refused; responses are as long as they say |
| `session_calls` | `IInv`, `OwnUnlessWrapped`, `OwnUnderLink`, `Recovers`, `EveryCallReturns`, `ImplementsCalls` | with identifiers or without, under each of the four recoveries: a call takes its own answer until the identifiers wrap, and always under LINK if the sleep is long enough; PROTOCOL brings both sides back in step over TCP, as long as no identifier has come again; every call returns; no request is handled twice |
| `session_flush` | `FlushesOnWrongFunction` (violated) | see Findings |
| `proxy_gateway` | `RelaysOwnUnderLink`, `RelaysFromSlave`, `IInv`, `ImplementsGateway` | over both backends and under every recovery the proxy gives each request one answer, and no device handles a request twice; with LINK the answer is the requester's own, and over RTU it is always one of the slave asked |
| `proxy_late` | `RelaysOwn` (violated) | see Findings |
| `rtu_bus` | `IInv`, `NeverMisses`, `HandlesRequestsOnly`, `HearsAgain` | with timeouts that fit, a slave misses no request though others stay silent; whatever the line does, it handles nothing but requests for it; and when disturbances end it finds its place again |
| `resources` | `TypeOK`, `NoGarbage`, `FreesWhatItHas`, `NothingLost`, `OwnsItsSocket`, `RestoresLine` | whichever allocation and whichever step of a connection fails, no block and no descriptor is lost or freed twice unless the application drops one, and a closed line has its settings back, unless a close could not restore them |
| `tcp_flush` | `IInv`, `Discards`, `FlushEnds` | a flush that reports no overflow leaves nothing that was unread, and it ends though the peer goes on sending |
| `rtu_frame` | `ChecksumIsModbus`, `RefusesDamage`, `FloatArrives` | the bytes of a float are sent as the name of the order spells them, the checksum is that of the Modbus specification, the damage is noticed, and the float that arrives is the one that was set |

Runs that may stop set `CHECK_DEADLOCK FALSE`: in the receiver's, a peer that has
sent its bounded number of frames and closed leaves a receiver with nothing to
do, and a receiver without a timeout may wait for ever by design; in the
proxy's, the bounded number of requests comes to an end; in `rtu_frame`, the one
frame does.

### Bounds

`MaxFrames` (2 or 3 frames on a connection) gives one message to lose the
boundary in and one to find it again, and `frame_channel` one more to be
pipelined; `MaxConnections` 2 is one reconnection.  Header, checksum and ADU lengths are the real ones.

In `remote_access` one table begins at address 0 and the others after it, tables
have 2 or 3 cells, a byte two bits, so that one write takes a byte and a half;
addresses lie before, at the start of, at the end of and past the tables, and
past the address space (8).

In the session runs `Tids` is 3.  `MaxLag`, the number of calls a message may
stay under way, is 3 in `session_calls`, so that identifiers do come again, and 2
in `session_flush`, where they need not.

The proxy gets 3 requests (2 in `proxy_late`): one to be late, one whose place the late
answer takes, and one to see the two come back in step or not.  Their slaves are
two ordinary ones, the broadcast address and 255, which a TCP backend takes and
an RTU backend refuses.

`rtu_bus` has one other slave and at most 3 unread messages: a request for the
other slave, its answer, and a request that they may hide.

`resources` has three descriptors, of which select can take two, and two
addresses for TCP_PI: a listener, a connection, and the one that replaces it or is too
large.  Memory needs no bound: the blocks are those of the code.

`tcp_flush` counts to 10 in pieces of 3, of up to 14 unread bytes: like 65535 and
260, no multiple of each other, and one unread byte more than a flush can count without overflow is there.
`taken` is history and is capped one above what `rc_sum` can count.

In `rtu_frame` two floats, whose bytes tell the four orders apart, are sent by one slave;
noise is any one or two flipped bits of the frame, or any change of one byte together
with one of four of the next, so that every entry of the tables is used.

### Fairness

`ReceiveMsg`: what was sent arrives and the receiver, which has the only thread,
runs.  `RemoteAccess`: each side runs.  `Session`: the receiving client runs,
what is sent is delivered and handled; `SF` on `Send` and `SendReconnects` says that a peer which
can be reached again and again is, at last, reached, which the endless loop of
`send_msg` needs: without it the loop may be unlucky for ever.  `Proxy`
assumes the same of its backend, and that its one thread runs.  `RtuBus`: the slave
reads, its timeouts end and it replies; nothing is assumed of the master or the other slaves.
`TcpFlush`: the loop runs, since its recv does not wait; nothing is assumed of
the peer.  `Recovers` and `HearsAgain` ask for more in their own hypotheses:
that trouble ends.

## 4. Proofs

`ReceiveMsg_proofs` proves, for every set of frames, header, checksum and ADU
length (with `HeaderLength + 10 <= MaxAdu`), every recovery mode and any number of
connections, `BufferBound`, `NoOverread`, `ExactFrame` and `LostOnlyBy`.
None is inductive.  The invariant, `IInv`, says where the bytes being read end:
after the function code, after the meta information, or at the length that the
bytes already read give (`StepInv`); that every boundary is the end of the stream
or the place of a frame (`EndsInv`); and that what was returned is one message
(`ReturnInv`).  The lemmas say that appending to the stream changes no byte that
is in it, so lengths once known stay known.

`ReliableChannel` is the safety part of `ImplementsChannel`: when nothing but the
frames decides (`Orderly`: every frame has a known geometry and a right checksum,
no timer is set, no LINK recovery), every step of receiver and peer is a step of
`FrameChannel` or a stutter.  The frames sent are the stretches between the
boundaries, those delivered the boundaries before the place where the receiver
is, so the proof counts members of a set of numbers (`Rank`, `Nth`, `Cut`):
appending a frame adds one stretch and changes no other (`CutAppended`), and a
message returned moves the receiver past one boundary exactly (`WholeFrame`).
`ChInv` adds to `IInv` that the receiver is at a boundary, that the next boundary
after a frame's begin is its end, and that no timer runs.

`RemoteAccess_proofs` proves, for tables of any size at any addresses, any limits
of quantities, bytes of any number of bits, and requests with any addresses and
counts, that the tables stay what they are (`TypeOK`), that a request changes
what it names and nothing when it is refused (`Confined`), that a response is as
long as it says (`Framed`), and that the client takes no answer for bad data
(`Understood`).  One lemma per function code says that the checks put the cells
that are read or stored inside of the table, with the arithmetic of bits in bytes
under it, and gives the response; `Underway` carries the request and the response
from the server to the client's check.  The assumptions are that a request has
as many data as its byte count announces, which the receiver sees to, and
fields that fit (`CallsAssumption`).

`TablesAtomic` is the safety part of `ImplementsTables`: client, link and server
together take only steps of `RemoteTables`.  The server's step is where a call
takes effect, so the proof is about that one step.  `Calling` says which
arguments the request under way stands for; a call that the client and the
server let through is legal for the tables and names cells that exist
(`CallLegality`, `CallInTable`), while one they refuse changes nothing; bits and
registers come out of bytes as they went in (`BitsRoundTrip`, `WordsRoundTrip`);
and the cells stored or read by the C code's offsets are those of the addresses
(`StoredByAddress`, `CellsByAddress`).  `ReadServed`, `WriteServed`, `MaskServed`
and `WriteAndReadServed` put these together for each kind of call; the last one
is where the write must come before the read.

`Session_proofs` proves, for any positive number of identifiers and every recovery mode,
that an answer a call takes is its own or at least `Numbers` calls old
(`OwnUnlessWrapped`), and, with LINK and a sleep that suffices, its own always
(`OwnUnderLink`).  Neither is inductive.  `Numbered` says that every message under
way carries the identifier its age tells, counted back from the present one; one
lemma does the arithmetic of the wrap.  `OneAtATime` says that under LINK nothing
live is under way between two calls, and during a call its request or its answer
at most: every call that fails with something under way sleeps and flushes, or
connects again (`AloneStep` is one lemma per action).

`HandlesCallsOnce` proves the whole of `ImplementsCalls`, which states safety only.
What it needs besides is `HandledOnce`, about the present call: one request of it at
most is under way, and none while it is being sent or once it has been handled;
and no answer to it before.  LINK recovery sends again only after a send that
failed, so it keeps this.

`Proxy_proofs` proves, for any slaves, any number of requests, either backend and
every recovery, that the proxy relays only answers of the slave asked over RTU
(`FromSlaveOnly`), and, with LINK and a sleep that suffices, only the requester's
own (`OwnUnderLink`).  Neither is inductive.  `KeepsGatewayPromises` is the safety part
of `ImplementsGateway`: every request gets one answer at most and no device
handles a request twice.  It needs, besides, that a request is in one place at a
time: to be handled, as an answer on its way, as one that can be read, or relayed
(`InOnePlace`), and that only those past the first have been handled.  `Addressing` says that every message
carries the slave of the request it belongs to; `OneAtATime` is that of
`Session_proofs`, for the proxy's calls of its backend.

`RtuBus_proofs` proves `NeverMisses` and `HandlesRequestsOnly` for any other slaves
and any number of unread messages.  The second needs only that answers on the
line are those of other slaves (`AnswersOfOthers`).  The first needs `InTurn`, of
an orderly line with timeouts that fit: every unread message is an answer exactly
when a request for another slave precedes it, the flag speaks for the first of
them, and a request for this slave is the last thing on the line until it is
answered.  Without it nothing says why the flag does not outlive the answer it waits for.

`Connection_proofs` proves `NothingLost`, `OwnsItsSocket` and `RestoresLine` for any
number of descriptors and addresses.  `DInv` says of every step, not only of the
end of a call, that an open descriptor is the application's, in `ctx->s` or the
local `new_s` of the call in progress (`NoneLost`), that `ctx->s` is open and not
`new_s` (`Owned`), and that there is one line at most whose saved settings are
those it was found with, or that a close left when it could not restore them (`OneLine`).

The memory of a context is finite, but the same module proves it, in the same
specification: `LeavesNothing` (`NoGarbage`) and `FreesOnce` (`FreesWhatItHas`) rest on
`MemoryInvariance`, which says for every step of a constructor which blocks it
has allocated, which pointers are written, and which blocks are still to come.

`TcpFlush_proofs` proves `Discards` for every width of the count and size of a piece
(the one no larger than the other); while the flush goes on, its sum is what it has taken.

`RtuFrame_proofs` proves that `crc16`, which looks each byte up in two tables, computes
the division of the Modbus specification for every buffer (`Crc16IsRemainder`, and from it
`ChecksumIsModbus`); that a frame is accepted exactly when it is the one sent, if the
noise flipped at most two of its bits, wherever they are, or changed two bytes next to
each other to anything (`RefusesDamage`); and that the bytes of a float are sent in the
order its functions are named for (`Spelling`), and a float which arrives is the one that
was set (`FloatArrives`), since each `get_float` inverts its `set_float` (`RoundTrip`).

- Bytes are handled as eight bits.  `XorBits` says what `Xor` does to each, and the
  laws of `Xor` follow.  `EntriesOfByte` gives the entries of both tables as sums of the
  bits of their index: this one step reads all 512 numbers of the source.
- `EightShifts`: eight steps of the division by the polynomial make the same sums,
  so that one look into the tables is the division of one byte.
- `TablesAreLinear`: the registers that `crc16` keeps for two frames differ by what it
  would keep for the difference of the frames (`ApartBytes`).  `check_integrity` holds
  when the register is zero after all nine bytes (`IntegrityIsZero`).
- `DamageIsNoticed`: `table_crc_lo` has a zero for index 0 only (`EntriesOfZero`), so
  a difference of registers that is not zero stays so under undamaged bytes, and two
  damaged bytes next to each other cannot undo one another.  When they are further apart
  the first has one flipped bit, and `FlippedBit` follows each of its eight
  differences through as many bytes as a frame can have between the two: none becomes one
  that a single byte undoes.
- `Damage`, the inductive part of `Inv`, says that what is on the line differs from
  what was sent in this way and in no other, and that what was sent has its checksum.

The induction over the bytes of a buffer looks at the least number at which it would fail
(`InductionTo`, from the library's `WFMin`), since the library's induction theorems
cannot be used with these provers.

Assumptions are those on constants, named in the modules, and evaluated by every run.

Model-checked only:

- liveness, which this prover does not reach: `Resync`, `Recovers`,
  `EveryCallReturns`, `HearsAgain`, `FlushEnds`;
- the fairness of three refinements: that every frame sent is returned
  (`ImplementsChannel`), every call returns (`ImplementsTables`) and every request is
  answered (`ImplementsGateway`).  Their abstract specifications are a `SafeSpec`,
  which is proved, with `WF`, which is not.

## 5. Findings

`session_flush`: `docs/modbus_set_error_recovery.md:34` has PROTOCOL recovery
sleep and flush when the received function code is not the expected one.
`check_confirmation` does so for ordinary responses (`modbus.c:629-642`), but an
*exception* response for another function returns `EMBBADEXC` at once
(`modbus.c:612-616`): what follows stays in the input for the next call.

`proxy_late`: `docs/modbus_proxy.md:15-17` has the response relayed "back to the
original requester".  Every request to the backend has identifier 0 and every
answer is checked against 0 (`modbus.c:1370-1371`, `1399`).  When a request times
out without LINK recovery, its answer stays in the input, passes the check of the
next request to that slave (over TCP, of any slave), and is relayed to that one's
requester under that one's identifier; every later request gets the answer before
its own.  `RelaysOwnUnderLink` is what does hold.

## 6. Not modelled

- Partial sends: `send_msg` returns an error when the system takes a part of a request, and
  half a request stays in the stream.  It needs the bytes of `ReceiveMsg` under
  the calls of `Session`, more than one run can hold.
- What the properties leave to the application or to the settings, though the steps are
  in the models: connecting a line that is connected, accepting over a socket of which
  the application does not know, and keeping the descriptor of a context that recovers
  (`careless` in `Connection`); a master that gives up during a sleep of the slave, and
  an indication timeout under LINK recovery (`Paced` in `RtuBus`).  The code loses
  descriptors or requests there.
- The confirmation of a mask write, which the code does not compare with its request:
  `Session` models it (`Confirms`), and its theorems hold for any requests, but
  `session_calls` makes none.
- The check of `ctx->s` against `FD_SETSIZE` in `_modbus_receive_msg`.  The TCP calls that
  set `ctx->s` make the same check, which `Connection` models; opening a serial line and
  `modbus_set_socket` do not.
- The Windows code paths, and what differs between systems in a connect.
- Socket options and the timeout within a connect: a step that may fail.
- The RTS line and the serial mode: pauses and calls that set a line, with no
  effect on the messages.
- `_modbus_rtu_flush` beyond the input: it also discards output not yet sent.
- `modbus_report_slave_id` of the client, and the text of the server's answer.
- `modbus_reply_exception` called by an application other than through the proxy.
- `modbus_set_bits_from_byte` and `modbus_get_byte_from_bits`, which nothing in
  the library calls.
- Setters, getters, debug output, the build, the tests.

## 7. Plan

All components are modelled, in full or in part.  What would come next:

1. Partial sends: a connection of `ReceiveMsg` as the link of `Session`, with
   requests of two or three bytes, so that half a request can be followed by a
   whole one.
2. A second slave of the library on the line of `RtuBus`, in place of slaves that
   are always right about whom a request is for.
