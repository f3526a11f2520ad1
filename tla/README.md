# LiteServer in TLA+

Specifications of LiteServer's engine (`src/engine`), the TLC models that check
them and the theorems TLAPS proves of them. Every definition is translated from
the source; `PROJECT.json` maps each one to its lines.

## The system

| Component | State | Operations | Interacts through |
|---|---|---|---|
| Session layer, `net/net_service.{h,cpp}` | queue of free IDs, table `m_Sessions`, map of UDP peers, `m_bRunning` | `NewSessionID`, `FreeSessionID`, `AddSession`, `DelSession`, `KickSession`, `OnSessionDrop`, `Get/SetUDPSessionID` | called by a back end and by the application; no lock |
| epoll back end, `net/net_service_epoll.cpp` | the batch `m_Events`, the handlers' locals, epoll's own interest and ready lists | `ThreadProc`, `PostAccept`, `PostConnect`, `PostRead`, `PostReadFrom`, `AddTCPConnector`, `Stop` | one thread that calls the application back; `AddTCPConnector`, `KickSession` and `Stop` come from any thread |
| IOCP back end, `net/net_service_iocp.cpp` | overlapped operations in flight, the completion port's queue | `ThreadProc`, `Post*` and `Do*` pairs, `AddTCPConnector`, `Stop` | one thread over the same session layer |
| Sockets, listeners, connectors, `net/sock.cpp`, `tcp_*`, `udp_*` | a descriptor, a pool of I/O contexts | create, bind, send, receive, `Close`, `CloseSocket` | owned by sessions and connectors |
| Ring buffers, `net/ring_buffer*` | storage, `m_uIn`, `m_uOut` (`unsigned char`) | `WriteData`, `ReadData`, `ResetOut`, `IsFull`, `IsEmpty`, ... | `RingBufferSpsc`: one writer and one reader, atomics; `RingBuffer`, `RingBufferDN`: a lock |
| Timer wheel, `timer/` | `m_uTime`, `mNear`, `mWheel`, `m_uCurrentPoint` | `AddTimer`, `UpdateTime`, `Update` | a spin lock, given up while callbacks run |
| Locks and threads, `thread/` | an atomic flag | `Lock`, `Unlock`, `TryLock`, `Start`, `Join` | the ring buffers, the wheel |
| Object pools and IDs, `util/` | lists and sets of free objects, a hash of IDs | push, pop, get, release, insert, remove, find | one thread |
| Redis and Lua, `db/`, `lua/` | a connection and its last reply, a Lua state | connect, command, wrapped calls | one thread, external libraries |
| Logger, CPU cost timer | - | formatting, measuring | - |

What is hard: sessions are deleted by handlers, by `KickSession` and by failing
system calls while epoll, a batch of events, operations in flight, the table, the
UDP map and the application all hold references to them; epoll is edge-triggered,
so what a handler leaves behind has no event of its own, and under IOCP what a
handler does not post again never completes; nothing in the session layer is locked; the rings and the wheel are used by several threads; positions, IDs and
times are at the edge of their range. `PROJECT.json` lists each hazard at its
line with the properties that would catch it.

## The modules

`NetSession` has the session layer's state and operations. It has no thread, so
its operations are fragments that fix the next value of the variables they
write. A session is named by what it is a session of: the accepted connection,
the connector that embeds it, or the UDP peer. `heap` and `sock` are the life of
the object and of its descriptor; `fault` records the first undefined behaviour
(a deleted object dereferenced, a descriptor closed that is no longer the
session's, an empty `std::queue` popped). Slot `MAX_SOCK_EVENT`, one past the
array, overlays `m_bRunning`: writing a pointer there leaves an arbitrary flag,
and what `Stop()` clears there may leave a wild pointer.

`NetServiceEpoll` extends it with the back end, the kernel and the application.
`pc` names the loop, handler or callback that `ThreadProc` is in; the actions
are the stretches between system calls that can give another outcome and
callbacks:

| Code | Actions |
|---|---|
| `ThreadProc` | `ReturnOnUpdate`, `EpollWait`, `DispatchListener`, `DispatchRead`, `DispatchConnect`, `EndOfBatch` |
| `PostAccept` | `NothingToAccept`, `AcceptWithoutID`, `Accept`, `AcceptAddFails`, `ReturnOnAddConnection` |
| `PostConnect` | `DispatchConnect`, `ReturnOnConnected`, `ModFails`, `ReturnOnConnectFail` |
| `PostRead`, `OnSessionDrop` | `ReadSome`, `ReadEnds`, `ReadFails`, `ReturnOnConnectionDrop`, `ReturnOnData` |
| `PostReadFrom` | `NothingReceived`, `RecvFromKnown`, `RecvFromWithoutID`, `RecvFromNew` |
| `AddTCPConnector` | `AppConnects`, `CallPops`, `CallAddsToEpoll`, `CallAddFails`, `CallConnects`, `CallConnectFails` |
| `KickSession`, `Stop` | `AppKicks`, `AppStops` |
| kernel and peers | `ClientConnect`, `ServerAnswers`, `PeerSends`, `PeerCloses`, `PeerResets`, `DatagramArrives` |

The application calls the service from the places in `AppCalls`, pairs of a
callback or `"main"` and a method, so one specification covers applications that
stay on the service's thread and applications that do not. `app` is what the
callbacks have told the application. `Faults` lists the system calls that may fail.
An `accept()` or `recvfrom()` that fails is taken for one that found nothing, as the
loops of `PostAccept` and `PostReadFrom` do, so `NothingToAccept` and `NothingReceived`
stand for both and may leave connections or datagrams waiting.

`SessionProtocol` is the abstract specification: what the callback interface
promises, with nothing but the open session under each ID and the callback in
progress. `NetServiceEpoll!ImplementsProtocol` is the refinement.

`NetServiceIocp` extends `NetSession` with the other back end. An operation is
pending in the kernel (`recv`, `recvfrom`, `accepts`), or its packet is in `port`,
or a handler has it in hand; the packets of operations that are aborted or fail
come with `ok` false. The steps are cut at the callbacks:

| Code | Actions |
|---|---|
| `ThreadProc` | `ReturnOnUpdate`, `TimesOut`, `GetsNull`, `GetsFailure` |
| `DoAccpet`, `PostAccept`, `NewIOContext`, `DelIOContext` | `AcceptWithoutID`, `AcceptPortFails`, `Accept`, `AcceptReturns`, `PostAccept` |
| `DoRead`, `PostRead`, `OnSessionDrop` | `DispatchRead`, `ReadReturns`, `DropReturns`, `FailReturns` |
| `DoReadFrom`, `PostReadFrom` | `ReceivesNothing`, `ReceivesFromKnown`, `ReceivesWithoutID`, `ReceivesFromNew`, `PeerAdded`, `DatagramReturns` |
| `DoConnect` | `DispatchConnect`, `ConnectReturns`, `ConnectReadFails` |
| `AddTCPConnector`, `KickSession`, `Stop` | `AppConnects`, `AppKicks`, `AppStops` |
| kernel and peers | `AcceptCompletes`, `ConnectCompletes`, `RecvCompletes`, `RecvFromCompletes`, `ClientConnect`, `PeerSends`, `PeerCloses`, `PeerResets` |

It refines the same `SessionProtocol`: an application cannot tell the back ends
apart by the order of its callbacks.

`RingBufferSpsc` models the atomic positions in `BufferSize` arithmetic
(`Modulus`), every byte of the copies as a step, and the load and the store around
them as steps. `BoundedFifo` is its abstract specification, and that of the locked
rings.

`RingBufferLocked` models `RingBuffer` and `RingBufferDN`, which differ in the class
of their lock alone, in the setting of `test/test_buffer.h`: threads that spin on
`IsFull` or `IsEmpty`, whose two loads are two steps in either order and take no
lock, then call `WriteData` or `ReadData`, whose copy and store are steps under the
lock; and the main thread, which starts and joins them (`ThreadBase`), may call `Reset`
(two stores) and `ResetOut`, and deletes the ring. The constructor's argument is any
`BufferSize`, and `RoundUpPowOfTwo` rounds it.

`WheelTimer` models the wheel with each list as the sequence of its timers, the
wrap of `m_uTime` and the lock, which `TimerExecute` gives up while it
dispatches. `UpdateTime` and `Update` are cut where the lock is taken or given up,
and at every timer that a loop hands on: `TimerExecute` and `TimerShift` take a list
off into `list`, `OnTimeOut` is a turn of `DispatchList` and `MoveList` one of
`MoveList`. The constructor leaves `m_uTime` uninitialised, so every time is
initial. The difference between the clock and `m_uCurrentPoint` goes through `ToInt`,
the conversion to `int`: a clock that jumps past `MaxInt` makes no tick.

`MCNetService` and `MCRingBuffer` give the runs' applications, failing calls and
threads. The theorems are in `NetServiceProofs` and `NetSafetyProofs` (epoll),
`IocpProofs`, `RingBufferProofs` (locked rings), `RingSpscProofs` and `WheelProofs`.
`SessionProofs` has the lemmas about the session layer that both back ends use, and
`CommonLemmas` those about sequences, remainders and positions modulo a power of two.

What the models leave out: `m_bAlive`, which nothing reads; the contents of TCP
data and datagrams; the reuse of a descriptor's number, of which `fault` records
the first step; events of hang-up alone, which no handler tests for; more than one
listener of each kind and more than one `AddTCPConnector` call at a time. The
events of a batch are dispatched in any order. A load or store of an atomic
is one step in one order of all steps: the loads that lead to a copy acquire
what the stores release, each position has one writer, and a load that answers
an older value is a load that came earlier. The plain loads of `RingBuffer`'s
`IsFull` and `IsEmpty` race with the stores; a `BufferSize` is one byte, which
the build loads and stores whole, so the answer is that of some earlier value of each
position, and the loads in both orders stand for that. The index of `TIME_NEAR` and
`TIME_LEVEL` lists is scaled from 256 and 64 to 2 and 2.

## What is checked

| Run | Shows | Bounds |
|---|---|---|
| `net_safe` | `NoFault`, `IdsConserved`, `ApplicationViewExact`, `TableOwnsSessions`, `UdpMapExact`, `EpollPointersLive` and the refinement of `SessionProtocol`, for an application that kicks and connects from `OnUpdate`, with `epoll_ctl`, `accept` and `recvfrom` failing | 2 IDs for 3 sessions |
| `net_live` | `DataIsRead`, `ResetIsDropped`, `BacklogIsDrained`, `ConnectorIsAnswered`, `StopEndsThread` | 3 IDs, two connections and a connector, 2 units of data; neither client connects again, and the peer of the second one stays silent |
| `ring_spsc` | `CopiesApart`, `AnswersHold` and the refinement of `BoundedFifo` | 4 bytes, positions modulo 8 |
| `ring_locked` | `RoomKept`, `NoUseAfterDelete`, `RoundsUp`, `Finishes` and the refinement of `BoundedFifo` | 2 writers and 2 readers, one of each passing 2 bytes and the other 1, in calls of up to 2; every size of a 2-bit `BufferSize`; one reset |
| `iocp_safe` | `NoFault`, `IdsConserved`, `TableOwnsSessions` and the refinement of `SessionProtocol`, with a kick of a UDP peer and a call of any kind failing | 2 IDs for 3 sessions, 1 accept posted |
| `iocp_live` | `OperationsOnce`, `ContextsBounded`, `BacklogIsDrained`, `CloseIsReported`, `StopEndsThread` | 2 IDs, a connection and a connector, 2 accepts posted, 1 failure |
| `timer` | `LinkedOnce`, `SameTurnOnTime`, `FiresWhenDue`, `SameTurnFires`, `OnlyDueTimersKeepIt` | 2 timers, 32 times, delays 0 to 2, a clock at most 3 ticks ahead and `MaxInt` 2 |
| `net_connected` | refutes that `OnConnected` reports an established connection | as `net_safe` |
| `net_eof` | refutes that a session whose peer closed is dropped | as `net_safe`, fair |
| `net_runs` | refutes that the service runs until `Stop()` | as `net_safe` |
| `net_ids` | refutes that sessions have IDs of their own when the main thread connects | as `net_safe` |
| `timer_lost` | refutes that every timer fires by its due time | as `timer` |

Why the bounds are enough: in `net_safe` two IDs are fewer than the three
sessions, so IDs run out, are reused by a session of another kind, and the last
one overlays the flag; one session of each kind has every handler run, with
every other session in every state around it; one unit of data is unread or not,
and one waiting datagram is of either length. `net_live` has an ID for
each session and no failing `accept()` or `EPOLL_CTL_ADD`, because each of the three
strands the backlog (`PostAccept` leaves its loop, and the edge is gone). It has two
clients, so that two connections wait for one edge, or one comes while the callback
about the other runs: a `PostAccept` that accepts once per event leaves one behind. It
has two units of data for a read loop of more than one turn. What its second client
does after it has connected is left to the first (`Active`), and a client that comes
again to the second (`Returning`). The four bytes of the ring wrap within a copy of up to three, and the
positions wrap after two rounds of the storage. `ring_locked` has two threads on
each side of the lock, so that one of them acts on an answer that the other made
old, and its positions start two short of the wrap; a 2-bit `BufferSize` has sizes that
round to 1, to 2 and, for 0 and 3, to none. In `iocp_safe` the accepted
connection comes again after it is closed, so its ID, its context and its object are
used twice, and one failure is enough for each error path, between any two other
steps. `iocp_live` posts two accepts, so that one failure leaves another; `Stop()` posts
two packets, as the code does, one of them for `SendWorker`. Each wheel level has two lists,
so within the 32 times every level is shifted and the time wraps, and delays of
2 reach into the next near turn and into the next turn of the first level. With `MaxInt` 2
the clock gets ahead by one tick, by two, and by more than an `int` holds.

Deadlock is checked in the lock-free ring and the wheel. It is not in the
network's runs, where the loop may leave for good (`"stopped"`) when `m_bRunning` is
cleared, nor in `ring_locked`, where all ends when the ring is deleted; there
`Finishes` says that nothing ends before.

Fairness: `FairSpec` of `NetServiceEpoll` is weak fairness of `ThreadProc`, a
thread that the scheduler runs, and of the call in progress. Clients, peers and
the application may stop at any time. `net_live` has no UDP peers, and `MaxRx`
bounds the data a TCP peer has in flight during `PostRead`'s loop: peers that never pause
keep `PostReadFrom`'s or `PostRead`'s loop from ending, which the code does not
prevent. `Spec` of `NetServiceIocp` is weakly fair to its thread, and to the kernel
completing an accept or a receive that can be completed; `CloseIsReported` assumes no
failed call in its statement, because what failed is never posted again. It is about a
peer that closes in order. A reset, and a `ConnectEx` that is refused, complete with an
error, for which `ThreadProc` drops and reports nothing (the calls of `OnSessionDrop`
there are commented out): the application goes on knowing the first session for ever,
and hears nothing of the second. Its liveness
properties are written with `[]<>`: what they are about lasts until it is handled. `Spec` of
`RingBufferLocked` is weakly fair to each thread and to the main thread's starts and
joins, not to its resets; a spin lock promises less than strong fairness, and none is
assumed: `Finishes` holds because a thread that does not get the lock lets others run out
of bytes to pass. `FairSpec` of `WheelTimer` is weak fairness of the thread in
`UpdateTime`, which `test_timer.h` calls in a loop; `SameTurnFires` assumes in
its statement that the clock goes on and that `UpdateTime` returns, because a
callback that adds timers of no delay keeps it for ever, and
`OnlyDueTimersKeepIt` says that nothing else does.

The refuted properties are findings, quoted in `PROJECT.json`: they are what the
interface, the tests or the messages of the code say, and the traces show the code
doing something else.

## What is proved

Every safety property that the passing runs check, and the four refinements, for
every value of the constants, from the assumptions the modules name, which TLC
evaluates on their runs.

### The epoll back end

For every number of IDs, connections, connectors and peers, from `MaxAssumption`,
`SessionAssumption`, `ServiceAssumption` and `CallbackAssumption`: the kinds of session
are disjoint, `NULL` and the wild pointer are none of them, nor is `NULL` a callback
in progress, and the bounds are numbers or sets of connections.

`NetServiceProofs!TypeCorrect`: `Spec => []TypeOK`, for every application in
`AppCalls`, the main thread's and the callbacks' included, and every set of
failing calls. `TypeOK` is not inductive: a handler indexes the tables with the
session and the ID it holds, and nothing in `TypeOK` says that it holds any.
`TypeInv` adds what the call in progress holds (`CallInv`), what the handler in
progress works on (`CurInv`), and that a session has its ID before epoll, an
event or a handler can lead to it (`IdInv`). One lemma per fragment of
`NetSession` says which types it keeps, and `NextTypeInv` has one step per action.

`NetSafetyProofs!ServiceSafe`: `NoFault`, `IdsConserved`, `TableOwnsSessions`,
`UdpMapExact`, `EpollPointersLive` and `ApplicationViewExact` always hold,
whether `epoll_ctl`, `accept` and `recvfrom` fail or not, under `CallsFromOnUpdate`: the application
kicks and connects from `OnUpdate` and does nothing else, and `connect()` does
not fail at once. The assumption is what the code needs. A main thread that
connects is handed the ID of another session (`net_ids`); one that kicks deletes
the session that the service's thread is working on; a `connect()` that fails
at once gives back an ID and leaves the descriptor watched under it; `Stop()`
may clear a byte of the pointer in slot `MAX_SOCK_EVENT`. `net_safe` is the same
statement on a small instance.

The invariants hold each other up, and none is inductive alone. `SafeInv` adds
to them:

- `QueueInv`: an ID is in the queue once, or held by one session, where what
  holds an ID is said by the life of the object and, for a connector, by how far
  `AddTCPConnector` and the connection have come (`HoldsID`);
- `SlotInv`: a slot's pointer leads to a session whose ID is the slot's, and
  every live session is in its slot;
- `HeapInv` and `BacklogInv`: the descriptor lives as long as the object, and a
  connection that waits for `accept()` is in no table yet;
- `EpollInv`, `EventInv` and `HandlerInv`: epoll watches live sessions alone; an
  event of the batch, or the handler in progress, is the only claim to a session that epoll
  still watches. This is why deleting a session in a handler leaves no event
  behind that leads to it;
- `CallerInv`: during `AddTCPConnector` the service's thread stays in `OnUpdate`,
  so the ID that the call looked at is still the first when it pops it.

The argument has a lemma per action that changes the tables (`AcceptSafe`,
`ReadFailsSafe`, `RecvFromNewSafe`, `CallPopsSafe`, ...), and `ControlSafe` and
`NetworkSafe` for the actions that do not. They share lemmas about the
operations: `PopTakes`, `PushPuts`, `TakesID`, `GivesID` and `FrontToEnd` (the
queue), `NewSessionSafe` (an ID taken, an object allocated, its slot filled),
`EraseSafe` (`DelSession` and `KickSession`) and `ReportSafe` (an end that is
reported). `SafeInvImplies` derives what the runs check.

Five corollaries state the parts by themselves: `NeverFaults`, `SessionsAreOwned`,
`UdpMapIsExact`, `PointersAreLive` and `ViewIsExact`.

`NetSafetyProofs!KeepsProtocol`: under the same assumption the back end implements
`SessionProtocol`. Because `ApplicationViewExact` makes what the application was told a
function of the table, most actions change nothing the abstract specification sees.
The rest need two more invariants: what an announcing callback reports is open under
its ID (`AnnounceInv`), and a connector whose OnConnected is to come has not had it
before, since epoll watches it for `EPOLLOUT` only until then (`OnceInv`). Each action then
maps to one abstract step or to a stutter, in a lemma of its own.

### The IOCP back end

`IocpProofs` has two invariants, because half of what the runs check does not depend
on the application. TLC checked both on the constants of `iocp_safe` first.

`KernelSafe`: `Spec => []KernelInv`, for every application, kicks of any session
and `Stop()` included, and any calls that fail. It says what the kernel, the port and the
handler in progress may have of one session or context at the same time: a session
has one receive, pending, completed or in hand (`ReadInv`); a connection waits in the
backlog or in one packet, and is not known to the service before `DoAccpet`
(`WaitInv`); a connector has one `ConnectEx`, and nothing else until `DoConnect`
(`ConnectInv`); a context is pending, completed, free or in hand (`ContextInv`); and
a session has its ID before the service works with it (`IdInv`). `IocpTypes`,
`GivenOnce` and `ContextsAreBounded` follow. None of these is inductive alone: that `PostRead`
gives the kernel a second receive is excluded by where the handler got its session
from, and that needs the types of every packet of an unbounded queue (`PortInv`).
The queue is reasoned about with two predicates, `Has(port, M)` and `AtMostOne(port, M)`, for the
packets `M` of one operation, and lemmas on what `Append`, `Tail` and `\o` do to them.

`SessionsSafe`: `KicksPeersOnly => (Spec => []SafeInv)`. `KicksPeersOnly` is the
application that `iocp_safe` checks: it connects, kicks UDP peers and does not call `Stop()`.
The code needs it: `KickSession` of an accepted connection deletes it while the packet of
its receive may be in the port, and of a connector it gives back an ID that `DoRead` of
that packet still uses; `Stop()` may clear a byte of the pointer in slot
`MAX_SOCK_EVENT`. `SafeInv` adds to `KernelInv` that the IDs are shared out between
the queue and their holders (`QueueInv`), that what is allocated is in the table with
its descriptor open or its peer in the map (`TableInv`), that what a packet or a
handler leads to is allocated (`LiveInv`), and that the application knows what has been
announced and not yet ended (`AppInv`). `NeverFaults`, `IdsAreConserved` and
`SessionsAreOwned` follow, and `KeepsProtocol`: the back end implements
`SessionProtocol`. The lemmas about the ID queue, a new session and `KickSession` are
those of the epoll back end, in `SessionProofs`.

### The rings

`CommonLemmas` proves what the rest rests on: lengths and room computed from wrapped
positions are exact, a store moves them by what was copied, `RoundUpPowOfTwo` picks the
least power of two, and, since the size divides the modulus, byte `i` from a position is
in slot `(pos + i) % size` and distinct bytes of the ring are in distinct slots.

`RingBufferProofs`, for any threads, sizes, lengths and resets, from
`RingAssumption`: `Types`, `RoomIsKept`, `NoneLeftInside` and `RoundsUpAlways`. The
strengthening says who holds the lock where, and that only the holder moves a
position: the room or the bytes that a call was cut to can then only be its own to
use. `RingBufferProofs!IsAFifo` adds what a call that has copied leaves: the writer's
bytes in the slots from `m_uIn` on, the reader's locals equal to the oldest bytes.
The store is then the abstract write or read, and every other step a stutter.

`RingSpscProofs`, from the assumption of `RingBufferSpsc`: `Types`, `NeverTheSameByte`
(`CopiesApart`), `AnswersAreKept` (`AnswersHold`) and `IsAFifo`. There is no lock, so the
invariant says of each side what the other may rely on: the bytes in the ring and those
of the `WriteData` call in progress fit together, and what was copied so far is where
it goes (`WriterInv`); what the `ReadData` or `ResetOut` call in progress takes off is in the
ring, and was copied as it is (`ReaderInv`); an answer that allowed a call still allows it
(`AnswerInv`). Each side moves its own position alone, the writer only ever adds bytes and
the reader only ever makes room, so neither breaks the other's part, and the two
copies never meet.

### The timer wheel

`WheelProofs`, from `WheelAssumption`: there are at least two lists of each kind, an `int`
holds more than 0, and no
delay exceeds half of the range of `m_uTime`, as no positive `int` does. `WheelSafe`:
`Spec => []WheelInv`, for every initial time. The lists are called by
names, and `WheelInv` says which thread state allows which (`ThreadInv`), that no timer is in two
lists or twice in one (`Linked`), and for each timer of a list

- in a near list, that it is due in this turn of the near lists, at the time of the
  list's index, and not before `m_uTime`;
- in a list of level 0, that it is due in this turn of the first level and after the
  near lists' next start;
- in a list of level 3, that `AddTimer` did not find it in its own turn, so that
  nothing is claimed of it (`timer_lost` shows why); levels 1 and 2 are empty;
- in hand, that it is due now, or, in `MoveList`, that the near lists start anew and it
  goes to one of them, or is of another turn (`InWheel`, `InHand`).

So the induction over the ticks, from when a timer is added to when it is due, is
carried by what its place says of its due time. The arithmetic is that of quotients by
`TIME_NEAR` and by the spans of the levels, for numbers that are products
(`QuotientTwice`, `NearTurns`), and of the tick that wraps (`NextTime`, `NextTurn`);
`Shifted` says which list `TimerShift` moves. `WheelTypes`, `OneListEach`, `NoneLeftBehind`
and `DueWhenFired` follow: the types, `LinkedOnce`, `SameTurnOnTime` and `FiresWhenDue`.

## What is only checked, and what is not modelled

Liveness, fairness and `ENABLED` are out of the proof system's reach: `net_live`'s
properties, `BacklogIsDrained`, `CloseIsReported` and `StopEndsThread` of `iocp_live`,
`Finishes`, `SameTurnFires` and `OnlyDueTimersKeepIt` are checked by TLC alone.

Not modelled:

- `NetServiceIocp` with calls from other threads: the ID queue and the table race as
  under epoll (`net_ids`), and `AddTCPListener`'s accepts race with the thread on
  `m_queIOContext`; the model has both listeners added before the thread's first turn.
- `Sock::Send` and `SendTo`, which applications call and the back ends do not: a loop
  over the bytes left that spins on `EAGAIN`, and keeps nothing between two calls.
  `SendWorker` is empty.
- `Reset()` of the lock-free ring, which its header marks unsafe; `TryLock`, which nothing
  calls and which answers the opposite in `AtomSpinLock` of what it does in `SpinLock`;
  `Cancel()` of a timer, which is empty.
- The object pools and the hash ID generator: one thread, and no caller in the engine.
  The generator's faults are listed under the hazards.
- The Redis and Lua code: conversions and calls to external libraries on one thread, with
  no state but their pointers.
- The logger, a wrapper of spdlog, and the CPU cost timer: no state another part depends on.
- The vendored code under `src/include` and `src/lib`.

## Plan

1. Of `NetServiceIocp`, the largest set of applications for which `SafeInv` holds: one that
   kicks connectors whose receive has not completed, for instance.
2. `HashIdGen` against a reference set of IDs, once a part of the engine uses it.
