# TLA+ models of HSIOCP

HSIOCP is a chat server on Windows I/O completion ports (C++), with a WinForms
client (C#). This directory holds TLA+ modules for both, the TLC configurations
that check them, and proofs for TLAPS.

    tlc -config Session_requests.cfg MCSession      # any run of PROJECT.json
    tlapm SessionProofs.tla                         # the proofs

## 1. The system

    peers <-> Winsock <-> Connection (x MAX_CONNECTION_COUNT)
                              |  ^
           completions        |  | PostRecv, PostSend, CloseConnection
        m_hWorkIOCP           v  |
           WorkThread (2 per core): DoAccept, DoRecv, DoSend
                              |
           messages (MessagePool), m_hLogicIOCP
                              v
           PostMessagesThreadFunction (x POST_MESSAGES_THREADS_COUNT)
                              -> ChatServer's handlers -> SendPacket

| Component | State | Operations | Hard behaviour | What makes it correct |
|---|---|---|---|---|
| Connection slots and worker threads (`NetLib/Connection*`, `IOCPServer`) | socket, three I/O reference counts, IsConnect, IsClosed, IsSendable, two OVERLAPPED_EX | accept, receive, send, close, reset, re-arm | any number of workers and handlers on one slot at once; a completion may be handled long after the state it was posted in | the counts are exact; one close at a time; no slot is lost; a slot is armed again after its client left |
| Message pool and logic queue (`MessagePool`, `PostLogicMsg`, `ProcessNetworkMessages`) | free messages, queued messages | allocate, post, dispatch, free | the pool runs out, the port refuses a post | no message leaks; no close is lost; the application agrees with the slot |
| Send ring (`RingBuffer`, `PostSend`, `DoSend`) | marks, used size, IsSendable | reserve, count, take, release | handlers and workers hand the sender's role to one another; wraps | each byte is sent once, in order; one sender; nothing stays unsent |
| Receive ring and framing (`RingBuffer`, `PostRecv`, `DoRecv`, `DoPostRecvPacket`) | marks, received and remaining bytes | receive, split into packets, move the rest at a wrap | packets queued for the application still lie in the ring | the application reads the bytes the peer sent |
| Chat application (`HSIOCP/ChatServer`) | users, names, rooms | connect, disconnect, login, new, enter, leave, chat | notices and packets of reused slots in any order | the tables agree; every answer follows from where the users are |
| Start and stop (`StartServer`, `EndServer`, `~ChatServer`, `Performance`) | handles, threads, run flags | start, stop | any step of the start fails; threads blocked on ports that are being closed | every thread ends, nothing is used after it is freed |
| Logging (`LogManager`, spdlog's asynchronous logger and daily file) | a bounded queue, the file, the time of the next rotation | write a line, rotate, flush, end | server threads wait in a full queue; a rotation fails | no line is lost or doubled; nobody waits for ever; what is written is flushed |
| Client (`Client/ChatClient`) | status, two queues, socket | connect, request, receive, send, disconnect, close | three threads on unlocked state; a connection lost and replaced | status follows the answers; the window closes |
| Client receive buffer (`PacketBufferManager`) | the bytes, two positions | write, read, relocate | packets cut anywhere | the packets the server sent |
| Configuration, MiniDump | files | - | - | - |

Interactions: workers and handlers share `Connection` through interlocked
fields, a few plain ones and `m_MUTEX`; workers hand messages to the logic
threads through the second completion port; handlers call `SendPacket`, which
runs `Connection`'s code on the logic thread. Every thread of the server writes
to the log. Client and server share two byte streams.

The hazards these interactions carry are listed, each at its line and with the
properties aimed at it, under "hazards" in `PROJECT.json`.

## 2. The modules

| Module | Models | State |
|---|---|---|
| `Session` | slots, workers, logic threads, message pool, sockets and completions | `conn` (the fields of Connection), `sock`, `workQ`, `logicQ`, `pool`, `th` (program counters), `app` (m_Users) |
| `MCSession` | instances of `Session` | a budget for the clients |
| `SessionProofs` | theorems about `Session` | |
| `SendRing` | one connection's send ring | the marks as offsets, `used`, `sendable`, `open`, `wire` (what WSASend reads), `pending` (history: where the unsent bytes lie), `crowded` (history) |
| `MCSendRing`, `SendRingProofs` | an instance of it; theorems | |
| `PacketChannel` | abstract: packets are handed over whole, once, in order | `line`, `out` |
| `RecvRing` | one connection's receive ring and the framing; refines `PacketChannel` | the marks as offsets, the byte at each offset, `remain`, `next`, `msgs`, `held`; `uncopied` and `crowded` (history) |
| `ClientBuffer` | the client's receive buffer and the loop over it; refines `PacketChannel` | `data`, `readPos`, `writePos`, `dropped` |
| `MCRecvRing`, `MCFraming` | an instance of `RecvRing`; both ends in one run | `end` (which one a behaviour is of) |
| `ClientBufferProofs`, `RecvRingProofs` | theorems about the two; the second uses the lemmas of the first about packets in a stream | |
| `ChatService` | abstract: what the chat server promises | `at` (where each client is), `out` |
| `ChatServer` | the application's tables and handlers; refines `ChatService` | as in the code |
| `MCChatServer`, `ChatServerProofs` | an instance of it; theorems | |
| `ServerLife`, `MCServerLife`, `ServerLifeProofs` | starting and stopping; an instance; theorems | `main` and the threads (program counters), ports, run flags, `freed` |
| `AsyncLog`, `MCAsyncLog`, `AsyncLogProofs` | the log's queue and helper thread; an instance; theorems | `queue`, `caller` and `helper` (program counters), `rotation`, `fd` |
| `ChatClient` | the client's three threads | `form`, `reader`, `sender`, `recvQ`, `sendQ`, `sock`, `old` (a socket that was replaced), and the streams `down` and `link` |
| `ChatSystem`, `MCChatSystem`, `ChatSystemProofs` | composes `ChatClient` and `ChatServer`; an instance; theorems | those of both, `announced`, `closing` |

### Session

A thread is a program counter on a connection; an action is one access to the
state the threads share, with the private computation before the next access
folded in. The names of the actions are those of the methods, or of the step of
a method (`Close`, `Hangup`, `Cas` are the three steps of CloseConnection).
`PROJECT.json` maps each to its lines.

Abstractions, and why they are sound for what is checked:

- Packets have no content. A receive completes with up to `MaxPackets` packets,
  possibly followed by a wrong one; a handler answers up to `MaxSends` packets,
  to any connections (a chat message is answered to all the room).
- `Close` reads the three counts and the socket in one step. A decrement is two
  steps, the test of the count (`Dequeue`, `TakeBack`) and the decrement itself
  (`Decrement`): a reset may come between them.
- `Deliver` that fails after it allocated frees the message in the same step.
- `Rearm` is one step: it runs under `m_MUTEX`. The counts and flags it does not
  protect are written by `Reset`, a step before it. WSASocket and AcceptEx may
  fail, as may CreateIoCompletionPort and GetAcceptExSockaddrs (`Bind`), where
  `CallsFail` says that calls fail for no reason of the peer's.
- Completions are a bag (the port promises no order to several threads);
  messages are a queue.
- The sockets of a slot have `Handles` names so that an old and a new session of
  a slot can be told apart. WSASocket fails when all are open.
- PostRecv's branch for a full ring is not taken (see `RecvRing`). Each slot
  starts armed.
- `hasty` marks a slot that was once reset with an operation, a completion,
  another thread or an OP_CLOSE of its own still under way. It is history: no
  guard reads it, and only `IOAccounting` and `OneSocket` speak of it.
- The counts are DWORDs: they wrap at `RefModulus`.

The logic port is created with a concurrency of one, and the configuration
starts five threads on it: as long as no handler blocks, the port runs one at a
time (`OneLogic`); a handler that blocks lets a second run (`TwoLogics`).

### SendRing

One connection until it closes. What a byte is does not matter, only where it
lies and whether it was copied. CopyMemory and SetUsedBufferSize are one step,
as other threads only see the second. A send of a part is followed by a send of
the rest of the same stretch, so `wire` does not change. `Prepare` takes whatever
ForwardMark finds room for, which is a matter of sizes: a packet may be given
room over bytes not sent yet. `crowded` is history: it says that this has
happened. `Full` is the branch that closes the
connection. After a close (`HangUp` for any other reason) sends fail, nothing is
released, and IsSendable stays clear; `Session` models the rest. GetBuffer may
compute a length below 0 once two wraps overtook it: WSASend takes it for 4 GB and
fails, which closes the connection. Any number of handlers; the logic port
admits one at a time as long as none blocks.

### RecvRing and PacketChannel

One connection that lives on, its receives and its messages. When no message can
be had or posted (`PostFails`) DoRecv returns without another receive, and the
connection stalls; `HandedOver` names that end. A byte is its packet's number
and its place in the packet, so that a length field split by the ring, or
overwritten, reads as a wrong one. A packet of length 0 stands for every wrong
one: it stops the worker, and the properties speak of the packets sent before it
(how the connection ends is in `Session`). The code never calls
SetUsedBufferSize on this ring: its used size stays 0 and the test for a full
ring never holds. Nothing bounds what the client sends, what waits to be copied,
or the length of a packet short of the ring's size. Where PostRecv would move a
rest onto itself, or leave WSARecv less of the ring than it is told to fill, the
behaviour is undefined, and the model stops there (`"undefined"`); `TypeOK` says
for which lengths it does not come to that. One logic thread dequeues and
copies, in two steps. `uncopied` counts the bytes received and not copied out,
and `crowded` says that a receive was once posted while they, two receives and
the longest rest of a packet did not fit the ring; both are history.
`PacketChannel` is a queue of packets that may be declared lossy, after which it
promises nothing; the mapping derives the queue from what was sent and how much
was copied, takes the packet handed over from the bytes copied, and `crowded`
for lossy.

### ChatServer and ChatService

Each handler is one action. Notices and packets of a slot come in any order,
because `Session` lets them. `ChatService` keeps only where each client is and
derives the rest (names taken, members of a room); `ChatServer!Whereabouts` is
the refinement mapping. Requests of a wrong size are dropped by the code without
an answer (`Ignore`). In echo mode (`IsEchoTestMode`, chosen once) every packet
of that kind is sent back (`ProcessPacketEcho`) and nothing else is handled,
which `ChatService` sees as `Echo` and `Silent`. Room numbers below -1 are not
enumerated: the code indexes a vector out of bounds there, which has no meaning
to model.

### ServerLife

`main` steps through StartServer, the constructor of ChatServer, Run, EndServer
and the destructors; every step that may fail may fail. The constructor's result
is not looked at: whatever failed, the program waits for a key and then stops,
from wherever it came. What a worker or a logic thread does with a completion is
one step here; where it waits, on which port, and which flag it polls are kept.
A port that cannot be created is NULL while the code tests INVALID_HANDLE_VALUE,
so the start goes on: linking the listening socket fails without the work port,
and nothing fails without the logic port; a call on such a port returns at once.
Closing a port makes the waits on it return. `Throws` is an exception nobody
catches: stoi on the ini file, or a thread that cannot be created.

### AsyncLog

LogManager's file logger: a mutex and two condition variables around a bounded
queue (`mpmc_bounded_queue`), a helper that pops, writes, and flushes when the
interval has passed, and `daily_file_sink`'s rotation. A step is a critical
section, a notification, or one access of the helper to its sink. Opening a file
may fail (after its retries it throws; the helper's handler drops the line),
writing too. The wait for an item has a time limit, after which the helper looks
whether a flush is due. spdlog is third-party code; these files are modelled
because the server's threads block in them. The logger of the console is the
same without a rotation. The clock is never set back.

### ChatClient and ChatSystem

The UI thread (`form`), the thread that receives and the one that sends, one
action per access to what they share. Packets are whole: the receive buffer is
`ClientBuffer`. `SendPacketQueue` is a `Queue<T>` that the UI thread fills
without the lock under which the sender takes: it is modelled as its elements
and a count kept apart from them, as in .NET; a count may be lost, and then
Dequeue returns null or throws, and the program ends (`Crash`). The socket may be
closed under the receiver; a receive on a disposed socket throws.

`ChatSystem` puts a `ChatServer` behind the sockets. Of the network layer it
keeps what the other modules show: requests of a connection are handled in
order, its answers arrive in order, OP_CLOSE comes last, the slot accepts again
after it, and OP_CONNECTION may be handled late. The server or the network may
end a connection at any time; what was under way may be cut. Other clients
appear as what they ask of the server (`Elsewhere`), their refused requests left
out. The logic thread resets a slot for OP_CLOSE first (`Reset`) and gives it to
the application after that (`HandleClose`): a client may be connected to the
slot in between, its user's predecessor not yet forgotten.

btnConnect is enabled by any notice of a lost connection, one of an earlier
connection included, and btnConnect_Click tests nothing else: Connect replaces
`Sock` without closing it, whether the new one gets connected or not. A receiver
inside the replaced socket stays there (`old`) until the server ends that
connection or something arrives on it; a replaced socket nobody is in is closed
when .NET collects it, some time (`Collect`).

Two variables of the form are history, for the properties only. `mixed`: the
client handled a packet of an earlier connection, or connected before it handled
the end of one. `Agreed` and `NotifiedInRoom` do not hold then, as
RecvPacketQueue is cleared only when a disconnect is handled. `late`: a notice
of a lost connection was handled while a socket was up, which is the
only way the user comes to press Connect with one.

### ClientBuffer

PacketBufferManager, driven by the loop of NetworkReadProcess, on one
connection. A byte is its packet's number and its place, as in `RecvRing`. A
receive that does not fit is dropped, as in the code, and `dropped` says so: what
is read afterwards depends on the values of the bytes in between, and is not
modelled. `BufferAssumption` is what Init tests (a buffer of two packets), and no
more: receives may be longer than packets, as the program's are (4096 and 1024).
With such sizes receives are dropped (see section 3). Nothing
clears the buffer between two connections: a packet cut
by the end of one is left in front of the next one's first; the model has one.

## 3. What is checked

| Run | Instance | Shows |
|---|---|---|
| `requests` | 1 slot, 3 workers, 1 logic thread, 2 handles; clients without end, no answers | `AppAgrees`: a quiet slot is connected exactly when the application says so. `Rearmed`: a slot whose client left is armed again. `Forgotten`: a client that left is forgotten |
| `replies` | 1 slot, 2 workers, 1 logic thread, answers, 3 client steps | `CloseOnce`: IsClosed is set exactly while one close is under way. `AppWillHear`: a user whose connection is gone will be told. Of a slot never reset early, `IOAccounting`: the counts are what is outstanding, a receive and a send at once included; `OneSocket`: no socket leaks, an OVERLAPPED_EX has one user |
| `exhausted` | 1 message, 2 logic threads, posts, AcceptEx, WSASocket and the binding of a socket may fail, 2 client steps | `TypeOK`, `PoolConservation`: no message is lost. `ClosePending`: no claimed close is lost |
| `chat` | 3 users, 3 IDs with the empty one, 2 rooms | `RoomsAgree`, `UsersAgree`, `IDsAgree`, `UniqueIDs`, and `Implements` |
| `framing` | server: ring of 20 bytes, receives of 4, 5 packets of 2 or 5 bytes or wrong, length fields that arrive whole; client: buffer of 10 bytes, receives of up to 4, 5 packets of 2 or 3 bytes | `TypeOK`: a receive stays in the ring. `Intact`: until the ring was crowded a posted packet is not overwritten before it is copied. `Framed`: no right packet is taken for a wrong one, and a wrong one only after all before it are posted. `Implements`: until then the packets arrive whole, once and in order. `HandedOver`: each without another one being sent. `ClientImplements`, `ClientReads`: the same two of the client, until a receive is dropped. `DroppedIsLong`: a receive no longer than a packet is never dropped |
| `sending` | ring of 5 bytes, sends of 2, packets of up to 2, 2 handlers, 2 workers, a close at any time | until a packet did not fit before the oldest byte, `NoOverwrite` and `InOrder`; whatever happens, `OneSender`: the sender's role has one owner, and `UsedExact`: the used size is what is in the ring |
| `lifecycle` | 2 workers, up to 2 logic threads, every ini file, 2 completions queued | `EnoughWakeups`: no worker is left waiting without a wake-up. `Serving`: a server that started keeps its threads and its port. `OutlivesThreads`: nothing is destroyed under a thread. `Ends`: the program ends once a key is pressed |
| `asynclog` | 2 writers of 2 lines each, a queue of 2, 2 midnights | `Lossless`: lines reach the sink once and in their writer's order. `NeverNull`: no write without a file. `Returns`: nobody waits for room for ever. `Flushed`: what is written is flushed |
| `chatsystem` | 1 client that connects at most 3 times and clicks at most 4 times, its slot, another client's connection, 1 room | `Agreed`: the status is the server's when nothing is under way. `NotifiedInRoom`: notices of a room come while the client shows it. `Unblocked`: no thread that FormClosing joins is left in Receive, unless a notice came late |

And runs in which the code does not do what a comment or a message of it says;
TLC prints the shortest behaviour:

| Run | Violates | What happens |
|---|---|---|
| `dead_slot` | `NoDeadSlot` | the last outstanding operation is a send that succeeded: DoSend does not look whether the slot is being closed, and nobody does afterwards |
| `short_first` | `Framed` | the first byte of a packet arrives alone: DoRecv has no length to read, says it is 0 and closes the connection |
| `lost_wakeup` | `NothingUnsent` | a packet is counted after GetBuffer found nothing and its claim refused before IsSendable is set again |

More behaviours contradict what the code says or plainly means, and have no run of
their own; TLC finds each in the model as it is, by checking the formula given
as an invariant.

- `Session`, `\A t \in Threads : At(t, "reset") => ~Outstanding(th[t].c)`.
  CloseConnection closes the socket alone where operations are outstanding,
  "until all are handled" (Connection.cpp:36). A second thread that closes finds
  no socket, wins IsClosed and has the slot reset while they still are; `hasty`
  records it.
- `Session`, `NoDrop` left out of `ClosedByOne`. Connection.cpp:44 says that
  closing is processed once; when OP_CONNECTION cannot be posted, DoAccept
  resets the slot without taking IsClosed, while a worker that handles the
  aborted receive may take it.
- `SendRing`, `open => Apart`. ForwardMark compares sizes and no marks, and
  forgets what is reserved and not counted and the bytes left unused before a
  wrap: a packet that fits by its sizes is written over bytes that are not sent
  yet, where Connection.cpp:238 would say that the ring is full. `crowded`
  records it.
- `RecvRing`, `Undamaged`. ForwardMark tests a used size that nothing counts up
  on this ring, so "RecvRingBuffer Full" (Connection.cpp:129) is never found for
  this reason, and a receive is posted over packets that wait to be copied. With
  sizes of 2 and 5 bytes in a ring of 20, seven packets do it.
- `ClientBuffer`, `~dropped`. With 1024 to 4095 bytes left there is room for a
  packet, so NextFree does not relocate the buffer; a longer receive is dropped,
  and NetworkReadProcess ignores that Write returns false.
- `ChatSystem`, `form[c].connect => sock[c].state # "up"` of an idle form. The
  receiver queues the end of a connection after the user has disconnected and
  connected again; the form says that the new connection is lost
  (MainForm.cs:243) and offers to connect. Whoever does leaves a socket behind
  that FormClosing does not close.

### Bounds

One slot is enough for what one slot does: the slots share only the pool, the
queues and the threads, and a slot sees another only as fewer messages (the
`exhausted` run) or a busy thread. The invariants of `requests` were also
explored with two slots (1.3 million states), which is too slow to keep as a
run. Three workers cover an accept, a receive and a send of one slot handled at
once; two handles let an old session overlap a new one. `RefModulus` 4 makes a
wrap visible in a few steps and exceeds the counts reached without one.
Once a slot has been reset early the counts may wrap, and the states become too
many for endless clients: the runs with answers limit the connects and requests
(`Budget`). Three are a connect, a request and the connect of the next client,
which is what the long counterexamples need. `Backlog` makes clients wait while
as many packets are queued, and bounds `logicQ`.

In `replies` two operations of a slot are under way at once, a receive and a
send, both aborted by a close, and a slot may be reset with either outstanding.
`requests` has none of this: without answers a slot has one thing under way at a
time, so it says nothing of the hazards that need two, but there the clients
need no bound, and it is about what must go on for ever. With answers
`NoDeadSlot` and so `Rearmed` are false (`dead_slot`), and with calls that fail
for no reason a slot whose AcceptEx failed is never armed again.

In `SendRing` a ring of 5 bytes wraps at every second or third packet, with
tails of every length, and is full after two: all ways of being nearly full
occur, with one handler's packet reserved and the other's counted. `lost_wakeup`
has a larger one. With two handlers `SentCopied` fails, as a packet counted may
lie behind one reserved earlier and still being copied; the logic port keeps
handlers apart as long as none blocks.

In `RecvRing` the packets bring the ring round: five of five bytes are more than
the 20 of the ring. As the logic thread may do nothing all the while, the ring
is crowded in most behaviours, and properties about damage hold up to there;
that the bound named by `Tight` is the right one is shown by the proof and not
only by these sizes. Packets are two bytes (the length only) or longer than a
receive, so that both two packets in a receive and two receives for a packet
happen. With the configured sizes (10240 and 1024) a connection is crowded when
some thousands of bytes wait. In `ClientBuffer` receives are longer than
packets, as in the program, and the buffer holds two and a rest (`TwoReceives`),
as the program's 80960 bytes do; five packets relocate it, and drop a receive.
`MCFraming` only joins the two ends, which share nothing, in one run: a
behaviour is of one or the other.

In `ServerLife` two threads of a kind are needed for a wake-up or a null
connection to go to one and not to the other; `MaxQueue` 2 lets completions lie
before the wake-ups. In `AsyncLog` two writers and the main thread can all wait
for a queue of two; two midnights let a rotation fail and the next one succeed.
In `ChatSystem` three connects are one, the next of the same slot, and one that
replaces it after a late notice, and four clicks leave one request: a login is
refused or granted, on whichever of them. With fewer connects the clicks are a
login, a room and one thing more. `MaxLost` 2 has the server end the first two
connections only, `MaxUnread` and `MaxDisconnects` bound the packets sent to a
client by others and the notices of a lost connection queued, `MaxRecv` the
packets of one receive. The server is followed while a form is open. `VIEW
AllButOut` leaves out the packets of the last handler, which every step sets and
no step reads. 2 million states.

`CHECK_DEADLOCK FALSE`: with a budget, or after the last of `MaxPackets` or of
the clicks, the clients stop, and the system rests; in `SendRing` a lost wake-up
or a close stops the sender for good, and in `RecvRing` an undefined step is the
last.

### Fairness

`Session!Fairness` gives weak fairness to each thread (the scheduler runs every
thread that can run, and a completion queued is dequeued) and to the end of an
operation whose peer has left (Winsock completes it). `RecvRing!Fairness` is the
same, and what was sent arrives. Clients owe nothing: they
may stay silent for ever. `ServerLife` asks it of each thread and of the steps of
the main thread that stop the server; nobody has to press a key, and the start
may take for ever. `AsyncLog` asks it of each writer that began to write, of the
helper, of the time that passes and of the main thread's join; not of writing or
of midnight. `BufferFairness`: the thread that receives runs and what was sent
arrives. `ChatSystem` states safety only. Strong fairness is nowhere needed.

## 4. What is proved

For any number of slots, threads, messages, users and rooms, with only the
named assumptions of the modules (`SessionAssumption`, `ChatAssumption`, ...):

- `SessionProofs!TypeCorrect`: `TypeOK`. Inductive by itself; a lemma per group
  of actions types `conn`, `th` and the rest. Its second conjunct, that a handler
  about to prepare a packet has one to send, is what keeps the count of packets
  a natural number.
- `SessionProofs!CloseNeverLost`: `ClosePending`. With `TypeOK` it is inductive.
  The argument: most steps leave IsClosed, the closing threads and the queued
  OP_CLOSE alone (`Aside`); `Cas` sets the flag and makes its thread a carrier;
  each closing step hands the close on, to the next step or to the queue, whether
  the post succeeds or not; `Reset` clears the flag; only a close of the head of
  the queue is popped, and its thread becomes the carrier.
- `ChatServerProofs!Agreement`: the conjunction of the five invariants, none of
  which is inductive alone. RoomsAgree needs the type (where RoomNumber points),
  IDsAgree needs UniqueIDs when someone leaves, UniqueIDs needs IDsAgree when
  someone logs in. `RoomsMatch`, `UsersMatch`, `IDsMatch` and `OneUserPerID`
  state the parts.
- `ChatServerProofs!Implementation`: every step of `ChatServer` is a step of
  `ChatService` under `Whereabouts`, using the invariant to show that the derived
  notions (members, names taken) are what the tables hold.
  In echo mode it needs `EchoInvariant`: every user's state stays NONE there.
- `ServerLifeProofs!Serves` and `NothingFreedEarly`: `Serving` and
  `OutlivesThreads`. The invariant says what is there at each step of the start
  and that m_IsSuccessStartServer implies all of it (`StartSoFar`), that workers
  run only on an open port (`WorkersServe`), that logic threads end only for a
  null connection or after the flag was cleared, and that no null connection is
  queued before EndServer posted it (`LogicsServe`, `Queues`), and in which
  order the parts are destroyed. With `ServerLifeAssumption` only.
- `AsyncLogProofs!AlwaysAFile`: `NeverNull`. While there is no file the next
  rotation stays due, because its time is set after the file was opened and the
  clock is never set back.

- `AsyncLogProofs!NothingLost`: `Lossless`. A writer's lines in its hand and in
  the queue are numbered consecutively from its first line that is not done
  (`AllNumbered`). What ends the helper thread is queued only when nobody writes
  any more, so it is behind every line (`LastOfAll`).

- `SessionProofs!PoolConserved`: `PoolConservation`. A free message is in nobody's
  hands: each step moves at most one message, from the pool to the thread that
  took it, from there into the queue, from the queue to the handler that pops it,
  and back. The sets are finite, which `SessionAssumption` asks for, and their
  sizes add up to the messages.
- `SessionProofs!ClosedByOne`: `CloseOnce`, as long as `NoDrop`: no post of
  OP_CONNECTION fails. Where one does, DoAccept resets the slot without taking
  IsClosed, and the property is false (the hazard at `IOCPServer.cpp:650`).
  Posts of OP_CLOSE may fail, calls may fail for any reason (`CallsFail`),
  answers may be under way and the counts may wrap. The invariant (`Sole`) says
  that of the threads past the claim and the OP_CLOSE messages of a slot there
  is at most one, and none while IsClosed is clear; `Onward` says where a thread
  may go on to after a decrement, which keeps it from entering the close in the
  middle.
- `SessionProofs!EveryCloseHeard`: `AppWillHear`, for one logic thread, as long
  as `AllPosted`: each post of a message finds a free one and succeeds, which is
  asked of the steps and not of the states. The logic port lets one handler run
  (with two, one that found the slot connected may announce it after the other
  has handled its close), and a close whose post fails resets the slot without
  telling the application. The invariant (`HearInv`) adds the handler that is
  about to announce, says that a close on its way is in one of the steps of
  `Hearing` or queued (`Hears`), and that only a handler of an OP_CLOSE resets a
  slot (`Errand`).
- `ServerLifeProofs!AllWoken`: `EnoughWakeups`. The invariant (`Wakeups`) counts:
  the workers that may still begin to wait are no more than the wake-ups posted
  and not yet taken. No worker begins to wait once it was told to stop, and one
  that takes a wake-up does not wait again, so both sides fall together.
- `SendRingProofs`: `TypeCorrect`, `SenderAlone`, `NeverOverwritten`,
  `SentInOrder` and `CountExact` (`TypeOK`, `OneSender`, `NoOverwrite`,
  `InOrder`, `UsedExact`), for any number of handlers and workers and a ring of
  any size, with `RingAssumption` only. The code keeps the unsent bytes whole
  until a packet does not fit: then it wraps over them or closes the connection,
  `crowded` records it, and NoOverwrite and InOrder speak of the time before
  (section 3 says what comes of it). The other three hold ever after. The
  invariant says of which of three shapes the ring is (`Straight`: the unsent
  bytes lie in one stretch; `Wrapped`: in two, the second at the start; `Spent`:
  the sender has the first stretch taken and wraps next) while it is open and
  was never crowded (`Shape`), where the bytes being sent lie in it (`OnWire`),
  and that the used size is what is reserved and counted and not released
  (`Counted`). `SentWhenCopied` (`SentCopied`) says, for one handler, that no
  byte is sent while it is still being copied: the bytes counted are then the
  first ones and those copied (`CopiedFirst`). With two it is false.
- `ClientBufferProofs!OnlyLongDropped`: `DroppedIsLong`. In a buffer of two
  receives and the rest of a packet (`TwoReceives`), only a receive longer than
  a packet is ever dropped: behind what was written there is room for a packet
  (what NextFree looks for) or for any receive (what a relocation leaves), which
  is `Room`. `Implementation`: until a receive is dropped (`dropped`) the
  client's buffer refines `PacketChannel`. The invariant describes the stream of
  bytes from the read position on (`FramedBy`) without recursion over it: it
  begins with a first byte and ends with a last byte, behind each first byte
  lies the whole packet, and after each packet begins the next.
  `BufferAssumption` is what PacketBufferManager.Init tests and no more.
- `RecvRingProofs`: `StreamKept`, the inductive invariant that holds whatever
  happens (types, where the marks may be, what messages say of the bytes they
  announce, the same stream as in `ClientBuffer`, and what closes the
  connection); `TypeCorrect` (`TypeOK`, packets up to the ring's size included);
  and `ClosedForWrong` (`Framed`) if a first receive brings the length field
  whole, without which the code takes a right packet for a wrong one
  (`short_first`). `CrowdedOrUndamaged` (`Intact`) and `HandsOver`
  (`Implements`, the refinement of `PacketChannel`) say, for any number of
  packets waiting, that nothing is damaged before a receive is posted while the
  ring is `Tight`: what waits, two receives and the longest packet less one byte
  do not fit. The invariant (`LoadKept`) adds that until then the bytes not
  copied out are still in the ring as they were received (`Content`), and that
  they lie in one stretch or in two passes over the ring, the older one ahead of
  the receive mark (`Geometry`).

- `ChatSystemProofs`: `Agreement` (`Agreed`), `NoticesInRoom` (`NotifiedInRoom`)
  and `NobodyBlocked` (`Unblocked`), for any number of clients, slots, users and
  rooms. Every packet is a step of the status, and a notice only a step from
  ROOM to ROOM (`Step`). The invariant (`OnTheWay`) says that what waits in
  RecvPacketQueue, what Receive returned and what is on the stream, in this
  order, is one chain of such steps from the status the form shows to the one
  the server has the user in, as long as the connection is open and the client
  is not `mixed`. A slot that was reset and whose OP_CLOSE is still at hand
  stands for nobody, though the tables still have its user (`Standing`, and
  `Alone`: there is one such slot). A handler of the server appends to the chain
  exactly the steps it makes in the tables (`Serves`, which needs RoomsAgree and
  UsersAgree again); receiving, queueing and handling move the cut between its
  parts (`ChainSplit`, `ChainConcat`, `ChainHead`); a new connection makes what
  is left of an earlier one foreign to it (`ChainOf`). The rest of it says whose
  a slot is (`Linked`), that only a connection given up ends its stream
  (`StillOpen`), and that a notice of a lost connection is true (`Notices`). For
  `NobodyBlocked` it follows the one path on which the receiver is left in a
  socket the form has no reference to any more: a late notice enables the
  connect button and the user presses it (`Shown`, `Behind`). The theorem says
  that FormClosing waits for ever on no other path; its first step, the button
  enabled over a connection that is up, is among the behaviours of section 3.
  `SystemAssumption` asks that the other clients' slots are none of these.

Only model-checked: all liveness (`Rearmed`, `Forgotten`, `HandedOver`,
`ClientReads`, `Ends`, `Returns`, `Flushed`), which rests on fairness, that is
on ENABLED, and the prover cannot reach it; and `IOAccounting`, `OneSocket`,
`NoDeadSlot` and `AppAgrees`. These four are about the operations of a slot in
flight together. The counts tell what is under way only until a reset comes
before the answer's completion, and what holds after that depends on which
operation the slot's next client makes when; `replies` explores it.

The theorems need no hypothesis beyond the assumptions of the modules, but where
they state one: `NoDrop` (ClosedByOne), `AllPosted` and one logic thread
(EveryCloseHeard), one handler (SentWhenCopied), a first receive of the whole
length field (ClosedForWrong). What a property excuses (`crowded`, `dropped`,
`late`, `mixed`) is recorded by the model at the step of the code that brings it
about; section 3 says what happens then.

## 5. Not modelled, and the plan

Not modelled: the contents of the ini file beyond what starting depends on (the
values are constants here), the number Performance counts, MiniDump (it writes a
file when the process is over), the texts and lists the client shows, DevLog,
the client's echo button, and of spdlog everything but the asynchronous path of
the daily file: formatting and the bundled fmt library, other sinks, colours and
other platforms, which are most of the lines of the repository, are third-party
code, and hold no state of the server's. Also not modelled: overlapping handlers
of `ChatServer` (the logic port admits one thread at a time), what the code does
where it leaves its arrays (room numbers below -1, packets longer than the
handlers' buffer) and after an undefined step of `RecvRing`: an access out of
bounds has no meaning that a model could give it. What the client's buffer does
with a stream it has dropped a part of, and with what an earlier connection left
in it, is not followed either.

What is left, in this order:

1. A `SlotService`, what a slot promises the application, that `Session`
   implements until a slot is reset early; an invariant of the operations in
   flight together that would prove `IOAccounting` and `OneSocket`.
2. The client's buffer after a drop and over several connections.
