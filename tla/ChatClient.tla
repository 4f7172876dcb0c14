----------------------------- MODULE ChatClient -----------------------------
(***************************************************************************)
(* The WinForms client: the UI thread of MainForm, the thread that         *)
(* receives, the thread that sends, and what they share without locks: the *)
(* socket, the status, the two queues.  A link is the connection a client  *)
(* has to a slot of the server, a FIFO stream each way; ChatSystem says    *)
(* what the server does with it.  Packets are whole here: what             *)
(* PacketBufferManager keeps between two receives is part of the stream.   *)
(*                                                                         *)
(* Queue<T> counts its elements apart from the positions of its head and   *)
(* tail.  The UI thread uses SendPacketQueue without the lock that the     *)
(* sender takes, and the count may come out wrong; the array of the queue  *)
(* does not grow here.                                                     *)
(***************************************************************************)
EXTENDS Integers, Sequences, SequencesExt

CONSTANTS
  Clients,      \* the programs
  Slots,        \* the server's connections
  IDsTyped,     \* the user IDs typed
  RoomNumbersTyped, \* the room numbers typed
  MaxConnects,  \* times a user connects, at most
  MaxClicks,    \* connections and requests a user makes, at most
  MaxRecv,      \* packets one Receive returns at most
  MaxDisconnects \* notices of a lost connection queued at most

ASSUME ClientAssumption ==
  /\ MaxConnects \in Nat /\ MaxClicks \in Nat
  /\ MaxRecv \in Nat \ {0} /\ MaxDisconnects \in Nat \ {0}

VARIABLES
  form,    \* what the UI thread owns: form, buttons, status
  sock,    \* Sock: the slot it is connected to, and which connection it is
  old,     \* the socket before that Receive is still in, if there is one
  reader,  \* NetworkReadThread
  sender,  \* NetworkSendThread
  recvQ,   \* RecvPacketQueue
  sendQ,   \* SendPacketQueue: its elements, their count, and how far its head
           \* is past its tail
  down,    \* what is under way to each client
  link     \* the slots: what is under way to the server, and whose it is

clientVars == <<form, sock, old, reader, sender, recvQ, sendQ, down, link>>

Nobody == "nobody"
Close == [kind |-> "close"]
NoPacket == [kind |-> "null"]
Disconnectd == [kind |-> "SYSTEM_CLIENT_DISCONNECTD", result |-> "NONE"]
Fin == [kind |-> "fin", result |-> "NONE"]
Rst == [kind |-> "rst", result |-> "NONE"]
Ends == {Fin, Rst}

Requests == [kind: {"login"}, arg: IDsTyped] \cup [kind: {"enter"}, arg: RoomNumbersTyped]
            \cup [kind: {"new", "leave", "chat"}]

FreeSlot == [up |-> <<>>, owner |-> Nobody, n |-> 0, state |-> "free"]
ASlot == CHOOSE s \in Slots : TRUE
NoSocket == [n |-> 0, slot |-> ASlot, down |-> <<>>]
EmptyQueue == [items |-> <<>>, count |-> 0, past |-> 0]

ClientInit ==
  /\ form = [c \in Clients |->
       [pc |-> "idle", status |-> "NONE", connect |-> TRUE, running |-> TRUE,
        mixed |-> FALSE, late |-> FALSE, posts |-> 0]]
  /\ sock = [c \in Clients |-> [state |-> "none", slot |-> ASlot, n |-> 0]]
  /\ old = [c \in Clients |-> NoSocket]
  /\ reader = [c \in Clients |-> [pc |-> "top", n |-> 0, got |-> <<>>]]
  /\ sender = [c \in Clients |-> [pc |-> "top", packet |-> NoPacket]]
  /\ recvQ = [c \in Clients |-> <<>>]
  /\ sendQ = [c \in Clients |-> EmptyQueue]
  /\ down = [c \in Clients |-> <<>>]
  /\ link = [s \in Slots |-> FreeSlot]

\* Sock.Connected: as of the last operation on the socket.
IsConnected(c) == sock[c].state \in {"up", "fin"}

FormAt(c, pc) == form[c].pc = pc
ReaderAt(c, pc) == reader[c].pc = pc
SenderAt(c, pc) == sender[c].pc = pc
Crashed(c) == FormAt(c, "crashed")

\* The sender holds the lock of RecvPacketQueue from Dequeue to Send.
Locked(c) == sender[c].pc \in {"take", "send"}

\* Receive is in Sock, and in an earlier socket that was connected.
Receiving(c) == ReaderAt(c, "receive") /\ reader[c].n = sock[c].n /\ sock[c].state = "up"
ReceivingOld(c) == old[c].n # 0

\* The server still has the n-th connection of c open, in slot s.
Holds(s, c, n) == link[s].owner = c /\ link[s].n = n /\ link[s].state = "accepted"
Open(c) == Holds(sock[c].slot, c, sock[c].n)
OldOpen(c) == ReceivingOld(c) /\ Holds(old[c].slot, c, old[c].n)

\* What is left of a stream whose sender closes: some of what it sent.
Cut(q) == {SubSeq(q, 1, k) \o <<Close>> : k \in 0..Len(q)}

\* The client's end of a connection is closed.
Leave(s) ==
  \E rest \in Cut(link[s].up) :
    link' = [link EXCEPT ![s] = [@ EXCEPT !.up = rest, !.state = "left"]]

HangUp(c) ==
  /\ down' = [down EXCEPT ![c] = <<>>]
  /\ IF sock[c].state = "up" /\ Open(c)
     THEN Leave(sock[c].slot)
     ELSE link' = link

----------------------------------------------------------------------------
(* The UI thread.                                                          *)

Clicks(c) == sock[c].n + form[c].posts

\* Connect makes a new socket, which is Sock whether it gets connected or not.
\* One that was connected is not closed: Receive, if it is in it, stays in it.
Connect(c) ==
  /\ FormAt(c, "idle") /\ form[c].connect
  /\ sock[c].n < MaxConnects /\ Clicks(c) < MaxClicks
  /\ \/ \E s \in Slots :
          /\ link[s].state = "free"
          /\ link' = [link EXCEPT ![s] =
               [up |-> <<>>, owner |-> c, n |-> sock[c].n + 1, state |-> "accepted"]]
          /\ sock' = [sock EXCEPT ![c] = [state |-> "up", slot |-> s, n |-> @.n + 1]]
          /\ form' = [form EXCEPT ![c].connect = FALSE, ![c].mixed = form[c].status # "NONE"]
     \/ /\ sock' = [sock EXCEPT ![c].state = "none", ![c].n = @ + 1]
        /\ UNCHANGED <<form, link>>
  /\ \/ Receiving(c) /\ old' = [old EXCEPT ![c] =
          [n |-> sock[c].n, slot |-> sock[c].slot, down |-> down[c]]]
     \/ old' = old
  /\ down' = [down EXCEPT ![c] = <<>>]
  /\ UNCHANGED <<reader, sender, recvQ, sendQ>>

\* A connected socket that nothing refers to any more is closed: it is collected,
\* or the program is no more.
Collect(c) ==
  /\ \E s \in Slots :
       /\ Holds(s, c, link[s].n) /\ link[s].n # sock[c].n
       /\ link[s].n = old[c].n => Crashed(c)
       /\ Leave(s)
  /\ UNCHANGED <<form, sock, old, reader, sender, recvQ, sendQ, down>>

\* The element at the head, null if there is none.
First(q) == IF q.items = <<>> THEN NoPacket ELSE Head(q.items)

\* SetDisconnectd clears both queues, without a lock: Dequeue may already have
\* the element, and write its count after the queue was cleared.
SetDisconnectd(c, pc, late) ==
  /\ recvQ' = [recvQ EXCEPT ![c] = <<>>]
  /\ \/ sendQ' = [sendQ EXCEPT ![c] = EmptyQueue] /\ sender' = sender
     \/ /\ SenderAt(c, "take") /\ sendQ[c].count > 0
        /\ sendQ' = [sendQ EXCEPT ![c] = [EmptyQueue EXCEPT !.count = sendQ[c].count - 1]]
        /\ sender' = [sender EXCEPT ![c] = [pc |-> "send", packet |-> First(sendQ[c])]]
  /\ form' = [form EXCEPT ![c].pc = pc, ![c].status = "NONE", ![c].connect = TRUE,
                         ![c].late = @ \/ late]

\* btnDisconnect.
Disconnect(c) ==
  /\ FormAt(c, "idle") /\ ~form[c].connect
  /\ SetDisconnectd(c, "close", FALSE)
  /\ UNCHANGED <<sock, old, reader, down, link>>

\* Network.Close.
CloseSocket(c) ==
  IF IsConnected(c)
  THEN /\ HangUp(c)
       /\ sock' = [sock EXCEPT ![c].state = "closed"]
  ELSE UNCHANGED <<down, link, sock>>

DisconnectCloses(c) ==
  /\ FormAt(c, "close")
  /\ CloseSocket(c)
  /\ form' = [form EXCEPT ![c].pc = "idle"]
  /\ UNCHANGED <<old, reader, sender, recvQ, sendQ>>

\* The buttons that make a request, and what each asks of the status.
Allowed(c, kind) ==
  \/ kind = "login"
  \/ kind \in {"new", "enter"} /\ form[c].status = "LOGIN"
  \/ kind \in {"leave", "chat"} /\ form[c].status = "ROOM"

\* Enqueue writes at the tail, which may be behind the head; the count is out by
\* lost.
Put(q, packet, lost) ==
  IF q.past > 0 THEN [q EXCEPT !.past = @ - 1, !.count = @ + 1 + lost]
  ELSE [q EXCEPT !.items = Append(@, packet), !.count = @ + 1 + lost]

\* PostSendPacket.  If Dequeue runs at the same time, either may overwrite the
\* count of the other.
Post(c) ==
  /\ FormAt(c, "idle") /\ IsConnected(c) /\ Clicks(c) < MaxClicks
  /\ \E request \in Requests, lost \in IF SenderAt(c, "take") THEN {-1, 0, 1} ELSE {0} :
       /\ Allowed(c, request.kind)
       /\ sendQ' = [sendQ EXCEPT ![c] = Put(@, request, lost)]
  /\ form' = [form EXCEPT ![c].posts = @ + 1]
  /\ UNCHANGED <<sock, old, reader, sender, recvQ, down, link>>

\* Mutant: a refused request is taken for a granted one.
StatusAfterAny(status, packet) ==
  CASE packet.kind \in {"login", "leave"} -> "LOGIN"
    [] packet.kind \in {"new", "enter"} -> "ROOM"
    [] OTHER -> status

\* Mutant: the answer to a request to enter a room is not handled.
StatusAfterSome(status, packet) ==
  CASE packet.kind \in {"login", "leave"} /\ packet.result = "SUCCESS" -> "LOGIN"
    [] packet.kind = "new" /\ packet.result = "SUCCESS" -> "ROOM"
    [] OTHER -> status

\* PacketHandler.Process, of a packet of the server.
StatusAfter(status, packet) ==
  CASE packet.kind \in {"login", "leave"} /\ packet.result = "SUCCESS" -> "LOGIN"
    [] packet.kind \in {"new", "enter"} /\ packet.result = "SUCCESS" -> "ROOM"
    [] OTHER -> status

\* A tick of the timer takes one packet and handles it.
Tick(c) ==
  /\ FormAt(c, "idle") /\ recvQ[c] # <<>> /\ ~Locked(c)
  /\ recvQ' = [recvQ EXCEPT ![c] = Tail(@)]
  /\ LET packet == Head(recvQ[c]) IN
     form' = [form EXCEPT
       ![c].mixed = @ \/ packet.n # sock[c].n,
       ![c].pc = IF packet.kind = Disconnectd.kind THEN "disconnectd" ELSE @,
       ![c].status = StatusAfter(@, packet)]
  /\ UNCHANGED <<sock, old, reader, sender, sendQ, down, link>>

\* The lock is given back before the notice of a lost connection is handled; it
\* may be that of an earlier connection.
TickDisconnectd(c) ==
  /\ FormAt(c, "disconnectd")
  /\ SetDisconnectd(c, "idle", sock[c].state = "up")
  /\ UNCHANGED <<sock, old, reader, down, link>>

\* Mutant: FormClosing stops the threads and leaves the socket alone.
CloseFormOnly(c) ==
  /\ FormAt(c, "idle")
  /\ form' = [form EXCEPT ![c].pc = "join", ![c].running = FALSE]
  /\ UNCHANGED <<sock, old, reader, sender, recvQ, sendQ, down, link>>

\* FormClosing: close the socket, stop the threads, join them.
CloseForm(c) ==
  /\ FormAt(c, "idle")
  /\ CloseSocket(c)
  /\ form' = [form EXCEPT ![c].pc = "join", ![c].running = FALSE]
  /\ UNCHANGED <<old, reader, sender, recvQ, sendQ>>

Join(c) ==
  /\ FormAt(c, "join") /\ ReaderAt(c, "ended") /\ SenderAt(c, "ended")
  /\ form' = [form EXCEPT ![c].pc = "gone"]
  /\ UNCHANGED <<sock, old, reader, sender, recvQ, sendQ, down, link>>

----------------------------------------------------------------------------
(* The thread that receives.                                               *)

\* An exception no thread catches ends the program.
Crash(c) ==
  /\ form' = [form EXCEPT ![c].pc = "crashed"]
  /\ HangUp(c)
  /\ sock' = [sock EXCEPT ![c].state = "closed"]

\* Receive may be called on a later socket than the one that was tested.
ReaderLoop(c) ==
  /\ \/ /\ ReaderAt(c, "top") /\ ~form[c].running
        /\ reader' = [reader EXCEPT ![c].pc = "ended"]
     \/ /\ \/ ReaderAt(c, "top") /\ form[c].running
           \/ ReaderAt(c, "receive") /\ reader[c].n # sock[c].n /\ ~ReceivingOld(c)
        /\ IsConnected(c)
        /\ reader' = [reader EXCEPT ![c] = [@ EXCEPT !.pc = "receive", !.n = sock[c].n]]
  /\ UNCHANGED <<form, sock, old, sender, recvQ, sendQ, down, link>>

\* Receive returns the first k packets of a stream, to be queued one by one.
Returns(c, stream, k) ==
  /\ k <= Len(stream) /\ \A i \in 1..k : stream[i] \notin Ends
  /\ reader' = [reader EXCEPT ![c] = [@ EXCEPT !.pc = "queue", !.got = SubSeq(stream, 1, k)]]

Receive(c) ==
  /\ Receiving(c)
  /\ \E k \in 1..MaxRecv :
       /\ Returns(c, down[c], k)
       /\ down' = [down EXCEPT ![c] = SubSeq(@, k + 1, Len(@))]
  /\ UNCHANGED <<form, sock, old, sender, recvQ, sendQ, link>>

\* It is not called again on an earlier socket.
ReceiveOld(c) ==
  /\ ReceivingOld(c)
  /\ \E k \in 1..MaxRecv : Returns(c, old[c].down, k)
  /\ old' = [old EXCEPT ![c] = NoSocket]
  /\ UNCHANGED <<form, sock, sender, recvQ, sendQ, down, link>>

\* Receive returns nothing or throws: the peer closed, or the socket is not
\* connected yet or is of no more use; only a reset clears Sock.Connected.
ReceiveEnds(c) ==
  LET ends(stream) == stream # <<>> /\ Head(stream) \in Ends IN
  /\ ReaderAt(c, "receive")
  /\ Receiving(c) => ends(down[c])
  /\ ReceivingOld(c) => ends(old[c].down)
  /\ reader' = [reader EXCEPT ![c] = [@ EXCEPT !.pc = "queue", !.got = <<Disconnectd>>]]
  /\ sock' = IF Receiving(c)
             THEN [sock EXCEPT ![c].state = IF Head(down[c]) = Fin THEN "fin" ELSE "dead"]
             ELSE sock
  /\ old' = [old EXCEPT ![c] = NoSocket]
  /\ UNCHANGED <<form, sender, recvQ, sendQ, down, link>>

\* The socket was disposed before Receive was called: ObjectDisposedException.
ReceiveThrows(c) ==
  /\ ReaderAt(c, "receive") /\ ~ReceivingOld(c) /\ sock[c].state = "closed"
  /\ Crash(c)
  /\ UNCHANGED <<old, reader, sender, recvQ, sendQ>>

\* The packets are queued one at a time.
QueueReceived(c) ==
  /\ ReaderAt(c, "queue") /\ ~Locked(c)
  /\ LET packet == Head(reader[c].got)
         rest == Tail(reader[c].got)
         notices == SelectSeq(recvQ[c], LAMBDA p : p.kind = Disconnectd.kind) IN
     /\ recvQ' = IF packet = Disconnectd /\ Len(notices) >= MaxDisconnects THEN recvQ
                 ELSE [recvQ EXCEPT ![c] = Append(@,
                        [kind |-> packet.kind, result |-> packet.result, n |-> reader[c].n])]
     /\ reader' = [reader EXCEPT ![c] =
          IF rest = <<>> THEN [pc |-> "top", n |-> 0, got |-> <<>>] ELSE [@ EXCEPT !.got = rest]]
  /\ UNCHANGED <<form, sock, old, sender, sendQ, down, link>>

----------------------------------------------------------------------------
(* The thread that sends.                                                  *)

SenderLoop(c) ==
  /\ SenderAt(c, "top")
  /\ \/ /\ ~form[c].running
        /\ sender' = [sender EXCEPT ![c].pc = "ended"]
     \/ /\ form[c].running /\ IsConnected(c) /\ sendQ[c].count > 0
        /\ sender' = [sender EXCEPT ![c].pc = "take"]
  /\ UNCHANGED <<form, sock, old, reader, recvQ, sendQ, down, link>>

\* Dequeue moves the head, past the tail if there is nothing.
Taken(q) ==
  IF q.items = <<>> THEN [q EXCEPT !.past = @ + 1, !.count = @ - 1]
  ELSE [q EXCEPT !.items = Tail(@), !.count = @ - 1]

Dequeue(c) ==
  /\ SenderAt(c, "take") /\ sendQ[c].count > 0
  /\ sender' = [sender EXCEPT ![c] = [pc |-> "send", packet |-> First(sendQ[c])]]
  /\ sendQ' = [sendQ EXCEPT ![c] = Taken(@)]
  /\ UNCHANGED <<form, sock, old, reader, recvQ, down, link>>

\* The queue was cleared since it was tested: InvalidOperationException.
DequeueThrows(c) ==
  /\ SenderAt(c, "take") /\ sendQ[c].count = 0
  /\ Crash(c)
  /\ UNCHANGED <<old, reader, sender, recvQ, sendQ>>

\* Send: once the server has closed, it succeeds in vain or fails, which clears
\* Sock.Connected; null is measured only if the socket is connected.
Send(c) ==
  /\ SenderAt(c, "send")
  /\ sender[c].packet = NoPacket => ~IsConnected(c)
  /\ sender' = [sender EXCEPT ![c].pc = "top", ![c].packet = NoPacket]
  /\ \/ /\ sock[c].state = "up" /\ Open(c)
        /\ link' = [link EXCEPT ![sock[c].slot].up = Append(@, sender[c].packet)]
        /\ sock' = sock
     \/ /\ IsConnected(c) /\ ~(sock[c].state = "up" /\ Open(c))
        /\ sock' \in {sock, [sock EXCEPT ![c].state = "dead"]}
        /\ link' = link
     \/ ~IsConnected(c) /\ UNCHANGED <<sock, link>>
  /\ UNCHANGED <<form, old, reader, recvQ, sendQ, down>>

\* The length of null: NullReferenceException.
SendThrows(c) ==
  /\ SenderAt(c, "send") /\ sender[c].packet = NoPacket /\ IsConnected(c)
  /\ Crash(c)
  /\ UNCHANGED <<old, reader, sender, recvQ, sendQ>>

----------------------------------------------------------------------------
UserStep(c) == Connect(c) \/ Disconnect(c) \/ Post(c) \/ CloseForm(c)

FormStep(c) ==
  DisconnectCloses(c) \/ Tick(c) \/ TickDisconnectd(c) \/ Join(c)

ReaderStep(c) ==
  /\ ~Crashed(c)
  /\ \/ ReaderLoop(c) \/ Receive(c) \/ ReceiveOld(c) \/ ReceiveEnds(c)
     \/ ReceiveThrows(c) \/ QueueReceived(c)

SenderStep(c) ==
  /\ ~Crashed(c)
  /\ \/ SenderLoop(c) \/ Dequeue(c) \/ DequeueThrows(c)
     \/ Send(c) \/ SendThrows(c)

ClientStep(c) ==
  UserStep(c) \/ FormStep(c) \/ ReaderStep(c) \/ SenderStep(c) \/ Collect(c)
=============================================================================
