----------------------------- MODULE ChatSystem -----------------------------
(***************************************************************************)
(* Clients and the chat server.  Of the server's network layer only what   *)
(* Session, RecvRing and SendRing show of it is kept: the requests of a    *)
(* connection are handled in order, its answers arrive in order, it ends   *)
(* with OP_CLOSE.  The logic thread resets the slot, which then accepts    *)
(* again, before it gives OP_CLOSE to ChatServer.  OP_CONNECTION is handled *)
(* at any time while the connection lasts, after its first requests too.   *)
(* The server may close a connection at any time.                          *)
(* Of the clients on Elsewhere only what they ask of the server is here.   *)
(***************************************************************************)
EXTENDS ChatClient, FiniteSets

CONSTANTS IDs, EmptyID, MaxRoomCount,
  Elsewhere, \* connections of other clients
  MaxUnread, \* packets a client has not handled when others have one sent to it
  MaxLost    \* the server ends at most the first MaxLost connections of a client

ASSUME SystemAssumption ==
  /\ MaxLost \in Nat /\ MaxUnread \in Nat /\ MaxRoomCount \in Nat
  /\ Slots \cap Elsewhere = {}

VARIABLES
  UserState, UserID, RoomNumber, Users, UserIDs, Rooms, out,  \* of ChatServer
  announced, \* the slots whose OP_CONNECTION was handled
  closing    \* the slot reset for the OP_CLOSE the logic thread is to handle

Server == INSTANCE ChatServer WITH
  Conns <- Slots \cup Elsewhere,
  IsEchoTestMode <- FALSE

tables == <<UserState, UserID, RoomNumber, Users, UserIDs, Rooms>>
vars == <<clientVars, tables, out, announced, closing>>

Init == ClientInit /\ Server!Init /\ announced = {} /\ closing = {}

\* The packets of out' for slot s; a notification is sent before an answer.
SentTo(s) ==
  LET packets == {p \in out' : p.to = s}
      plain(p) == [kind |-> p.kind, result |-> p.result] IN
  SetToSeq({plain(p) : p \in {q \in packets : q.kind = "notify"}})
    \o SetToSeq({plain(p) : p \in {q \in packets : q.kind # "notify"}})

\* What is sent on a connection that is no more, or that nobody reads, is lost.
Deliver ==
  /\ down' = [c \in Clients |->
       IF sock[c].state = "up" /\ Open(c) THEN down[c] \o SentTo(sock[c].slot) ELSE down[c]]
  /\ old' = [c \in Clients |->
       IF OldOpen(c) THEN [old[c] EXCEPT !.down = @ \o SentTo(old[c].slot)] ELSE old[c]]

HandleRequest(s, request) ==
  CASE request.kind = "login" -> Server!ProcessPacketLogin(s, request.arg)
    [] request.kind = "enter" -> Server!ProcessPacketRoomEnter(s, request.arg)
    [] request.kind = "new" -> Server!ProcessPacketRoomNew(s)
    [] request.kind = "leave" -> Server!ProcessPacketRoomLeave(s)
    [] request.kind = "chat" -> Server!ProcessPacketRoomChat(s)

\* OP_RECV_PACKET.
HandlePacket(s) ==
  /\ closing = {} /\ link[s].up # <<>> /\ Head(link[s].up) # Close
  /\ HandleRequest(s, Head(link[s].up))
  /\ link' = [link EXCEPT ![s].up = Tail(@)]
  /\ Deliver
  /\ UNCHANGED <<form, sock, reader, sender, recvQ, sendQ, announced, closing>>

\* The messages of other clients' connections, those that are not refused.
HandleElsewhere(s) ==
  /\ closing = {}
  /\ \/ Server!ConnectConnection(s)
     \/ Server!DisconnectConnection(s)
     \/ \E id \in IDs : Server!ProcessPacketLogin(s, id)
     \/ Server!ProcessPacketRoomNew(s)
     \/ \E r \in RoomNumbersTyped : Server!ProcessPacketRoomEnter(s, r)
     \/ Server!ProcessPacketRoomLeave(s)
     \/ /\ \A c \in Clients : Len(down[c]) + Len(old[c].down) + Len(recvQ[c]) < MaxUnread
        /\ Server!ProcessPacketRoomChat(s)
  /\ tables' # tables \/ \E p \in out' : p.to # s
  /\ Deliver
  /\ UNCHANGED <<form, sock, reader, sender, recvQ, sendQ, link, announced, closing>>

\* OP_CONNECTION, which ConnCheck drops once IsConnect is cleared.
HandleConnection(s) ==
  /\ closing = {} /\ link[s].state \in {"accepted", "left"} /\ s \notin announced
  /\ Server!ConnectConnection(s)
  /\ announced' = announced \cup {s}
  /\ UNCHANGED <<clientVars, closing>>

\* DoPostClose: the slot is reset and accepts again.
Reset(s) ==
  /\ closing = {} /\ link[s].up # <<>> /\ Head(link[s].up) = Close
  /\ link' = [link EXCEPT ![s] = FreeSlot]
  /\ announced' = announced \ {s} /\ closing' = {s}
  /\ UNCHANGED <<form, sock, old, reader, sender, recvQ, sendQ, down, tables>>
  /\ out' = {}

\* OP_CLOSE.
HandleClose(s) ==
  /\ s \in closing
  /\ Server!DisconnectConnection(s)
  /\ closing' = {}
  /\ UNCHANGED <<clientVars, announced>>

\* The server, or the network, ends a connection; a reset may overtake what was
\* under way to the client.
Ended(stream) == {stream \o <<Fin>>, <<Rst>>}

ServerCloses(s) ==
  LET c == link[s].owner
      n == link[s].n IN
  /\ link[s].state = "accepted" /\ n <= MaxLost
  /\ \E rest \in Cut(link[s].up) :
       link' = [link EXCEPT ![s] = [@ EXCEPT !.up = rest, !.state = "closed"]]
  /\ IF n = sock[c].n
     THEN \E stream \in Ended(down[c]) : down' = [down EXCEPT ![c] = stream]
     ELSE down' = down
  /\ IF n = old[c].n
     THEN \E stream \in Ended(old[c].down) : old' = [old EXCEPT ![c].down = stream]
     ELSE old' = old
  /\ UNCHANGED <<form, sock, reader, sender, recvQ, sendQ, announced, closing, tables>>
  /\ out' = {}

\* No handler runs: out, the packets of one, is empty.
NoHandler == out' = {} /\ UNCHANGED <<tables, announced, closing>>

\* The server is followed while a form is open.
Followed == \E c \in Clients : form[c].pc \notin {"join", "gone", "crashed"}

ServerStep(s) ==
  HandlePacket(s) \/ HandleConnection(s) \/ Reset(s) \/ HandleClose(s) \/ ServerCloses(s)

Next ==
  \/ \E c \in Clients : ClientStep(c) /\ NoHandler
  \/ \E s \in Slots : Followed /\ ServerStep(s)
  \/ \E s \in Elsewhere : Followed /\ HandleElsewhere(s)

Spec == Init /\ [][Next]_vars

----------------------------------------------------------------------------
(* Properties.                                                             *)

\* Nothing of c's is under way, at the client or between it and the server.
Settled(c) ==
  /\ form[c].pc = "idle" /\ sendQ[c].items = <<>> /\ recvQ[c] = <<>>
  /\ sender[c].packet = NoPacket /\ reader[c].got = <<>>
  /\ down[c] = <<>> /\ link[sock[c].slot].up = <<>> /\ sock[c].slot \notin closing

StatusOf == [NONE |-> "NONE", CONNECT |-> "NONE", LOGIN |-> "LOGIN", ROOM |-> "ROOM"]

\* The status the buttons go by is the server's, for a connected client with
\* nothing under way: requests refused, packets cleared from the queues and
\* users of the slot before never leave it wrong.  Only a packet of an earlier
\* connection, left in RecvPacketQueue, can.
Agreed ==
  \A c \in Clients :
    sock[c].state = "up" /\ Open(c) /\ Settled(c) /\ ~form[c].mixed
      => form[c].status = StatusOf[UserState[sock[c].slot]]

\* The messages of a room reach the UI while it shows the room: none comes
\* before the answer that lets the user in or after the one that lets him out.
NotifiedInRoom ==
  \A c \in Clients :
    recvQ[c] # <<>> /\ FormAt(c, "idle") /\ ~form[c].connect /\ Head(recvQ[c]).kind = "notify"
      /\ Head(recvQ[c]).n = sock[c].n /\ ~form[c].mixed
      => form[c].status = "ROOM"

\* FormClosing joins the threads without a time limit: none of them may then be
\* in a receive that nothing is going to end.  It closes Sock alone; a receiver
\* in an earlier socket is left to the server, and comes only of a user who
\* connected again because a notice of an earlier connection came late.
Unblocked ==
  \A c \in Clients :
    FormAt(c, "join") /\ (Receiving(c) \/ ReceivingOld(c)) => form[c].late
=============================================================================
