------------------------------- MODULE Session -------------------------------
(***************************************************************************)
(* The life of the connection slots of HSIOCP's NetLib: the reference      *)
(* counts and flags of Connection, the worker threads of IOCPServer that   *)
(* dequeue I/O completions, the logic threads that dequeue messages and    *)
(* run the application's handlers, and the message pool between them.      *)
(*                                                                         *)
(* A thread is a program counter on one connection.  One action is one     *)
(* access to the state the threads share; what a thread does between two   *)
(* such accesses is folded into the first.  The operating system (sockets, *)
(* completion ports, the peers) is external and is modelled by what the    *)
(* code relies on.  Packets have no content here: a completed receive      *)
(* holds any number of packets up to MaxPackets, possibly followed by a    *)
(* wrong one, and a handler answers with up to MaxSends packets.           *)
(***************************************************************************)
EXTENDS Naturals, Sequences, FiniteSets

CONSTANTS
  Conns,        \* the connection slots, MAX_CONNECTION_COUNT of them
  Workers,      \* threads running WorkThread
  Logics,       \* threads running PostMessagesThreadFunction
  Handles,      \* socket handles one slot can have open at a time
  MsgCount,     \* messages in the pool: MAX + EXTRA_MESSAGE_POOL_COUNT
  SendSlots,    \* packets that fit the send ring
  MaxPackets,   \* packets one receive completes at most
  Backlog,      \* clients send while fewer packets than this are queued
  MaxSends,     \* packets a handler sends at most
  RefModulus,   \* reference counts are unsigned: they wrap at this value
  CallsFail     \* whether calls fail that the peer gives no reason to fail

NoSocket == 0

ASSUME SessionAssumption ==
  /\ Conns # {}
  /\ Workers \cap Logics = {}
  /\ IsFiniteSet(Workers) /\ IsFiniteSet(Logics)
  /\ Handles \in Nat \ {0}
  /\ MsgCount \in Nat
  /\ SendSlots \in Nat \ {0}
  /\ MaxPackets \in Nat
  /\ Backlog \in Nat
  /\ MaxSends \in Nat
  /\ RefModulus \in Nat \ {0, 1}
  /\ CallsFail \in BOOLEAN

VARIABLES
  conn,     \* the fields of each Connection and its ConnectionInfo; hasty is
            \* history: it was once reset with something else of it under way
  sock,     \* the sockets of each slot and the operations pending on them
  workQ,    \* completions queued on m_hWorkIOCP, how many of each kind
  logicQ,   \* messages queued on m_hLogicIOCP
  pool,     \* messages left in the MessagePool
  th,       \* where each thread is
  app       \* the slots the application believes connected (m_Users)

vars == <<conn, sock, workQ, logicQ, pool, th, app>>

Threads == Workers \cup Logics
IOKinds == {"accept", "recv", "send"}
PeerStates == {"closed", "fresh", "up", "down"}
\* The two OVERLAPPED_EX of a slot: AcceptEx and WSARecv share the first.
Overlapped == {"recv", "send"}
Statuses == {"data", "empty", "failed"}
Completions == [c: Conns, ovl: Overlapped, status: Statuses]
Messages == [op: {"connection", "close", "packet"}, c: Conns]

PCs == {"idle",
        "decrement",
        "bind", "setConnect", "announce",
        "deliver",
        "checkConnect", "incRecv", "wsaRecv",
        "sent", "setSendable", "claim", "take", "unclaim", "wsaSend",
        "close", "hangup", "cas", "clearConnect", "disconnect", "postClose",
        "dropConn", "reset", "rearm",
        "prepare", "commit",
        "connCheck", "appConnect", "appClose"}

----------------------------------------------------------------------------
(* The kernel's part: sockets and completions.                             *)

ClosedSocket == [peer |-> "closed", accept |-> 0, recv |-> 0, send |-> 0]

\* The completion queue with n more completions of kind (c, ovl, status).
Queue(q, c, ovl, status, n) ==
  [q EXCEPT ![[c |-> c, ovl |-> ovl, status |-> status]] = @ + n]

Refs(c) == conn[c].ref.accept + conn[c].ref.recv + conn[c].ref.send

\* InterlockedIncrement and InterlockedDecrement of a DWORD.
Incremented(n) == (n + 1) % RefModulus
Decremented(n) == (n + RefModulus - 1) % RefModulus

----------------------------------------------------------------------------
(* Threads.                                                                *)

\* A thread between two calls of GetQueuedCompletionStatus.
IdleThread == [pc |-> "idle", c |-> CHOOSE c \in Conns : TRUE, n |-> 0,
               op |-> "none", then |-> "idle", msg |-> FALSE]

Goto(t, pc) == th' = [th EXCEPT ![t].pc = pc]

\* A handler with n more packets to send, to connections not chosen yet.
Preparing(n) == [IdleThread EXCEPT !.pc = "prepare", !.n = n]

\* Where a thread is once the call it made on its connection has returned: a
\* worker back at GetQueuedCompletionStatus, a handler at its next packet.
Returned(t) ==
  IF t \in Logics /\ th[t].n > 0
  THEN Preparing(th[t].n)
  ELSE IdleThread

Return(t) == th' = [th EXCEPT ![t] = Returned(t)]

At(t, pc) == th[t].pc = pc

\* m_MUTEX of connection c is held: only ResetConnection spans two steps.
Locked(c) == \E t \in Threads : At(t, "rearm") /\ th[t].c = c

----------------------------------------------------------------------------
InitConn == [sock |-> 1, isConnect |-> FALSE, isClosed |-> FALSE,
             isSendable |-> TRUE,
             ref |-> [accept |-> 1, recv |-> 0, send |-> 0],
             recvOp |-> "accept", unsent |-> 0, taken |-> 0, hasty |-> FALSE]

\* CreateConnections has armed every slot with an AcceptEx.
Init ==
  /\ conn = [c \in Conns |-> InitConn]
  /\ sock = [c \in Conns |->
               [h \in 1..Handles |->
                  IF h = 1 THEN [ClosedSocket EXCEPT !.peer = "fresh", !.accept = 1]
                           ELSE ClosedSocket]]
  /\ workQ = [e \in Completions |-> 0]
  /\ logicQ = <<>>
  /\ pool = MsgCount
  /\ th = [t \in Threads |-> IdleThread]
  /\ app = [c \in Conns |-> FALSE]

----------------------------------------------------------------------------
(* Connection: closing and re-arming a slot.                               *)

\* Mutant: closesocket is forgotten, m_ClientSocket only set to INVALID_SOCKET.
DisconnectLeaks(c) ==
  /\ ~Locked(c)
  /\ conn' = [conn EXCEPT ![c].sock = NoSocket]
  /\ UNCHANGED <<sock, workQ>>

\* DisconnectConnection: what is pending on the socket is aborted.
Disconnect(c) ==
  LET h == conn[c].sock IN
  /\ ~Locked(c)
  /\ IF h = NoSocket
     THEN UNCHANGED <<conn, sock, workQ>>
     ELSE /\ conn' = [conn EXCEPT ![c].sock = NoSocket]
          /\ sock' = [sock EXCEPT ![c][h] = ClosedSocket]
          /\ workQ' = Queue(Queue(workQ, c, "recv", "failed",
                                  sock[c][h].accept + sock[c][h].recv),
                            c, "send", "failed", sock[c][h].send)

\* CloseConnection: with I/O outstanding only the socket is closed.
Close(t) ==
  LET c == th[t].c IN
  /\ At(t, "close")
  /\ Goto(t, IF Refs(c) # 0 /\ conn[c].sock # NoSocket THEN "hangup" ELSE "cas")
  /\ UNCHANGED <<conn, sock, workQ, logicQ, pool, app>>

Hangup(t) ==
  /\ At(t, "hangup")
  /\ Disconnect(th[t].c)
  /\ Return(t)
  /\ UNCHANGED <<logicQ, pool, app>>

\* Mutant: IsClosed is set without a test.
CasUntested(t) ==
  /\ At(t, "cas")
  /\ Goto(t, "clearConnect")
  /\ conn' = [conn EXCEPT ![th[t].c].isClosed = TRUE]
  /\ UNCHANGED <<sock, workQ, logicQ, pool, app>>

Cas(t) ==
  LET c == th[t].c IN
  /\ At(t, "cas")
  /\ IF conn[c].isClosed
     THEN Return(t) /\ UNCHANGED conn
     ELSE Goto(t, "clearConnect") /\ conn' = [conn EXCEPT ![c].isClosed = TRUE]
  /\ UNCHANGED <<sock, workQ, logicQ, pool, app>>

\* HandleExceptionCloseConnection, in three steps.
ClearConnect(t) ==
  /\ At(t, "clearConnect")
  /\ conn' = [conn EXCEPT ![th[t].c].isConnect = FALSE]
  /\ Goto(t, "disconnect")
  /\ UNCHANGED <<sock, workQ, logicQ, pool, app>>

DisconnectClosed(t) ==
  /\ At(t, "disconnect")
  /\ Disconnect(th[t].c)
  /\ Goto(t, "postClose")
  /\ UNCHANGED <<logicQ, pool, app>>

\* Mutant: the message of a failed post is not kept to be freed.
PostMessageLeaks(t, type, onFail) ==
  \/ /\ pool > 0
     /\ pool' = pool - 1
     /\ \/ logicQ' = Append(logicQ, [op |-> type, c |-> th[t].c]) /\ Return(t)
        \/ CallsFail /\ Goto(t, onFail) /\ UNCHANGED logicQ
  \/ pool = 0 /\ Goto(t, onFail) /\ UNCHANGED <<pool, logicQ>>

\* AllocMsg and PostLogicMsg: a message is posted and the thread is done, or
\* there is none, or the post fails with one in hand, and it goes on at onFail.
PostMessage(t, type, onFail) ==
  LET Fail(held) == th' = [th EXCEPT ![t] = [@ EXCEPT !.pc = onFail, !.msg = held]]
  IN \/ /\ pool > 0
        /\ pool' = pool - 1
        /\ logicQ' = Append(logicQ, [op |-> type, c |-> th[t].c])
        /\ Return(t)
     \/ /\ pool > 0
        /\ CallsFail
        /\ pool' = pool - 1
        /\ Fail(TRUE)
        /\ UNCHANGED logicQ
     \/ /\ pool = 0
        /\ Fail(FALSE)
        /\ UNCHANGED <<pool, logicQ>>

\* Mutant: nothing follows when OP_CLOSE cannot be posted.
PostCloseOnly(t) ==
  /\ At(t, "postClose")
  /\ PostMessage(t, "close", "idle")
  /\ UNCHANGED <<conn, sock, workQ, app>>

PostClose(t) ==
  /\ At(t, "postClose")
  /\ PostMessage(t, "close", "reset")
  /\ UNCHANGED <<conn, sock, workQ, app>>

\* Another thread works on the slot of t, a completion of it waits for one or an
\* operation on it is pending.
Elsewhere == PCs \ {"idle", "prepare", "connCheck", "appConnect", "appClose"}

Outstanding(c) ==
  \/ \E h \in 1..Handles, kind \in IOKinds : sock[c][h][kind] > 0
  \/ \E e \in Completions : e.c = c /\ workQ[e] > 0

Occupied(t) ==
  \/ Outstanding(th[t].c)
  \/ \E u \in Threads \ {t} : th[u].c = th[t].c /\ th[u].pc \in Elsewhere
  \/ \E i \in DOMAIN logicQ : logicQ[i] = [op |-> "close", c |-> th[t].c]

\* ResetConnection: Init under the lock, then BindAcceptExSocket.
Reset(t) ==
  LET c == th[t].c IN
  /\ At(t, "reset")
  /\ ~Locked(c)
  /\ conn' = [conn EXCEPT ![c] =
                [conn[c] EXCEPT !.isConnect = FALSE, !.isClosed = FALSE, !.isSendable = TRUE,
                                !.ref = [accept |-> 0, recv |-> 0, send |-> 0],
                                !.unsent = 0, !.taken = 0, !.hasty = @ \/ Occupied(t)]]
  /\ Goto(t, "rearm")
  /\ UNCHANGED <<sock, workQ, logicQ, pool, app>>

Free(c) == {h \in 1..Handles : sock[c][h].peer = "closed"}

\* Mutant: OP_CLOSE is handled without telling the application.
RearmSilently(t) ==
  LET c == th[t].c IN
  /\ At(t, "rearm")
  /\ \E h \in Free(c) :
       /\ conn' = [conn EXCEPT ![c] = [@ EXCEPT !.recvOp = "accept", !.sock = h, !.ref.accept = 1]]
       /\ sock' = [sock EXCEPT ![c][h] = [@ EXCEPT !.peer = "fresh", !.accept = 1]]
  /\ pool' = IF th[t].msg THEN pool + 1 ELSE pool
  /\ Return(t)
  /\ UNCHANGED <<workQ, logicQ, app>>

\* BindAcceptExSocket: WSASocket finds no handle, AcceptEx fails and the new
\* socket stays without one, or the slot waits for a client.  The caller, which
\* looks at no result, frees the message it holds, and OP_CLOSE is handed to the
\* application.
Rearm(t) ==
  LET c == th[t].c
      NewSocket(h, accept, ref) ==
        /\ h \in Free(c)
        /\ \A g \in Free(c) : h <= g
        /\ conn' = [conn EXCEPT ![c] = [conn[c] EXCEPT !.recvOp = "accept", !.sock = h,
                                                       !.ref.accept = ref]]
        /\ sock' = [sock EXCEPT ![c][h] = [@ EXCEPT !.peer = "fresh", !.accept = accept]]
  IN
  /\ At(t, "rearm")
  /\ \/ /\ Free(c) = {} \/ CallsFail
        /\ conn' = [conn EXCEPT ![c] = [@ EXCEPT !.recvOp = "accept", !.sock = NoSocket]]
        /\ UNCHANGED sock
     \/ CallsFail /\ \E h \in Free(c) : NewSocket(h, 0, conn[c].ref.accept)
     \/ \E h \in Free(c) : NewSocket(h, 1, Incremented(conn[c].ref.accept))
  /\ pool' = IF th[t].msg THEN pool + 1 ELSE pool
  /\ IF th[t].op = "close"
     THEN th' = [th EXCEPT ![t] = [@ EXCEPT !.pc = "appClose", !.msg = FALSE]]
     ELSE Return(t)
  /\ UNCHANGED <<workQ, logicQ, app>>

----------------------------------------------------------------------------
(* WorkThread: take a completion and test the count that DoAccept, DoRecv, *)
(* DoSend or HandleExceptionWorkThread decrements, then decrement it.      *)

\* Mutant: a receive of no byte is taken for data.
HandlerOfNothing(kind, status) ==
  IF status = "failed" THEN "close"
  ELSE CASE kind = "accept" -> "bind"
         [] kind = "recv"   -> "deliver"
         [] kind = "send"   -> "sent"

Handler(kind, status) ==
  IF status = "failed" \/ (status = "empty" /\ kind # "accept") THEN "close"
  ELSE CASE kind = "accept" -> "bind"
         [] kind = "recv"   -> "deliver"
         [] kind = "send"   -> "sent"

Dequeue(w) ==
  /\ At(w, "idle")
  /\ \E e \in Completions :
       LET kind == IF e.ovl = "send" THEN "send" ELSE conn[e.c].recvOp
           next == Handler(kind, e.status)
       IN /\ workQ[e] > 0
          /\ workQ' = [workQ EXCEPT ![e] = @ - 1]
          /\ th' = [th EXCEPT ![w] =
               IF conn[e.c].ref[kind] = 0
               THEN [IdleThread EXCEPT !.pc = next, !.c = e.c]
               ELSE [IdleThread EXCEPT !.pc = "decrement", !.c = e.c,
                                       !.op = kind, !.then = next]]
  /\ UNCHANGED <<conn, sock, logicQ, pool, app>>

Decrement(t) ==
  /\ At(t, "decrement")
  /\ conn' = [conn EXCEPT ![th[t].c].ref[th[t].op] = Decremented(@)]
  /\ th' = [th EXCEPT ![t] = [@ EXCEPT !.pc = th[t].then, !.op = "none", !.then = "idle"]]
  /\ UNCHANGED <<sock, workQ, logicQ, pool, app>>

\* Decrement...IORefCount after a call that failed, then CloseConnection: a
\* count that is not 0 is decremented in a step of its own.
TakeBack(t, kind) ==
  th' = [th EXCEPT ![t] =
    IF conn[th[t].c].ref[kind] = 0
    THEN [@ EXCEPT !.pc = "close", !.then = "idle"]
    ELSE [@ EXCEPT !.pc = "decrement", !.op = kind, !.then = "close"]]

\* DoAccept: BindIOCP refuses a socket closed meanwhile.
Bind(w) ==
  LET c == th[w].c IN
  /\ At(w, "bind")
  /\ \/ CallsFail /\ Goto(w, "close")
     \/ ~Locked(c) /\ Goto(w, IF conn[c].sock = NoSocket THEN "close" ELSE "setConnect")
  /\ UNCHANGED <<conn, sock, workQ, logicQ, pool, app>>

SetConnect(w) ==
  /\ At(w, "setConnect")
  /\ conn' = [conn EXCEPT ![th[w].c].isConnect = TRUE]
  /\ th' = [th EXCEPT ![w] = [@ EXCEPT !.pc = "checkConnect", !.then = "announce"]]
  /\ UNCHANGED <<sock, workQ, logicQ, pool, app>>

\* OP_CONNECTION, once the first receive is posted.
Announce(w) ==
  /\ At(w, "announce")
  /\ PostMessage(w, "connection", "dropConn")
  /\ UNCHANGED <<conn, sock, workQ, app>>

DropConn(w) ==
  /\ At(w, "dropConn")
  /\ Disconnect(th[w].c)
  /\ Goto(w, "reset")
  /\ UNCHANGED <<logicQ, pool, app>>

\* Mutant: the message is used although AllocMsg found none.
DeliverUnchecked(w) ==
  /\ At(w, "deliver")
  /\ th[w].n < MaxPackets
  /\ pool' = pool - 1
  /\ logicQ' = Append(logicQ, [op |-> "packet", c |-> th[w].c])
  /\ th' = [th EXCEPT ![w].n = @ + 1]
  /\ UNCHANGED <<conn, sock, workQ, app>>

\* DoRecv: one OP_RECV_PACKET for each whole packet.
Deliver(w) ==
  /\ At(w, "deliver")
  /\ th[w].n < MaxPackets
  /\ \/ /\ pool > 0
        /\ pool' = pool - 1
        /\ logicQ' = Append(logicQ, [op |-> "packet", c |-> th[w].c])
        /\ th' = [th EXCEPT ![w].n = @ + 1]
     \/ /\ pool = 0 \/ CallsFail
        /\ Return(w)
        /\ UNCHANGED <<pool, logicQ>>
  /\ UNCHANGED <<conn, sock, workQ, app>>

WrongPacket(w) ==
  /\ At(w, "deliver")
  /\ th' = [th EXCEPT ![w] = [@ EXCEPT !.pc = "close", !.n = 0]]
  /\ UNCHANGED <<conn, sock, workQ, logicQ, pool, app>>

Delivered(w) ==
  /\ At(w, "deliver")
  /\ th' = [th EXCEPT ![w] = [@ EXCEPT !.pc = "checkConnect", !.n = 0]]
  /\ UNCHANGED <<conn, sock, workQ, logicQ, pool, app>>

\* PostRecv, of DoAccept and of DoRecv.
CheckConnect(w) ==
  /\ At(w, "checkConnect")
  /\ Goto(w, IF conn[th[w].c].isConnect THEN "incRecv" ELSE "close")
  /\ UNCHANGED <<conn, sock, workQ, logicQ, pool, app>>

IncRecv(w) ==
  LET c == th[w].c IN
  /\ At(w, "incRecv")
  /\ conn' = [conn EXCEPT ![c] = [conn[c] EXCEPT !.recvOp = "recv", !.ref.recv = Incremented(@)]]
  /\ Goto(w, "wsaRecv")
  /\ UNCHANGED <<sock, workQ, logicQ, pool, app>>

\* What Winsock answers to a call on the socket of c.
Peer(c) == IF conn[c].sock = NoSocket THEN "closed" ELSE sock[c][conn[c].sock].peer

Accepts(c) == Peer(c) \in {"up", "down"}
Refuses(c) == Peer(c) # "up" \/ CallsFail

\* Mutant: the count is not taken back when WSARecv fails.
WsaRecvForgets(w) ==
  LET c == th[w].c IN
  /\ At(w, "wsaRecv")
  /\ \/ /\ Accepts(c)
        /\ sock' = [sock EXCEPT ![c][conn[c].sock].recv = @ + 1]
        /\ IF th[w].then = "announce" THEN Goto(w, "announce") ELSE Return(w)
     \/ /\ Refuses(c)
        /\ th' = [th EXCEPT ![w] = [@ EXCEPT !.pc = "close", !.then = "idle"]]
        /\ UNCHANGED sock
  /\ UNCHANGED <<conn, workQ, logicQ, pool, app>>

WsaRecv(w) ==
  LET c == th[w].c IN
  /\ At(w, "wsaRecv")
  /\ \/ /\ Accepts(c)
        /\ sock' = [sock EXCEPT ![c][conn[c].sock].recv = @ + 1]
        /\ IF th[w].then = "announce" THEN Goto(w, "announce") ELSE Return(w)
     \/ Refuses(c) /\ TakeBack(w, "recv") /\ UNCHANGED sock
  /\ UNCHANGED <<conn, workQ, logicQ, pool, app>>

----------------------------------------------------------------------------
(* Sending: DoSend of a worker, PostSend of a worker or a handler.         *)

Sent(w) ==
  LET c == th[w].c IN
  /\ At(w, "sent")
  /\ \/ \* a part was sent: send the rest
        /\ conn' = [conn EXCEPT ![c].ref.send = Incremented(@)]
        /\ Goto(w, "wsaSend")
     \/ \* all of it was sent: ReleaseBuffer
        /\ conn' = [conn EXCEPT ![c].unsent =
                      IF conn[c].taken > @ THEN 0 ELSE @ - conn[c].taken]
        /\ Goto(w, "setSendable")
  /\ UNCHANGED <<sock, workQ, logicQ, pool, app>>

SetSendable(w) ==
  /\ At(w, "setSendable")
  /\ conn' = [conn EXCEPT ![th[w].c].isSendable = TRUE]
  /\ Goto(w, "claim")
  /\ UNCHANGED <<sock, workQ, logicQ, pool, app>>

Claim(t) ==
  LET c == th[t].c IN
  /\ At(t, "claim")
  /\ IF conn[c].isSendable
     THEN conn' = [conn EXCEPT ![c].isSendable = FALSE] /\ Goto(t, "take")
     ELSE Return(t) /\ UNCHANGED conn
  /\ UNCHANGED <<sock, workQ, logicQ, pool, app>>

\* GetBuffer and, when it returns something, IncrementSendIORefCount.
Take(t) ==
  LET c == th[t].c IN
  /\ At(t, "take")
  /\ \/ /\ conn[c].unsent = 0
        /\ Goto(t, "unclaim")
        /\ UNCHANGED conn
     \/ \E k \in 1..conn[c].unsent :
          /\ conn' = [conn EXCEPT ![c] = [conn[c] EXCEPT !.taken = k, !.ref.send = Incremented(@)]]
          /\ Goto(t, "wsaSend")
  /\ UNCHANGED <<sock, workQ, logicQ, pool, app>>

Unclaim(t) ==
  /\ At(t, "unclaim")
  /\ conn' = [conn EXCEPT ![th[t].c].isSendable = TRUE]
  /\ Return(t)
  /\ UNCHANGED <<sock, workQ, logicQ, pool, app>>

WsaSend(t) ==
  LET c == th[t].c IN
  /\ At(t, "wsaSend")
  /\ \/ /\ Accepts(c)
        /\ sock' = [sock EXCEPT ![c][conn[c].sock].send = @ + 1]
        /\ Return(t)
     \/ Refuses(c) /\ TakeBack(t, "send") /\ UNCHANGED sock
  /\ UNCHANGED <<conn, workQ, logicQ, pool, app>>

----------------------------------------------------------------------------
(* The logic threads: ProcessNetworkMessages, then the handler.            *)

Pop(l, type) ==
  /\ At(l, "idle")
  /\ logicQ # <<>>
  /\ Head(logicQ).op = type
  /\ logicQ' = Tail(logicQ)

PopConnection(l) ==
  /\ Pop(l, "connection")
  /\ th' = [th EXCEPT ![l] = [IdleThread EXCEPT !.pc = "connCheck", !.c = Head(logicQ).c,
                                                !.msg = TRUE]]
  /\ UNCHANGED <<conn, sock, workQ, pool, app>>

\* Mutant: a connection is announced even if it was closed since.
ConnCheckSkipped(l) ==
  /\ At(l, "connCheck")
  /\ pool' = pool + 1
  /\ th' = [th EXCEPT ![l] = [@ EXCEPT !.pc = "appConnect", !.msg = FALSE]]
  /\ UNCHANGED <<conn, sock, workQ, logicQ, app>>

\* DoPostConnection drops the message of a connection already closed.
ConnCheck(l) ==
  /\ At(l, "connCheck")
  /\ pool' = pool + 1
  /\ th' = [th EXCEPT ![l] = IF conn[@.c].isConnect
                             THEN [@ EXCEPT !.pc = "appConnect", !.msg = FALSE]
                             ELSE IdleThread]
  /\ UNCHANGED <<conn, sock, workQ, logicQ, app>>

AppConnect(l) ==
  /\ At(l, "appConnect")
  /\ app' = [app EXCEPT ![th[l].c] = TRUE]
  /\ Return(l)
  /\ UNCHANGED <<conn, sock, workQ, logicQ, pool>>

\* DoPostClose resets the connection first; the application hears afterwards.
PopClose(l) ==
  /\ Pop(l, "close")
  /\ th' = [th EXCEPT ![l] = [IdleThread EXCEPT !.pc = "reset", !.c = Head(logicQ).c,
                                                !.op = "close", !.msg = TRUE]]
  /\ UNCHANGED <<conn, sock, workQ, pool, app>>

AppClose(l) ==
  /\ At(l, "appClose")
  /\ app' = [app EXCEPT ![th[l].c] = FALSE]
  /\ Return(l)
  /\ UNCHANGED <<conn, sock, workQ, logicQ, pool>>

\* The handler of a packet sends up to MaxSends packets, to any connections.
PopPacket(l) ==
  /\ Pop(l, "packet")
  /\ pool' = pool + 1
  /\ \E n \in 0..MaxSends :
       th' = [th EXCEPT ![l] = IF n = 0 THEN IdleThread ELSE Preparing(n)]
  /\ UNCHANGED <<conn, sock, workQ, app>>

\* SendPacket: PrepareSendPacket, the copy, SetUsedBufferSize of PostSend.
Prepare(l) ==
  /\ At(l, "prepare")
  /\ \E d \in Conns :
       LET at == [IdleThread EXCEPT !.c = d, !.n = th[l].n - 1]
       IN th' = [th EXCEPT ![l] =
            IF ~conn[d].isConnect
            THEN IF at.n = 0 THEN IdleThread ELSE Preparing(at.n)
            ELSE IF conn[d].unsent = SendSlots
            THEN [at EXCEPT !.pc = "close"]
            ELSE [at EXCEPT !.pc = "commit"]]
  /\ UNCHANGED <<conn, sock, workQ, logicQ, pool, app>>

Commit(l) ==
  /\ At(l, "commit")
  /\ conn' = [conn EXCEPT ![th[l].c].unsent = @ + 1]
  /\ Goto(l, "claim")
  /\ UNCHANGED <<sock, workQ, logicQ, pool, app>>

----------------------------------------------------------------------------
(* The peers and the kernel.                                               *)

ClientConnects(c, h) ==
  /\ sock[c][h].accept > 0
  /\ sock' = [sock EXCEPT ![c][h] = [@ EXCEPT !.peer = "up", !.accept = 0]]
  /\ workQ' = Queue(workQ, c, "recv", "empty", 1)
  /\ UNCHANGED <<conn, logicQ, pool, th, app>>

QueuedPackets == Cardinality({i \in DOMAIN logicQ : logicQ[i].op = "packet"})

ClientSends(c, h) ==
  /\ QueuedPackets < Backlog
  /\ sock[c][h].peer = "up"
  /\ sock[c][h].recv > 0
  /\ sock' = [sock EXCEPT ![c][h].recv = @ - 1]
  /\ workQ' = Queue(workQ, c, "recv", "data", 1)
  /\ UNCHANGED <<conn, logicQ, pool, th, app>>

ClientLeaves(c, h) ==
  /\ sock[c][h].peer = "up"
  /\ sock' = [sock EXCEPT ![c][h].peer = "down"]
  /\ UNCHANGED <<conn, workQ, logicQ, pool, th, app>>

\* A receive on a connection the peer left completes with no byte or an error.
RecvEnds(c, h) ==
  /\ sock[c][h].peer = "down"
  /\ sock[c][h].recv > 0
  /\ sock' = [sock EXCEPT ![c][h].recv = @ - 1]
  /\ \E status \in {"empty", "failed"} : workQ' = Queue(workQ, c, "recv", status, 1)
  /\ UNCHANGED <<conn, logicQ, pool, th, app>>

SendEnds(c, h) ==
  /\ sock[c][h].send > 0
  /\ sock' = [sock EXCEPT ![c][h].send = @ - 1]
  /\ \E status \in {"data", "failed"} :
       /\ status = "failed" => sock[c][h].peer = "down"
       /\ workQ' = Queue(workQ, c, "send", status, 1)
  /\ UNCHANGED <<conn, logicQ, pool, th, app>>

----------------------------------------------------------------------------
WorkStep(w) ==
  \/ Dequeue(w)
  \/ Bind(w) \/ SetConnect(w) \/ Announce(w) \/ DropConn(w)
  \/ Deliver(w) \/ WrongPacket(w) \/ Delivered(w)
  \/ CheckConnect(w) \/ IncRecv(w) \/ WsaRecv(w)
  \/ Sent(w) \/ SetSendable(w)

LogicStep(l) ==
  \/ PopConnection(l) \/ ConnCheck(l) \/ AppConnect(l)
  \/ PopClose(l) \/ AppClose(l)
  \/ PopPacket(l) \/ Prepare(l) \/ Commit(l)

\* Connection's methods run on whichever thread calls them.
SharedStep(t) ==
  \/ Close(t) \/ Hangup(t) \/ Cas(t)
  \/ ClearConnect(t) \/ DisconnectClosed(t) \/ PostClose(t)
  \/ Reset(t) \/ Rearm(t)
  \/ Claim(t) \/ Take(t) \/ Unclaim(t) \/ WsaSend(t) \/ Decrement(t)

Server ==
  \/ \E w \in Workers : WorkStep(w)
  \/ \E l \in Logics : LogicStep(l)
  \/ \E t \in Threads : SharedStep(t)

Arrive == \E c \in Conns, h \in 1..Handles : ClientConnects(c, h) \/ ClientSends(c, h)
Leave == \E c \in Conns, h \in 1..Handles : ClientLeaves(c, h)
Kernel == \E c \in Conns, h \in 1..Handles : RecvEnds(c, h) \/ SendEnds(c, h)

Next == Server \/ Arrive \/ Leave \/ Kernel

Spec == Init /\ [][Next]_vars

\* Every thread runs and every operation ends once its peer left; no client
\* ever has to do anything.
Fairness ==
  /\ \A w \in Workers : WF_vars(WorkStep(w) \/ SharedStep(w))
  /\ \A l \in Logics : WF_vars(LogicStep(l) \/ SharedStep(l))
  /\ \A c \in Conns, h \in 1..Handles : WF_vars(RecvEnds(c, h)) /\ WF_vars(SendEnds(c, h))

FairSpec == Spec /\ Fairness

----------------------------------------------------------------------------
(* Properties.                                                             *)

Counts == 0..(RefModulus - 1)

ConnType ==
  [sock: 0..Handles, isConnect: BOOLEAN, isClosed: BOOLEAN, isSendable: BOOLEAN,
   ref: [accept: Counts, recv: Counts, send: Counts],
   recvOp: {"accept", "recv"}, unsent: Nat, taken: Nat, hasty: BOOLEAN]

SocketType == [peer: PeerStates, accept: Nat, recv: Nat, send: Nat]

ThreadType ==
  [pc: PCs, c: Conns, n: Nat, op: IOKinds \cup {"none", "close"}, then: PCs \ {"prepare"},
   msg: BOOLEAN]

\* Type invariant; a handler prepares a packet only when it has one to send.
TypeOK ==
  /\ conn \in [Conns -> ConnType]
  /\ sock \in [Conns -> [1..Handles -> SocketType]]
  /\ workQ \in [Completions -> Nat]
  /\ logicQ \in Seq(Messages)
  /\ pool \in Nat
  /\ th \in [Threads -> ThreadType]
  /\ \A t \in Threads : th[t].pc = "prepare" => th[t].n > 0
  /\ app \in [Conns -> BOOLEAN]

On(c, pcs) == {t \in Threads : th[t].c = c /\ th[t].pc \in pcs}

QueuedMsgs(c, op) == {i \in DOMAIN logicQ : logicQ[i] = [op |-> op, c |-> c]}

\* The winner of the test-and-set of IsClosed, until ResetConnection.
Closing == {"clearConnect", "disconnect", "postClose", "reset"}

Closers(c) == Cardinality(On(c, Closing)) + Cardinality(QueuedMsgs(c, "close"))

\* IsClosed lets one thread at a time close a connection: while it is set one
\* thread or one OP_CLOSE carries the close, while it is clear none does.
CloseOnce == \A c \in Conns : Closers(c) = IF conn[c].isClosed THEN 1 ELSE 0

\* Somebody is on the way to ResetConnection.
Carried(c) ==
  \/ \E t \in Threads : th[t].c = c /\ th[t].pc \in Closing
  \/ \E i \in DOMAIN logicQ : logicQ[i] = [op |-> "close", c |-> c]

\* A close that was claimed is never lost, whatever fails on the way: while
\* IsClosed is set somebody is on the way to ResetConnection.  A claimed slot
\* nobody carries would never accept a client again.
ClosePending == \A c \in Conns : conn[c].isClosed => Carried(c)

\* Operations of some kinds pending on the sockets of c, and completions of
\* an OVERLAPPED_EX of c still queued.
PendingIO(c, kinds) ==
  UNION {{<<h, kind, i>> : i \in 1..sock[c][h][kind]} : h \in 1..Handles, kind \in kinds}

QueuedIO(c, ovl) ==
  UNION {{<<s, i>> : i \in 1..workQ[[c |-> c, ovl |-> ovl, status |-> s]]} : s \in Statuses}

Undecremented(c, kinds) == {t \in On(c, {"decrement"}) : th[t].op \in kinds}

\* Until a slot is reset too soon, its reference counts tell how many operations
\* are under way: those the kernel has, those whose completion nobody handled,
\* those being posted.  CloseConnection decides on the counts alone.
IOAccounting ==
  \A c \in Conns : conn[c].hasty \/
    /\ conn[c].ref.accept + conn[c].ref.recv =
         Cardinality(PendingIO(c, {"accept", "recv"})) + Cardinality(QueuedIO(c, "recv"))
           + Cardinality(Undecremented(c, {"accept", "recv"})) + Cardinality(On(c, {"wsaRecv"}))
    /\ conn[c].ref.send =
         Cardinality(PendingIO(c, {"send"})) + Cardinality(QueuedIO(c, "send"))
           + Cardinality(Undecremented(c, {"send"})) + Cardinality(On(c, {"wsaSend"}))

\* Until then no socket is forgotten open, and no two operations use an
\* OVERLAPPED_EX at the same time, nor one with another's type in it.
OneSocket ==
  \A c \in Conns : conn[c].hasty \/
    \A h \in 1..Handles :
      /\ conn[c].sock # h => sock[c][h] = ClosedSocket
      /\ sock[c][h].accept + sock[c][h].recv <= 1
      /\ sock[c][h].send <= 1
      /\ sock[c][h].accept > 0 => conn[c].recvOp = "accept"
      /\ sock[c][h].recv > 0 => conn[c].recvOp = "recv"

Moving(c) ==
  \/ \E t \in Threads : th[t].c = c /\ ~At(t, "idle")
  \/ QueuedIO(c, "recv") # {} \/ QueuedIO(c, "send") # {}
  \/ QueuedMsgs(c, "close") # {}

\* Each slot always has something that will bring it forward: an operation
\* pending on its socket, a completion, a thread or a close under way.  A slot
\* with none is lost to the server until it restarts.
NoDeadSlot ==
  \A c \in Conns : Moving(c) \/ (conn[c].sock # NoSocket /\ PendingIO(c, IOKinds) # {})

\* Once everything about a slot is handled, the application believes it
\* connected exactly when it is.
AppAgrees ==
  \A c \in Conns :
    ~Moving(c) /\ QueuedMsgs(c, "connection") = {} => app[c] = conn[c].isConnect

\* The application never keeps a user whose connection is gone: if the
\* connection is closed the notice is on its way.
AppWillHear ==
  \A c \in Conns : app[c] =>
    \/ conn[c].isConnect
    \/ On(c, {"disconnect", "postClose", "reset", "rearm", "appClose"}) # {}
    \/ QueuedMsgs(c, "close") # {}

\* Every message is in the pool, in the logic queue or in the hand of one
\* thread: no failed post leaks one, none is freed twice.
PoolConservation ==
  pool + Len(logicQ) + Cardinality({t \in Threads : th[t].msg}) = MsgCount

\* AcceptEx waits for a client of the slot.
Armed(c) == conn[c].sock # NoSocket /\ sock[c][conn[c].sock].accept > 0

\* A slot whose client left waits for the next client some time later.
Rearmed == \A c \in Conns : Peer(c) = "down" ~> Armed(c)

\* The application forgets a client that left.
Forgotten == \A c \in Conns : Peer(c) = "down" ~> ~app[c]
=============================================================================
