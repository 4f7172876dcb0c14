---------------------------- MODULE SessionProofs ----------------------------
(***************************************************************************)
(* Proofs about Session for any number of slots, threads and messages.     *)
(***************************************************************************)
EXTENDS Session, TLAPS, FiniteSetTheorems

----------------------------------------------------------------------------
(* Changing a field of a record keeps it of its type.                      *)

LEMMA ConnFields ==
  ASSUME NEW k \in ConnType
  PROVE  /\ \A h \in 0..Handles : [k EXCEPT !.sock = h] \in ConnType
         /\ \A b \in BOOLEAN : /\ [k EXCEPT !.isConnect = b] \in ConnType
                               /\ [k EXCEPT !.isClosed = b] \in ConnType
                               /\ [k EXCEPT !.isSendable = b] \in ConnType
                               /\ [k EXCEPT !.hasty = b] \in ConnType
         /\ \A n \in Counts : /\ [k EXCEPT !.ref.accept = n] \in ConnType
                              /\ [k EXCEPT !.ref.recv = n] \in ConnType
                              /\ [k EXCEPT !.ref.send = n] \in ConnType
         /\ \A o \in {"accept", "recv"} : [k EXCEPT !.recvOp = o] \in ConnType
         /\ \A n \in Nat : [k EXCEPT !.unsent = n] \in ConnType /\ [k EXCEPT !.taken = n] \in ConnType
  BY DEF ConnType

LEMMA ConnValues ==
  ASSUME NEW k \in ConnType
  PROVE  /\ k.sock \in 0..Handles
         /\ k.isConnect \in BOOLEAN /\ k.isClosed \in BOOLEAN /\ k.isSendable \in BOOLEAN
         /\ k.ref.accept \in Counts /\ k.ref.recv \in Counts /\ k.ref.send \in Counts
         /\ k.recvOp \in {"accept", "recv"}
         /\ k.unsent \in Nat /\ k.taken \in Nat
         /\ k.hasty \in BOOLEAN
  BY DEF ConnType

LEMMA SocketFields ==
  ASSUME NEW k \in SocketType
  PROVE  /\ \A p \in PeerStates : [k EXCEPT !.peer = p] \in SocketType
         /\ \A n \in Nat : /\ [k EXCEPT !.accept = n] \in SocketType
                           /\ [k EXCEPT !.recv = n] \in SocketType
                           /\ [k EXCEPT !.send = n] \in SocketType
         /\ k.peer \in PeerStates /\ k.accept \in Nat /\ k.recv \in Nat /\ k.send \in Nat
  BY DEF SocketType

LEMMA ThreadFields ==
  ASSUME NEW k \in ThreadType
  PROVE  /\ \A p \in PCs : [k EXCEPT !.pc = p] \in ThreadType
         /\ \A d \in Conns : [k EXCEPT !.c = d] \in ThreadType
         /\ \A n \in Nat : [k EXCEPT !.n = n] \in ThreadType
         /\ \A o \in IOKinds \cup {"none", "close"} : [k EXCEPT !.op = o] \in ThreadType
         /\ \A p \in PCs \ {"prepare"} : [k EXCEPT !.then = p] \in ThreadType
         /\ \A b \in BOOLEAN : [k EXCEPT !.msg = b] \in ThreadType
         /\ k.pc \in PCs /\ k.c \in Conns /\ k.n \in Nat
         /\ k.op \in IOKinds \cup {"none", "close"} /\ k.then \in PCs \ {"prepare"}
         /\ k.msg \in BOOLEAN
  BY DEF ThreadType

LEMMA CountsClosed ==
  /\ \A n \in Counts : /\ Incremented(n) \in Counts
                       /\ Decremented(n) \in Counts
  /\ 0 \in Counts /\ 1 \in Counts
  BY SessionAssumption DEF Incremented, Decremented, Counts

LEMMA IdleTyped == IdleThread \in ThreadType /\ IdleThread.pc = "idle"
  BY SessionAssumption DEF IdleThread, ThreadType, PCs, IOKinds

LEMMA ClosedTyped == ClosedSocket \in SocketType
  BY DEF ClosedSocket, SocketType, PeerStates

LEMMA QueueTyped ==
  ASSUME NEW q \in [Completions -> Nat], NEW c \in Conns, NEW ovl \in Overlapped,
         NEW status \in Statuses, NEW n \in Nat
  PROVE  Queue(q, c, ovl, status, n) \in [Completions -> Nat]
<1> DEFINE e == [c |-> c, ovl |-> ovl, status |-> status]
<1>1. e \in Completions
  BY DEF Completions
<1>2. q[e] + n \in Nat
  BY <1>1
<1> QED BY <1>2 DEF Queue

----------------------------------------------------------------------------
(* The types of the single variables.                                      *)

ConnsTyped == conn \in [Conns -> ConnType]
SocksTyped == sock \in [Conns -> [1..Handles -> SocketType]]
WorkTyped == workQ \in [Completions -> Nat]
LogicTyped == logicQ \in Seq(Messages) /\ pool \in Nat
ThreadsTyped ==
  /\ th \in [Threads -> ThreadType]
  /\ \A t \in Threads : th[t].pc = "prepare" => th[t].n > 0
AppTyped == app \in [Conns -> BOOLEAN]

LEMMA TypeParts ==
  TypeOK <=> /\ ConnsTyped /\ SocksTyped /\ WorkTyped
             /\ LogicTyped /\ ThreadsTyped /\ AppTyped
  BY DEF TypeOK, ConnsTyped, SocksTyped, WorkTyped, LogicTyped, ThreadsTyped, AppTyped

LEMMA PartsNext ==
  ASSUME ConnsTyped', SocksTyped', WorkTyped', LogicTyped', ThreadsTyped', AppTyped'
  PROVE  TypeOK'
  BY DEF TypeOK, ConnsTyped, SocksTyped, WorkTyped, LogicTyped, ThreadsTyped, AppTyped

LEMMA InitTyped == Init => TypeOK
<1> SUFFICES ASSUME Init PROVE TypeOK
  OBVIOUS
<1>1. InitConn \in ConnType
  BY SessionAssumption, CountsClosed DEF InitConn, ConnType
<1>2. ConnsTyped
  BY <1>1 DEF Init, ConnsTyped
<1>3. [ClosedSocket EXCEPT !.peer = "fresh", !.accept = 1] \in SocketType
  BY DEF ClosedSocket, SocketType, PeerStates
<1>4. SocksTyped
  BY <1>3, ClosedTyped DEF Init, SocksTyped
<1>5. ThreadsTyped
  BY IdleTyped DEF Init, ThreadsTyped
<1>6. LogicTyped
  BY SessionAssumption DEF Init, LogicTyped
<1>7. WorkTyped /\ AppTyped
  BY DEF Init, WorkTyped, AppTyped
<1> QED BY <1>2, <1>4, <1>5, <1>6, <1>7, TypeParts

\* A thread that goes to another step, returns, or becomes any other thread.
LEMMA GotoTyped ==
  ASSUME ThreadsTyped, NEW t \in Threads, NEW pc \in PCs \ {"prepare"}, Goto(t, pc)
  PROVE  ThreadsTyped'
<1>1. [th[t] EXCEPT !.pc = pc] \in ThreadType
  BY ThreadFields DEF ThreadsTyped
<1>2. [th[t] EXCEPT !.pc = pc].pc = pc
  BY DEF ThreadsTyped, ThreadType
<1> QED BY <1>1, <1>2 DEF Goto, ThreadsTyped

LEMMA BecomesTyped ==
  ASSUME ThreadsTyped, NEW t \in Threads, NEW k \in ThreadType, k.pc = "prepare" => k.n > 0,
         th' = [th EXCEPT ![t] = k]
  PROVE  ThreadsTyped'
  BY DEF ThreadsTyped

LEMMA PreparingTyped ==
  ASSUME NEW n \in Nat
  PROVE  Preparing(n) \in ThreadType /\ Preparing(n).n = n
<1> DEFINE k == [IdleThread EXCEPT !.pc = "prepare"]
<1>1. k \in ThreadType
  BY IdleTyped, ThreadFields DEF PCs
<1>2. [k EXCEPT !.n = n] \in ThreadType
  BY <1>1, ThreadFields
<1> QED BY <1>2 DEF Preparing, IdleThread

LEMMA ReturnTyped == ASSUME ThreadsTyped, NEW t \in Threads, Return(t) PROVE ThreadsTyped'
<1>1. th[t].n \in Nat
  BY ThreadFields DEF ThreadsTyped
<1>2. Returned(t) \in ThreadType /\ (Returned(t).pc = "prepare" => Returned(t).n > 0)
  BY <1>1, IdleTyped, PreparingTyped DEF Returned
<1> QED BY <1>2, BecomesTyped DEF Return

\* A thread whose call failed goes to CloseConnection, at once or after its count.
LEMMA TakesBack ==
  ASSUME ThreadsTyped, NEW t \in Threads, NEW kind \in IOKinds, TakeBack(t, kind)
  PROVE  \E k \in ThreadType :
           /\ th' = [th EXCEPT ![t] = k]
           /\ k.pc \in {"close", "decrement"}
           /\ k.then \in {"idle", "close"}
           /\ k.pc = "decrement" => k.op = kind /\ k.then = "close"
           /\ k.c = th[t].c /\ k.n = th[t].n /\ k.msg = th[t].msg
<1> DEFINE a == [th[t] EXCEPT !.pc = "close", !.then = "idle"]
           b == [th[t] EXCEPT !.pc = "decrement", !.op = kind, !.then = "close"]
<1>0. th[t] \in ThreadType /\ th \in [Threads -> ThreadType]
  BY DEF ThreadsTyped
<1>1. a \in ThreadType /\ a.pc = "close" /\ a.then = "idle" /\ a.c = th[t].c /\ a.n = th[t].n
      /\ a.msg = th[t].msg
  BY <1>0, ZenonT(40) DEF ThreadType, PCs
<1>2. b \in ThreadType /\ b.pc = "decrement" /\ b.then = "close" /\ b.c = th[t].c
      /\ b.n = th[t].n /\ b.msg = th[t].msg /\ b.op = kind
  BY <1>0, ZenonT(40) DEF ThreadType, PCs, IOKinds
<1>3. th' = [th EXCEPT ![t] = a] \/ th' = [th EXCEPT ![t] = b]
  BY <1>0 DEF TakeBack
<1> QED BY <1>1, <1>2, <1>3, Zenon

LEMMA TakeBackTyped ==
  ASSUME ThreadsTyped, NEW t \in Threads, NEW kind \in IOKinds, TakeBack(t, kind)
  PROVE  ThreadsTyped'
<1>1. PICK k \in ThreadType : /\ th' = [th EXCEPT ![t] = k]
                              /\ k.pc \in {"close", "decrement"}
  BY TakesBack
<1> QED BY <1>1, BecomesTyped

----------------------------------------------------------------------------
(* Every step keeps the types.                                             *)

LEMMA Here ==
  ASSUME TypeOK, NEW t \in Threads
  PROVE  /\ th[t].c \in Conns
         /\ conn[th[t].c] \in ConnType
         /\ conn[th[t].c].sock # NoSocket =>
              /\ conn[th[t].c].sock \in 1..Handles
              /\ sock[th[t].c][conn[th[t].c].sock] \in SocketType
  BY TypeParts, ThreadFields, ConnValues, SessionAssumption
     DEF ConnsTyped, SocksTyped, ThreadsTyped, NoSocket

LEMMA SocketUpdate ==
  ASSUME SocksTyped, NEW c \in Conns, NEW h \in 1..Handles, NEW s \in SocketType
  PROVE  [sock EXCEPT ![c][h] = s] \in [Conns -> [1..Handles -> SocketType]]
<1>1. [sock[c] EXCEPT ![h] = s] \in [1..Handles -> SocketType]
  BY DEF SocksTyped
<1> QED BY <1>1 DEF SocksTyped

LEMMA PostMessageTyped ==
  ASSUME TypeOK, NEW t \in Threads, NEW type \in {"connection", "close"},
         NEW onFail \in PCs \ {"prepare"}, PostMessage(t, type, onFail)
  PROVE  LogicTyped' /\ ThreadsTyped'
<1>1. th[t].c \in Conns /\ th[t] \in ThreadType /\ LogicTyped /\ ThreadsTyped
  BY Here, TypeParts DEF ThreadsTyped
<1>2. [op |-> type, c |-> th[t].c] \in Messages
  BY <1>1 DEF Messages
<1>3. LogicTyped'
  BY <1>1, <1>2, SMTT(30) DEF PostMessage, LogicTyped
<1>4. ASSUME NEW b \in BOOLEAN,
             th' = [th EXCEPT ![t] = [th[t] EXCEPT !.pc = onFail, !.msg = b]]
      PROVE  ThreadsTyped'
  <2> DEFINE k == [th[t] EXCEPT !.pc = onFail]
  <2>1. k \in ThreadType
    BY <1>1, ThreadFields
  <2>2. [k EXCEPT !.msg = b] \in ThreadType
    BY <2>1, ThreadFields
  <2>3. [k EXCEPT !.msg = b].pc = onFail
    BY <1>1 DEF ThreadType
  <2> QED BY <1>1, <1>4, <2>2, <2>3, BecomesTyped
<1>5. ASSUME Return(t) PROVE ThreadsTyped'
  BY <1>1, <1>5, ReturnTyped
<1>6. \/ Return(t)
      \/ \E b \in BOOLEAN : th' = [th EXCEPT ![t] = [th[t] EXCEPT !.pc = onFail, !.msg = b]]
  BY Zenon DEF PostMessage
<1> QED BY <1>3, <1>4, <1>5, <1>6, Zenon

LEMMA DisconnectTyped ==
  ASSUME TypeOK, NEW c \in Conns, Disconnect(c)
  PROVE  ConnsTyped' /\ SocksTyped' /\ WorkTyped'
<1>1. CASE conn[c].sock = NoSocket
  BY <1>1, TypeParts DEF Disconnect, ConnsTyped, SocksTyped, WorkTyped
<1>2. CASE conn[c].sock # NoSocket
  <2> DEFINE h == conn[c].sock
             s == sock[c][h]
  <2>6. conn \in [Conns -> ConnType] /\ sock \in [Conns -> [1..Handles -> SocketType]]
    BY TypeParts DEF ConnsTyped, SocksTyped
  <2>7. conn[c] \in ConnType /\ h \in 0..Handles
    BY <2>6, ConnValues
  <2>1. h \in 1..Handles
    BY <1>2, <2>7, SessionAssumption DEF NoSocket
  <2>8. s \in SocketType
    BY <2>1, <2>6
  <2>9. s.accept \in Nat /\ s.recv \in Nat /\ s.send \in Nat
    BY <2>8, SocketFields
  <2>2. s.accept + s.recv \in Nat /\ s.send \in Nat
    BY <2>9
  <2>3. ConnsTyped'
    <3>1. [conn[c] EXCEPT !.sock = NoSocket] \in ConnType
      <4>1. NoSocket \in 0..Handles
        BY SessionAssumption DEF NoSocket
      <4> QED BY <2>7, <4>1, ConnFields
    <3> QED BY <1>2, <3>1, TypeParts DEF Disconnect, ConnsTyped
  <2>4. SocksTyped'
    <3>1. SocksTyped
      BY TypeParts
    <3>2. [sock EXCEPT ![c][h] = ClosedSocket] \in [Conns -> [1..Handles -> SocketType]]
      BY <2>1, <3>1, ClosedTyped, SocketUpdate
    <3> QED BY <1>2, <3>2, Zenon DEF Disconnect, SocksTyped
  <2>5. WorkTyped'
    <3>1. Queue(workQ, c, "recv", "failed", s.accept + s.recv) \in [Completions -> Nat]
      BY <2>2, QueueTyped, TypeParts DEF WorkTyped, Overlapped, Statuses
    <3>2. Queue(Queue(workQ, c, "recv", "failed", s.accept + s.recv), c, "send", "failed", s.send)
            \in [Completions -> Nat]
      BY <2>2, <3>1, QueueTyped DEF Overlapped, Statuses
    <3> QED BY <1>2, <3>2, Zenon DEF Disconnect, WorkTyped
  <2> QED BY <2>3, <2>4, <2>5
<1> QED BY <1>1, <1>2

\* Where no shared variable changes but the threads.
Still == UNCHANGED <<conn, sock, workQ, logicQ, pool, app>>

LEMMA StillTyped == ASSUME TypeOK, Still, ThreadsTyped' PROVE TypeOK'
  BY TypeParts DEF Still, TypeOK, ThreadsTyped

\* A change of one slot's record.
LEMMA ConnUpdate ==
  ASSUME ConnsTyped, NEW c \in Conns, NEW k \in ConnType, conn' = [conn EXCEPT ![c] = k]
  PROVE  ConnsTyped'
  BY DEF ConnsTyped

\* Closing and re-arming a slot.
LEMMA ClosingTyped ==
  ASSUME TypeOK, NEW t \in Threads,
         \/ Close(t) \/ Hangup(t) \/ Cas(t) \/ ClearConnect(t)
         \/ DisconnectClosed(t) \/ PostClose(t) \/ Reset(t) \/ Rearm(t)
  PROVE  TypeOK'
<1> DEFINE c == th[t].c
<1>0. /\ c \in Conns /\ conn[c] \in ConnType /\ th[t] \in ThreadType
      /\ ConnsTyped /\ SocksTyped /\ WorkTyped /\ LogicTyped /\ ThreadsTyped /\ AppTyped
  BY Here, TypeParts DEF ThreadsTyped
<1>1. CASE Close(t)
  <2>1. ThreadsTyped'
    BY <1>0, <1>1, GotoTyped DEF Close, PCs
  <2> QED BY <1>1, <2>1, StillTyped DEF Close, Still
<1>2. CASE Hangup(t)
  <2>1. ThreadsTyped'
    BY <1>0, <1>2, ReturnTyped DEF Hangup
  <2>2. ConnsTyped' /\ SocksTyped' /\ WorkTyped'
    BY <1>0, <1>2, DisconnectTyped DEF Hangup
  <2> QED BY <1>0, <1>2, <2>1, <2>2, PartsNext
      DEF Hangup, ConnsTyped, SocksTyped, WorkTyped, LogicTyped, AppTyped
<1>3. CASE Cas(t)
  <2>1. ThreadsTyped'
    BY <1>0, <1>3, ReturnTyped, GotoTyped DEF Cas, PCs
  <2>2. [conn[c] EXCEPT !.isClosed = TRUE] \in ConnType
    BY <1>0, ConnFields
  <2>3. ConnsTyped'
    BY <1>0, <1>3, <2>2 DEF Cas, ConnsTyped
  <2> QED BY <1>0, <1>3, <2>1, <2>3, PartsNext
      DEF Cas, ConnsTyped, SocksTyped, WorkTyped, LogicTyped, AppTyped
<1>4. CASE ClearConnect(t)
  <2>1. ThreadsTyped'
    BY <1>0, <1>4, GotoTyped DEF ClearConnect, PCs
  <2>2. [conn[c] EXCEPT !.isConnect = FALSE] \in ConnType
    BY <1>0, ConnFields
  <2>3. ConnsTyped'
    BY <1>0, <1>4, <2>2 DEF ClearConnect, ConnsTyped
  <2> QED BY <1>0, <1>4, <2>1, <2>3, PartsNext
      DEF ClearConnect, ConnsTyped, SocksTyped, WorkTyped, LogicTyped, AppTyped
<1>5. CASE DisconnectClosed(t)
  <2>1. ThreadsTyped'
    BY <1>0, <1>5, GotoTyped DEF DisconnectClosed, PCs
  <2>2. ConnsTyped' /\ SocksTyped' /\ WorkTyped'
    BY <1>0, <1>5, DisconnectTyped DEF DisconnectClosed
  <2> QED BY <1>0, <1>5, <2>1, <2>2, PartsNext
      DEF DisconnectClosed, ConnsTyped, SocksTyped, WorkTyped, LogicTyped, AppTyped
<1>6. CASE PostClose(t)
  <2>1. LogicTyped' /\ ThreadsTyped'
    BY <1>0, <1>6, PostMessageTyped DEF PostClose, PCs
  <2> QED BY <1>0, <1>6, <2>1, PartsNext
      DEF PostClose, ConnsTyped, SocksTyped, WorkTyped, LogicTyped, AppTyped
<1>7. CASE Reset(t)
  <2>1. ThreadsTyped'
    BY <1>0, <1>7, GotoTyped DEF Reset, PCs
  <2>2. ConnsTyped'
    <3> DEFINE b == conn[c].hasty \/ Occupied(t)
               k == [conn[c] EXCEPT !.isConnect = FALSE, !.isClosed = FALSE,
                          !.isSendable = TRUE, !.ref = [accept |-> 0, recv |-> 0, send |-> 0],
                          !.unsent = 0, !.taken = 0, !.hasty = b]
    <3>1. b \in BOOLEAN
      BY <1>0, ConnValues
    <3>3. conn' = [conn EXCEPT ![c] = k]
      BY <1>7, Zenon DEF Reset
    <3>2. k \in ConnType
      <4> HIDE DEF b
      <4> QED BY <1>0, <3>1, CountsClosed DEF ConnType
    <3> HIDE DEF k
    <3> QED BY <1>0, <3>2, <3>3, ConnUpdate
  <2> QED BY <1>0, <1>7, <2>1, <2>2, PartsNext
      DEF Reset, ConnsTyped, SocksTyped, WorkTyped, LogicTyped, AppTyped
<1>8. CASE Rearm(t)
  <2> DEFINE k == [conn[c] EXCEPT !.recvOp = "accept"]
  <2>0. k \in ConnType
    BY <1>0, ConnFields
  <2>1. ASSUME conn' = [conn EXCEPT ![c] = [@ EXCEPT !.recvOp = "accept", !.sock = NoSocket]],
               sock' = sock
        PROVE  ConnsTyped' /\ SocksTyped'
    <3>1. NoSocket \in 0..Handles
      BY SessionAssumption DEF NoSocket
    <3>2. [k EXCEPT !.sock = NoSocket] \in ConnType
      BY <2>0, <3>1, ConnFields
    <3> QED BY <1>0, <2>1, <3>2 DEF ConnsTyped, SocksTyped
  <2>2. ASSUME NEW h \in Free(c), NEW accept \in {0, 1}, NEW ref \in Counts,
               conn' = [conn EXCEPT ![c] = [conn[c] EXCEPT !.recvOp = "accept", !.sock = h,
                                                           !.ref.accept = ref]],
               sock' = [sock EXCEPT ![c][h] = [@ EXCEPT !.peer = "fresh", !.accept = accept]]
        PROVE  ConnsTyped' /\ SocksTyped'
    <3> DEFINE k2 == [k EXCEPT !.sock = h]
               k3 == [k2 EXCEPT !.ref.accept = ref]
               s1 == [sock[c][h] EXCEPT !.peer = "fresh"]
    <3>1. h \in 1..Handles /\ h \in 0..Handles
      BY SessionAssumption DEF Free
    <3>2. k2 \in ConnType
      BY <2>0, <3>1, ConnFields
    <3>3. k3 \in ConnType
      BY <3>2, ConnFields
    <3>10. [conn[c] EXCEPT !.recvOp = "accept", !.sock = h, !.ref.accept = ref] = k3
      BY <1>0 DEF ConnType
    <3>4. ConnsTyped'
      BY <1>0, <2>2, <3>3, <3>10 DEF ConnsTyped
    <3>9. sock[c][h] \in SocketType
      BY <1>0, <3>1 DEF SocksTyped
    <3>5. s1 \in SocketType
      BY <3>9, SocketFields DEF PeerStates
    <3>6. [s1 EXCEPT !.accept = accept] \in SocketType
      BY <3>5, SocketFields
    <3>7. SocksTyped'
      BY <1>0, <2>2, <3>1, <3>6, SocketUpdate DEF SocksTyped
    <3> QED BY <3>4, <3>7
  <2>6. conn[c].ref.accept \in Counts /\ Incremented(conn[c].ref.accept) \in Counts
    BY <1>0, ConnValues, CountsClosed
  <2>3. ConnsTyped' /\ SocksTyped'
    BY <1>8, <2>1, <2>2, <2>6, Zenon DEF Rearm
  <2>4. LogicTyped'
    <3>1. pool' \in {pool, pool + 1} /\ logicQ' = logicQ
      BY <1>8, Zenon DEF Rearm
    <3> QED BY <1>0, <3>1 DEF LogicTyped
  <2>5. ThreadsTyped'
    <3> DEFINE k3 == [th[t] EXCEPT !.pc = "appClose"]
    <3>1. k3 \in ThreadType
      BY <1>0, ThreadFields DEF PCs
    <3>2. [k3 EXCEPT !.msg = FALSE] \in ThreadType
      BY <3>1, ThreadFields
    <3>3. [k3 EXCEPT !.msg = FALSE].pc = "appClose"
      BY <1>0 DEF ThreadType
    <3>4. CASE Return(t)
      BY <1>0, <3>4, ReturnTyped
    <3>5. CASE th' = [th EXCEPT ![t] = [k3 EXCEPT !.msg = FALSE]]
      BY <1>0, <3>2, <3>3, <3>5, BecomesTyped
    <3> QED BY <1>8, <3>4, <3>5, Zenon DEF Rearm
  <2> QED BY <1>0, <1>8, <2>3, <2>4, <2>5, PartsNext, Zenon
      DEF Rearm, ConnsTyped, SocksTyped, WorkTyped, LogicTyped, AppTyped
<1> QED BY <1>1, <1>2, <1>3, <1>4, <1>5, <1>6, <1>7, <1>8

\* The steps of WorkThread.
LEMMA WorkTypedSteps ==
  ASSUME TypeOK, NEW w \in Workers, WorkStep(w)
  PROVE  TypeOK'
<1> DEFINE c == th[w].c
<1>0. /\ c \in Conns /\ conn[c] \in ConnType /\ th[w] \in ThreadType /\ w \in Threads
      /\ ConnsTyped /\ SocksTyped /\ WorkTyped /\ LogicTyped /\ ThreadsTyped /\ AppTyped
  BY Here, TypeParts DEF ThreadsTyped, Threads
<1>1. CASE Dequeue(w)
  <2>1. PICK e \in Completions :
          /\ workQ[e] > 0
          /\ workQ' = [workQ EXCEPT ![e] = @ - 1]
          /\ \E kind \in IOKinds :
               LET next == Handler(kind, e.status)
               IN th' = [th EXCEPT ![w] =
                    IF conn[e.c].ref[kind] = 0
                    THEN [IdleThread EXCEPT !.pc = next, !.c = e.c]
                    ELSE [IdleThread EXCEPT !.pc = "decrement", !.c = e.c,
                                            !.op = kind, !.then = next]]
    <3>1. \A e \in Completions : conn[e.c].recvOp \in IOKinds
      BY <1>0, ConnValues DEF ConnsTyped, Completions, IOKinds
    <3> QED BY <1>1, <3>1, Zenon DEF Dequeue, IOKinds
  <2>2. WorkTyped'
    <3>1. workQ[e] - 1 \in Nat
      BY <1>0, <2>1 DEF WorkTyped
    <3> QED BY <1>0, <2>1, <3>1 DEF WorkTyped
  <2>3. e.c \in Conns /\ e.status \in Statuses
    BY DEF Completions
  <2>4. ThreadsTyped'
    <3>1. PICK kind \in IOKinds :
            LET next == Handler(kind, e.status)
            IN th' = [th EXCEPT ![w] =
                 IF conn[e.c].ref[kind] = 0
                 THEN [IdleThread EXCEPT !.pc = next, !.c = e.c]
                 ELSE [IdleThread EXCEPT !.pc = "decrement", !.c = e.c,
                                         !.op = kind, !.then = next]]
      BY <2>1, Zenon
    <3> DEFINE next == Handler(kind, e.status)
    <3>2. next \in PCs \ {"prepare"}
      BY DEF Handler, PCs, IOKinds
    <3>3. [IdleThread EXCEPT !.pc = next, !.c = e.c] \in ThreadType
      BY <2>3, <3>2, ZenonT(40) DEF IdleThread, ThreadType, PCs
    <3>4. [IdleThread EXCEPT !.pc = "decrement", !.c = e.c, !.op = kind, !.then = next]
            \in ThreadType
      BY <2>3, <3>2, ZenonT(40) DEF IdleThread, ThreadType, PCs
    <3>5. /\ [IdleThread EXCEPT !.pc = next, !.c = e.c].pc = next
          /\ [IdleThread EXCEPT !.pc = "decrement", !.c = e.c, !.op = kind, !.then = next].pc
               = "decrement"
      BY DEF IdleThread
    <3> QED BY <1>0, <3>1, <3>2, <3>3, <3>4, <3>5, BecomesTyped
  <2> QED BY <1>0, <1>1, <2>2, <2>4, PartsNext
      DEF Dequeue, ConnsTyped, SocksTyped, LogicTyped, AppTyped
<1>3. CASE Bind(w) \/ CheckConnect(w)
  <2>1. ThreadsTyped'
    BY <1>0, <1>3, GotoTyped DEF Bind, CheckConnect, PCs
  <2> QED BY <1>3, <2>1, StillTyped DEF Bind, CheckConnect, Still
<1>4. CASE SetConnect(w)
  <2>1. ConnsTyped'
    BY <1>0, <1>4, ConnFields, ConnUpdate DEF SetConnect
  <2>2. ThreadsTyped'
    <3>1. [th[w] EXCEPT !.pc = "checkConnect", !.then = "announce"] \in ThreadType
      BY ZenonT(40), <1>0 DEF ThreadType, PCs
    <3>2. [th[w] EXCEPT !.pc = "checkConnect", !.then = "announce"].pc = "checkConnect"
      BY <1>0 DEF ThreadType
    <3> QED BY <1>0, <1>4, <3>1, <3>2, BecomesTyped DEF SetConnect
  <2> QED BY <1>0, <1>4, <2>1, <2>2, PartsNext
      DEF SetConnect, SocksTyped, WorkTyped, LogicTyped, AppTyped
<1>5. CASE Announce(w)
  <2>1. LogicTyped' /\ ThreadsTyped'
    BY <1>0, <1>5, PostMessageTyped DEF Announce, PCs
  <2> QED BY <1>0, <1>5, <2>1, PartsNext DEF Announce, ConnsTyped, SocksTyped, WorkTyped, AppTyped
<1>6. CASE DropConn(w)
  <2>1. ThreadsTyped'
    BY <1>0, <1>6, GotoTyped DEF DropConn, PCs
  <2>2. ConnsTyped' /\ SocksTyped' /\ WorkTyped'
    BY <1>0, <1>6, DisconnectTyped DEF DropConn
  <2> QED BY <1>0, <1>6, <2>1, <2>2, PartsNext DEF DropConn, LogicTyped, AppTyped
<1>7. CASE Deliver(w)
  <2>1. [op |-> "packet", c |-> c] \in Messages
    BY <1>0 DEF Messages
  <2>2. LogicTyped'
    <3>1. \/ logicQ' = Append(logicQ, [op |-> "packet", c |-> c]) /\ pool > 0 /\ pool' = pool - 1
          \/ UNCHANGED <<pool, logicQ>>
      BY <1>7 DEF Deliver
    <3> QED BY <1>0, <2>1, <3>1 DEF LogicTyped
  <2>3. ThreadsTyped'
    <3>1. [th[w] EXCEPT !.n = th[w].n + 1] \in ThreadType
      BY <1>0, ThreadFields
    <3>2. [th[w] EXCEPT !.n = th[w].n + 1].pc = "deliver"
      BY <1>0, <1>7 DEF ThreadType, Deliver, At
    <3>3. ASSUME th' = [th EXCEPT ![w].n = @ + 1] PROVE ThreadsTyped'
      BY <1>0, <3>1, <3>2, <3>3, BecomesTyped
    <3> QED BY <1>0, <1>7, <3>3, ReturnTyped DEF Deliver
  <2> QED BY <1>0, <1>7, <2>2, <2>3, PartsNext
      DEF Deliver, ConnsTyped, SocksTyped, WorkTyped, AppTyped
<1>8. CASE WrongPacket(w) \/ Delivered(w)
  <2>1. ASSUME NEW p \in {"close", "checkConnect"}
        PROVE  /\ [th[w] EXCEPT !.pc = p, !.n = 0] \in ThreadType
               /\ [th[w] EXCEPT !.pc = p, !.n = 0].pc = p
    BY ZenonT(40), <1>0 DEF ThreadType, PCs
  <2>2. ThreadsTyped'
    BY <1>0, <1>8, <2>1, BecomesTyped DEF WrongPacket, Delivered
  <2> QED BY <1>8, <2>2, StillTyped DEF WrongPacket, Delivered, Still
<1>9. CASE IncRecv(w)
  <2>1. ThreadsTyped'
    BY <1>0, <1>9, GotoTyped DEF IncRecv, PCs
  <2>2. ConnsTyped'
    <3>1. Incremented(conn[c].ref.recv) \in Counts
      BY <1>0, ConnValues, CountsClosed
    <3>2. [conn[c] EXCEPT !.recvOp = "recv", !.ref.recv = Incremented(@)] \in ConnType
      BY <1>0, <3>1 DEF ConnType
    <3> QED BY <1>0, <1>9, <3>2, ConnUpdate DEF IncRecv
  <2> QED BY <1>0, <1>9, <2>1, <2>2, PartsNext
      DEF IncRecv, SocksTyped, WorkTyped, LogicTyped, AppTyped
<1>10. CASE WsaRecv(w)
  <2>1. ThreadsTyped'
    BY <1>0, <1>10, GotoTyped, ReturnTyped, TakeBackTyped DEF WsaRecv, PCs, IOKinds
  <2>2. ASSUME Accepts(c), sock' = [sock EXCEPT ![c][conn[c].sock].recv = @ + 1], UNCHANGED conn
        PROVE  ConnsTyped' /\ SocksTyped'
    <3>1. conn[c].sock # NoSocket
      BY <2>2, Zenon DEF Accepts, Peer
    <3> DEFINE h == conn[c].sock
    <3>2. h \in 1..Handles /\ sock[c][h] \in SocketType
      BY <1>0, <3>1, Here
    <3>4. sock[c][h].recv + 1 \in Nat
      BY <3>2, SocketFields
    <3>3. [sock[c][h] EXCEPT !.recv = sock[c][h].recv + 1] \in SocketType
      BY <3>2, <3>4, SocketFields, Zenon
    <3> QED BY <1>0, <2>2, <3>2, <3>3, SocketUpdate, Zenon DEF ConnsTyped, SocksTyped
  <2>4. ConnsTyped' /\ SocksTyped'
    BY <1>0, <1>10, <2>2, Zenon DEF WsaRecv, ConnsTyped, SocksTyped
  <2> QED BY <1>0, <1>10, <2>1, <2>4, PartsNext, Zenon DEF WsaRecv, WorkTyped, LogicTyped, AppTyped
<1>11. CASE Sent(w)
  <2>1. ThreadsTyped'
    BY <1>0, <1>11, GotoTyped DEF Sent, PCs
  <2>2. [conn[c] EXCEPT !.ref.send = Incremented(conn[c].ref.send)] \in ConnType
    BY <1>0, ConnFields, ConnValues, CountsClosed
  <2>3. ASSUME NEW n \in Nat PROVE [conn[c] EXCEPT !.unsent = n] \in ConnType
    BY <1>0, ConnFields
  <2>4. (IF conn[c].taken > conn[c].unsent THEN 0 ELSE conn[c].unsent - conn[c].taken) \in Nat
    BY <1>0, ConnValues
  <2>5. ConnsTyped'
    BY <1>0, <1>11, <2>2, <2>3, <2>4, ConnUpdate DEF Sent
  <2> QED BY <1>0, <1>11, <2>1, <2>5, PartsNext
      DEF Sent, SocksTyped, WorkTyped, LogicTyped, AppTyped
<1>12. CASE SetSendable(w)
  <2>1. ThreadsTyped'
    BY <1>0, <1>12, GotoTyped DEF SetSendable, PCs
  <2>2. ConnsTyped'
    BY <1>0, <1>12, ConnFields, ConnUpdate DEF SetSendable
  <2> QED BY <1>0, <1>12, <2>1, <2>2, PartsNext
      DEF SetSendable, SocksTyped, WorkTyped, LogicTyped, AppTyped
<1> QED BY <1>1, <1>3, <1>4, <1>5, <1>6, <1>7, <1>8, <1>9, <1>10, <1>11, <1>12 DEF WorkStep

\* PostSend, on a worker or in a handler.
LEMMA SendingTyped ==
  ASSUME TypeOK, NEW t \in Threads,
         Claim(t) \/ Take(t) \/ Unclaim(t) \/ WsaSend(t) \/ Decrement(t)
  PROVE  TypeOK'
<1> DEFINE c == th[t].c
<1>0. /\ c \in Conns /\ conn[c] \in ConnType /\ th[t] \in ThreadType
      /\ ConnsTyped /\ SocksTyped /\ WorkTyped /\ LogicTyped /\ ThreadsTyped /\ AppTyped
  BY Here, TypeParts DEF ThreadsTyped
<1>1. CASE Claim(t)
  <2>1. ThreadsTyped'
    BY <1>0, <1>1, GotoTyped, ReturnTyped DEF Claim, PCs
  <2>2. [conn[c] EXCEPT !.isSendable = FALSE] \in ConnType
    BY <1>0, ConnFields, Zenon
  <2>3. ConnsTyped'
    BY <1>0, <1>1, <2>2, ConnUpdate DEF Claim, ConnsTyped
  <2> QED BY <1>0, <1>1, <2>1, <2>3, PartsNext
      DEF Claim, SocksTyped, WorkTyped, LogicTyped, AppTyped
<1>2. CASE Take(t)
  <2>1. ThreadsTyped'
    BY <1>0, <1>2, GotoTyped, Zenon DEF Take, PCs
  <2>2. ASSUME NEW k \in 1..conn[c].unsent
        PROVE  [conn[c] EXCEPT !.taken = k, !.ref.send = Incremented(@)] \in ConnType
    <3>1. k \in Nat /\ Incremented(conn[c].ref.send) \in Counts
      BY <1>0, ConnValues, CountsClosed
    <3> QED BY <1>0, <3>1, Zenon DEF ConnType
  <2>3. ConnsTyped'
    BY <1>0, <1>2, <2>2, ConnUpdate, Zenon DEF Take, ConnsTyped
  <2> QED BY <1>0, <1>2, <2>1, <2>3, PartsNext, Zenon
      DEF Take, SocksTyped, WorkTyped, LogicTyped, AppTyped
<1>3. CASE Unclaim(t)
  <2>1. ThreadsTyped'
    BY <1>0, <1>3, ReturnTyped DEF Unclaim
  <2>2. ConnsTyped'
    BY <1>0, <1>3, ConnFields, ConnUpdate, Zenon DEF Unclaim
  <2> QED BY <1>0, <1>3, <2>1, <2>2, PartsNext
      DEF Unclaim, SocksTyped, WorkTyped, LogicTyped, AppTyped
<1>4. CASE WsaSend(t)
  <2>1. ThreadsTyped'
    BY <1>0, <1>4, ReturnTyped, TakeBackTyped, Zenon DEF WsaSend, IOKinds
  <2>2. ASSUME Accepts(c), sock' = [sock EXCEPT ![c][conn[c].sock].send = @ + 1], UNCHANGED conn
        PROVE  ConnsTyped' /\ SocksTyped'
    <3>1. conn[c].sock # NoSocket
      BY <2>2, Zenon DEF Accepts, Peer
    <3> DEFINE h == conn[c].sock
    <3>2. h \in 1..Handles /\ sock[c][h] \in SocketType
      BY <1>0, <3>1, Here
    <3>3. sock[c][h].send + 1 \in Nat
      BY <3>2, SocketFields, SMTT(30)
    <3>4. [sock[c][h] EXCEPT !.send = sock[c][h].send + 1] \in SocketType
      BY <3>2, <3>3, SocketFields
    <3> QED BY <1>0, <2>2, <3>2, <3>4, SocketUpdate, Zenon DEF ConnsTyped, SocksTyped
  <2>4. ConnsTyped' /\ SocksTyped'
    BY <1>0, <1>4, <2>2, Zenon DEF WsaSend, ConnsTyped, SocksTyped
  <2> QED BY <1>0, <1>4, <2>1, <2>4, PartsNext, Zenon DEF WsaSend, WorkTyped, LogicTyped, AppTyped
<1>5. CASE Decrement(t)
  <2>1. th[t].op \in {"accept", "recv", "send", "none", "close"} /\ th[t].then \in PCs \ {"prepare"}
    BY <1>0, ThreadFields DEF IOKinds
  <2>2. ConnsTyped'
    <3>1. \A k \in IOKinds : conn[c].ref[k] \in Counts
      BY <1>0 DEF ConnType, IOKinds
    <3>2. [conn[c].ref EXCEPT ![th[t].op] = Decremented(@)]
             \in [accept: Counts, recv: Counts, send: Counts]
      BY <1>0, <2>1, CountsClosed DEF ConnType
    <3>3. [conn[c] EXCEPT !.ref = [conn[c].ref EXCEPT ![th[t].op] = Decremented(@)]] \in ConnType
      BY <1>0, <3>2 DEF ConnType
    <3> QED BY <1>0, <1>5, <3>3, ConnUpdate DEF Decrement
  <2>3. ThreadsTyped'
    <3> DEFINE k == [th[t] EXCEPT !.pc = th[t].then, !.op = "none", !.then = "idle"]
    <3>1. k \in ThreadType /\ k.pc = th[t].then
      BY <1>0, <2>1, ZenonT(100) DEF ThreadType, PCs
    <3>2. th' = [th EXCEPT ![t] = k]
      BY <1>5, Zenon DEF Decrement
    <3> HIDE DEF k
    <3> QED BY <1>0, <2>1, <3>1, <3>2, BecomesTyped
  <2> QED BY <1>0, <1>5, <2>2, <2>3, PartsNext
      DEF Decrement, SocksTyped, WorkTyped, LogicTyped, AppTyped
<1> QED BY <1>1, <1>2, <1>3, <1>4, <1>5

LEMMA PopFacts ==
  ASSUME LogicTyped, NEW l \in Logics, NEW type, Pop(l, type)
  PROVE  Head(logicQ).c \in Conns /\ logicQ' \in Seq(Messages)
<1>1. Head(logicQ) \in Messages /\ Tail(logicQ) \in Seq(Messages)
  BY DEF Pop, LogicTyped
<1> QED BY <1>1 DEF Pop, Messages

\* The steps of the logic threads.
LEMMA LogicTypedSteps ==
  ASSUME TypeOK, NEW l \in Logics, LogicStep(l)
  PROVE  TypeOK'
<1> DEFINE c == th[l].c
<1>0. /\ c \in Conns /\ conn[c] \in ConnType /\ th[l] \in ThreadType /\ l \in Threads
      /\ ConnsTyped /\ SocksTyped /\ WorkTyped /\ LogicTyped /\ ThreadsTyped /\ AppTyped
  BY Here, TypeParts DEF ThreadsTyped, Threads
<1>1. CASE PopConnection(l)
  <2>1. Head(logicQ).c \in Conns /\ logicQ' \in Seq(Messages)
    BY <1>0, <1>1, PopFacts DEF PopConnection
  <2>2. ASSUME NEW d \in Conns
        PROVE  /\ [IdleThread EXCEPT !.pc = "connCheck", !.c = d, !.msg = TRUE] \in ThreadType
               /\ [IdleThread EXCEPT !.pc = "connCheck", !.c = d, !.msg = TRUE].pc = "connCheck"
    BY DEF IdleThread, ThreadType, PCs
  <2>3. ThreadsTyped'
    BY <1>0, <1>1, <2>1, <2>2, BecomesTyped, Zenon DEF PopConnection
  <2> QED BY <1>0, <1>1, <2>1, <2>3, PartsNext
          DEF PopConnection, ConnsTyped, SocksTyped, WorkTyped, LogicTyped, AppTyped
<1>2. CASE ConnCheck(l)
  <2> DEFINE k == [th[l] EXCEPT !.pc = "appConnect"]
  <2>1. k \in ThreadType
    BY <1>0, ThreadFields DEF PCs
  <2>2. [k EXCEPT !.msg = FALSE] \in ThreadType
    BY <2>1, ThreadFields
  <2>3. [k EXCEPT !.msg = FALSE].pc = "appConnect"
    BY <1>0 DEF ThreadType
  <2>4. ThreadsTyped'
    BY <1>0, <1>2, <2>2, <2>3, IdleTyped, BecomesTyped DEF ConnCheck
  <2> QED BY <1>0, <1>2, <2>4, PartsNext
          DEF ConnCheck, ConnsTyped, SocksTyped, WorkTyped, LogicTyped, AppTyped
<1>3. CASE AppConnect(l) \/ AppClose(l)
  <2>1. ThreadsTyped'
    BY <1>0, <1>3, ReturnTyped DEF AppConnect, AppClose
  <2>2. AppTyped'
    BY <1>0, <1>3 DEF AppConnect, AppClose, AppTyped
  <2> QED BY <1>0, <1>3, <2>1, <2>2, PartsNext
          DEF AppConnect, AppClose, ConnsTyped, SocksTyped, WorkTyped, LogicTyped
<1>4. CASE PopClose(l)
  <2>1. Head(logicQ).c \in Conns /\ logicQ' \in Seq(Messages)
    BY <1>0, <1>4, PopFacts DEF PopClose
  <2>2. ASSUME NEW d \in Conns
        PROVE  /\ [IdleThread EXCEPT !.pc = "reset", !.c = d, !.op = "close", !.msg = TRUE]
                    \in ThreadType
               /\ [IdleThread EXCEPT !.pc = "reset", !.c = d, !.op = "close", !.msg = TRUE].pc
                    = "reset"
    BY DEF IdleThread, ThreadType, PCs
  <2>3. ThreadsTyped'
    BY <1>0, <1>4, <2>1, <2>2, BecomesTyped, Zenon DEF PopClose
  <2> QED BY <1>0, <1>4, <2>1, <2>3, PartsNext
          DEF PopClose, ConnsTyped, SocksTyped, WorkTyped, LogicTyped, AppTyped
<1>5. CASE PopPacket(l)
  <2>1. logicQ' \in Seq(Messages) /\ pool' \in Nat
    BY <1>0, <1>5, PopFacts DEF PopPacket, LogicTyped
  <2>2. PICK n \in 0..MaxSends : th' = [th EXCEPT ![l] = IF n = 0 THEN IdleThread ELSE Preparing(n)]
    BY <1>5 DEF PopPacket
  <2>3. n \in Nat
    BY SessionAssumption
  <2>4. ThreadsTyped'
    <3>1. CASE n = 0
      BY <1>0, <2>2, <3>1, IdleTyped, BecomesTyped
    <3>2. CASE n # 0
      <4>1. n > 0
        BY <2>3, <3>2
      <4> QED BY <1>0, <2>2, <2>3, <3>2, <4>1, PreparingTyped, BecomesTyped
    <3> QED BY <3>1, <3>2
  <2> QED BY <1>0, <1>5, <2>1, <2>4, PartsNext
          DEF PopPacket, ConnsTyped, SocksTyped, WorkTyped, LogicTyped, AppTyped
<1>6. CASE Prepare(l)
  <2>1. th[l].n - 1 \in Nat
    BY <1>0, <1>6, ThreadFields DEF ThreadsTyped, Prepare, At
  <2>2. ASSUME NEW d \in Conns, NEW p \in {"close", "commit"}
        PROVE  /\ [[IdleThread EXCEPT !.c = d, !.n = th[l].n - 1] EXCEPT !.pc = p] \in ThreadType
               /\ [[IdleThread EXCEPT !.c = d, !.n = th[l].n - 1] EXCEPT !.pc = p].pc = p
    BY <2>1 DEF IdleThread, ThreadType, PCs
  <2>3. ASSUME NEW d \in Conns
        PROVE  [IdleThread EXCEPT !.c = d, !.n = th[l].n - 1].n = th[l].n - 1
    BY DEF IdleThread
  <2>4. PICK d \in Conns :
          LET at == [IdleThread EXCEPT !.c = d, !.n = th[l].n - 1] IN
            \/ th' = [th EXCEPT ![l] = IdleThread]
            \/ at.n # 0 /\ th' = [th EXCEPT ![l] = Preparing(at.n)]
            \/ th' = [th EXCEPT ![l] = [at EXCEPT !.pc = "close"]]
            \/ th' = [th EXCEPT ![l] = [at EXCEPT !.pc = "commit"]]
    BY <1>6, Zenon DEF Prepare
  <2>5. ThreadsTyped'
    <3>1. CASE th' = [th EXCEPT ![l] = IdleThread]
      BY <1>0, <3>1, IdleTyped, BecomesTyped
    <3>2. CASE th[l].n - 1 # 0 /\ th' = [th EXCEPT ![l] = Preparing(th[l].n - 1)]
      <4>2. \A n \in Nat : n # 0 => n > 0
        OBVIOUS
      <4>1. th[l].n - 1 > 0
        BY <2>1, <3>2, <4>2
      <4> QED BY <1>0, <2>1, <3>2, <4>1, PreparingTyped, BecomesTyped
    <3>3. ASSUME NEW p \in {"close", "commit"},
                 th' = [th EXCEPT ![l] =
                          [[IdleThread EXCEPT !.c = d, !.n = th[l].n - 1] EXCEPT !.pc = p]]
          PROVE  ThreadsTyped'
      BY <1>0, <2>2, <3>3, BecomesTyped, Zenon
    <3> QED BY <2>3, <2>4, <3>1, <3>2, <3>3
  <2> QED BY <1>6, <2>5, StillTyped DEF Prepare, Still
<1>7. CASE Commit(l)
  <2>1. ThreadsTyped'
    BY <1>0, <1>7, GotoTyped DEF Commit, PCs
  <2>2. conn[c].unsent + 1 \in Nat
    BY <1>0, ConnValues
  <2>3. [conn[c] EXCEPT !.unsent = conn[c].unsent + 1] \in ConnType
    BY <1>0, <2>2, ConnFields
  <2>4. ConnsTyped'
    BY <1>0, <1>7, <2>3, ConnUpdate DEF Commit
  <2> QED BY <1>0, <1>7, <2>1, <2>4, PartsNext
      DEF Commit, SocksTyped, WorkTyped, LogicTyped, AppTyped
<1> QED BY <1>1, <1>2, <1>3, <1>4, <1>5, <1>6, <1>7 DEF LogicStep

\* The kernel and the peers.
LEMMA KernelTyped ==
  ASSUME TypeOK, Arrive \/ Leave \/ Kernel
  PROVE  TypeOK'
<1>0. ConnsTyped /\ SocksTyped /\ WorkTyped /\ LogicTyped /\ ThreadsTyped /\ AppTyped
  BY TypeParts
<1>1. ASSUME NEW c \in Conns, NEW h \in 1..Handles,
             NEW s \in SocketType, sock' = [sock EXCEPT ![c][h] = s],
             \/ workQ' = workQ
             \/ \E ovl \in Overlapped, status \in Statuses : workQ' = Queue(workQ, c, ovl, status, 1),
             UNCHANGED <<conn, logicQ, pool, th, app>>
      PROVE  TypeOK'
  <2>1. SocksTyped'
    BY <1>0, <1>1, SocketUpdate DEF SocksTyped
  <2>2. WorkTyped'
    BY <1>0, <1>1, QueueTyped DEF WorkTyped
  <2> QED BY <1>0, <1>1, <2>1, <2>2, PartsNext DEF ConnsTyped, LogicTyped, ThreadsTyped, AppTyped
<1>2. ASSUME NEW c \in Conns, NEW h \in 1..Handles
      PROVE  /\ sock[c][h] \in SocketType
             /\ [sock[c][h] EXCEPT !.peer = "down"] \in SocketType
             /\ [sock[c][h] EXCEPT !.peer = "up", !.accept = 0] \in SocketType
             /\ sock[c][h].recv > 0 => [sock[c][h] EXCEPT !.recv = @ - 1] \in SocketType
             /\ sock[c][h].send > 0 => [sock[c][h] EXCEPT !.send = @ - 1] \in SocketType
  <2> DEFINE k == sock[c][h]
  <2>1. k \in SocketType
    BY <1>0 DEF SocksTyped
  <2>2. [k EXCEPT !.peer = "down"] \in SocketType /\ [k EXCEPT !.peer = "up"] \in SocketType
    BY <2>1, SocketFields DEF PeerStates
  <2>3. [k EXCEPT !.peer = "up", !.accept = 0] \in SocketType
    BY <2>2, SocketFields
  <2>4. k.recv > 0 => k.recv - 1 \in Nat
    BY <2>1, SocketFields
  <2>5. k.send > 0 => k.send - 1 \in Nat
    BY <2>1, SocketFields
  <2> QED BY <2>1, <2>2, <2>3, <2>4, <2>5, SocketFields
<1>3. ASSUME NEW c \in Conns, NEW h \in 1..Handles, ClientConnects(c, h) PROVE TypeOK'
  BY <1>1, <1>2, <1>3, Zenon DEF ClientConnects, Overlapped, Statuses
<1>4. ASSUME NEW c \in Conns, NEW h \in 1..Handles, ClientSends(c, h) PROVE TypeOK'
  BY <1>1, <1>2, <1>4, Zenon DEF ClientSends, Overlapped, Statuses
<1>5. ASSUME NEW c \in Conns, NEW h \in 1..Handles, ClientLeaves(c, h) PROVE TypeOK'
  BY <1>1, <1>2, <1>5, Zenon DEF ClientLeaves
<1>6. ASSUME NEW c \in Conns, NEW h \in 1..Handles, RecvEnds(c, h) PROVE TypeOK'
  BY <1>1, <1>2, <1>6, Zenon DEF RecvEnds, Overlapped, Statuses
<1>7. ASSUME NEW c \in Conns, NEW h \in 1..Handles, SendEnds(c, h) PROVE TypeOK'
  BY <1>1, <1>2, <1>7, Zenon DEF SendEnds, Overlapped, Statuses
<1> QED BY <1>3, <1>4, <1>5, <1>6, <1>7 DEF Arrive, Leave, Kernel

LEMMA NextTyped == TypeOK /\ [Next]_vars => TypeOK'
<1> SUFFICES ASSUME TypeOK, [Next]_vars PROVE TypeOK'
  OBVIOUS
<1>1. CASE UNCHANGED vars
  BY <1>1 DEF vars, TypeOK
<1>2. ASSUME NEW w \in Workers, WorkStep(w) PROVE TypeOK'
  BY <1>2, WorkTypedSteps
<1>3. ASSUME NEW l \in Logics, LogicStep(l) PROVE TypeOK'
  BY <1>3, LogicTypedSteps
<1>4. ASSUME NEW t \in Threads, SharedStep(t) PROVE TypeOK'
  BY <1>4, ClosingTyped, SendingTyped DEF SharedStep
<1>5. CASE Arrive \/ Leave \/ Kernel
  BY <1>5, KernelTyped
<1> QED BY <1>1, <1>2, <1>3, <1>4, <1>5 DEF Next, Server

\* Counts never leave their range, no pool or ring count goes below nothing,
\* and a socket is used only where there is one.
THEOREM TypeCorrect == Spec => []TypeOK
  BY InitTyped, NextTyped, PTL DEF Spec

----------------------------------------------------------------------------
(* A claimed close is never lost.                                          *)

IInv == TypeOK /\ ClosePending

\* A step of a thread that closes nothing: no flag IsClosed changes, no
\* message leaves the queue, and no other thread moves.
Aside(t) ==
  /\ th[t].pc \notin Closing
  /\ \A u \in Threads \ {t} : th'[u] = th[u]
  /\ \A d \in Conns : conn'[d].isClosed = conn[d].isClosed
  /\ logicQ' = logicQ \/ \E m \in Messages : logicQ' = Append(logicQ, m)

LEMMA QueueKept ==
  ASSUME LogicTyped, logicQ' = logicQ \/ \E m \in Messages : logicQ' = Append(logicQ, m)
  PROVE  \A i \in DOMAIN logicQ : i \in DOMAIN logicQ' /\ logicQ'[i] = logicQ[i]
  BY DEF LogicTyped

LEMMA AsideKeeps ==
  ASSUME IInv, NEW t \in Threads, Aside(t)
  PROVE  ClosePending'
<1> SUFFICES ASSUME NEW c \in Conns, conn[c].isClosed' PROVE Carried(c)'
  BY DEF ClosePending
<1>1. Carried(c)
  BY DEF IInv, ClosePending, Aside
<1>2. CASE \E u \in Threads : th[u].c = c /\ th[u].pc \in Closing
  <2>1. PICK u \in Threads : th[u].c = c /\ th[u].pc \in Closing
    BY <1>2
  <2>2. th'[u] = th[u]
    BY <2>1 DEF Aside
  <2> QED BY <2>1, <2>2 DEF Carried, Closing
<1>3. CASE \E i \in DOMAIN logicQ : logicQ[i] = [op |-> "close", c |-> c]
  BY <1>3, QueueKept, TypeParts DEF Aside, IInv, Carried
<1> QED BY <1>1, <1>2, <1>3 DEF Carried

\* What leaves IsClosed alone.
LEMMA SameClosed ==
  ASSUME ConnsTyped, NEW c \in Conns, NEW k, k.isClosed = conn[c].isClosed,
         conn' = [conn EXCEPT ![c] = k]
  PROVE  \A d \in Conns : conn'[d].isClosed = conn[d].isClosed
  BY DEF ConnsTyped

LEMMA DisconnectSame ==
  ASSUME ConnsTyped, NEW c \in Conns, Disconnect(c)
  PROVE  \A d \in Conns : conn'[d].isClosed = conn[d].isClosed
<1>1. conn[c] \in ConnType
  BY DEF ConnsTyped
<1>2. [conn[c] EXCEPT !.sock = NoSocket].isClosed = conn[c].isClosed
  BY <1>1 DEF ConnType
<1> QED BY <1>2, SameClosed DEF Disconnect

\* Everything a worker does before it closes, and the sends, are aside.
LEMMA WorkAside ==
  ASSUME IInv, NEW w \in Workers, WorkStep(w)
  PROVE  Aside(w)
<1>0. /\ w \in Threads /\ th[w].c \in Conns /\ conn[th[w].c] \in ConnType
      /\ ConnsTyped /\ ThreadsTyped
  BY Here, TypeParts DEF IInv, Threads
<1>1. th[w].pc \notin Closing
  BY Zenon DEF WorkStep, Dequeue, Bind, SetConnect, Announce, DropConn, Deliver,
      WrongPacket,
         Delivered, CheckConnect, IncRecv, WsaRecv, Sent, SetSendable, At, Closing
<1>2. \A u \in Threads \ {w} : th'[u] = th[u]
  BY <1>0, Zenon DEF WorkStep, Dequeue, Bind, SetConnect, Announce, PostMessage,
      DropConn,
         Deliver, WrongPacket, Delivered, CheckConnect, IncRecv, WsaRecv, Sent, SetSendable,
         TakeBack, Goto, Return, ThreadsTyped
<1>3. logicQ' = logicQ \/ \E m \in Messages : logicQ' = Append(logicQ, m)
  <2>1. \A op \in {"connection", "packet"} : [op |-> op, c |-> th[w].c] \in Messages
    BY <1>0 DEF Messages
  <2> QED BY <2>1, Zenon
       DEF WorkStep, Dequeue, Bind, SetConnect, Announce, PostMessage, DropConn,
            Deliver, WrongPacket, Delivered, CheckConnect, IncRecv, WsaRecv, Sent, SetSendable
<1>4. \A d \in Conns : conn'[d].isClosed = conn[d].isClosed
  <2> DEFINE c == th[w].c
  <2>2. CASE SetConnect(w)
    <3>1. [conn[c] EXCEPT !.isConnect = TRUE].isClosed = conn[c].isClosed
      BY <1>0 DEF ConnType
    <3> QED BY <1>0, <2>2, <3>1, SameClosed DEF SetConnect
  <2>3. CASE DropConn(w)
    BY <1>0, <2>3, DisconnectSame DEF DropConn
  <2>4. CASE IncRecv(w)
    <3>1. [conn[c] EXCEPT !.recvOp = "recv", !.ref.recv = Incremented(@)].isClosed = conn[c].isClosed
      BY <1>0 DEF ConnType
    <3> QED BY <1>0, <2>4, <3>1, SameClosed DEF IncRecv
  <2>6. CASE Sent(w)
    <3> DEFINE n == IF conn[c].taken > conn[c].unsent THEN 0 ELSE conn[c].unsent - conn[c].taken
    <3>1. /\ [conn[c] EXCEPT !.ref.send = Incremented(@)].isClosed = conn[c].isClosed
          /\ [conn[c] EXCEPT !.unsent = n].isClosed = conn[c].isClosed
      BY <1>0 DEF ConnType
    <3>2. \/ conn' = [conn EXCEPT ![c] = [conn[c] EXCEPT !.ref.send = Incremented(@)]]
          \/ conn' = [conn EXCEPT ![c] = [conn[c] EXCEPT !.unsent = n]]
      BY <2>6 DEF Sent
    <3> QED BY <1>0, <3>1, <3>2, SameClosed, ZenonT(40)
  <2>7. CASE SetSendable(w)
    <3>1. [conn[c] EXCEPT !.isSendable = TRUE].isClosed = conn[c].isClosed
      BY <1>0 DEF ConnType
    <3> QED BY <1>0, <2>7, <3>1, SameClosed DEF SetSendable
  <2>8. CASE UNCHANGED conn
    BY <2>8
  <2> QED BY <2>2, <2>3, <2>4, <2>6, <2>7, <2>8, Zenon
       DEF WorkStep, Dequeue, Bind, Announce, Deliver, WrongPacket, Delivered, CheckConnect, WsaRecv
<1> QED BY <1>1, <1>2, <1>3, <1>4 DEF Aside

LEMMA SharedAside ==
  ASSUME IInv, NEW t \in Threads,
         \/ Close(t) \/ Hangup(t) \/ Rearm(t)
         \/ Claim(t) \/ Take(t) \/ Unclaim(t) \/ WsaSend(t) \/ Decrement(t)
  PROVE  Aside(t)
<1>0. th[t].c \in Conns /\ conn[th[t].c] \in ConnType /\ ConnsTyped /\ ThreadsTyped
  BY Here, TypeParts DEF IInv
<1>1. th[t].pc \notin Closing
  BY Zenon DEF Close, Hangup, Rearm, Claim, Take, Unclaim, WsaSend, Decrement, At, Closing
<1>2. \A u \in Threads \ {t} : th'[u] = th[u]
  BY <1>0, Zenon DEF Close, Hangup, Rearm, Claim, Take, Unclaim, WsaSend, Decrement, TakeBack, Goto,
      Return, ThreadsTyped
<1>3. logicQ' = logicQ
  BY Zenon DEF Close, Hangup, Rearm, Claim, Take, Unclaim, WsaSend, Decrement
<1>4. \A d \in Conns : conn'[d].isClosed = conn[d].isClosed
  <2> DEFINE c == th[t].c
  <2>1. CASE Hangup(t)
    BY <1>0, <2>1, DisconnectSame DEF Hangup
  <2>2. CASE Rearm(t)
    <3>1. \A h, n : [conn[c] EXCEPT !.recvOp = "accept", !.sock = h,
                                    !.ref.accept = n].isClosed = conn[c].isClosed
      BY <1>0 DEF ConnType
    <3>2. [conn[c] EXCEPT !.recvOp = "accept", !.sock = NoSocket].isClosed = conn[c].isClosed
      BY <1>0 DEF ConnType
    <3>3. \/ conn' = [conn EXCEPT ![c] = [conn[c] EXCEPT !.recvOp = "accept", !.sock = NoSocket]]
          \/ \E h, n : conn' = [conn EXCEPT ![c] = [conn[c] EXCEPT !.recvOp = "accept", !.sock = h,
                                                                 !.ref.accept = n]]
      BY <2>2, Zenon DEF Rearm
    <3>4. ASSUME NEW h, NEW n,
                 conn' = [conn EXCEPT ![c] = [conn[c] EXCEPT !.recvOp = "accept", !.sock = h,
                                                             !.ref.accept = n]]
          PROVE  \A d \in Conns : conn'[d].isClosed = conn[d].isClosed
      <4> DEFINE k == [conn[c] EXCEPT !.recvOp = "accept", !.sock = h, !.ref.accept = n]
      <4>1. k.isClosed = conn[c].isClosed /\ conn' = [conn EXCEPT ![c] = k]
        BY <3>1, <3>4
      <4> HIDE DEF k
      <4> QED BY <1>0, <4>1, SameClosed
    <3>5. CASE conn' = [conn EXCEPT ![c] = [conn[c] EXCEPT !.recvOp = "accept", !.sock = NoSocket]]
      BY <1>0, <3>2, <3>5, SameClosed
    <3> QED BY <3>3, <3>4, <3>5
  <2>3. CASE Claim(t)
    <3>1. [conn[c] EXCEPT !.isSendable = FALSE].isClosed = conn[c].isClosed
      BY <1>0 DEF ConnType
    <3> QED BY <1>0, <2>3, <3>1, SameClosed, Zenon DEF Claim
  <2>4. CASE Take(t)
    <3>1. \A k : [conn[c] EXCEPT !.taken = k, !.ref.send = Incremented(@)].isClosed = conn[c].isClosed
      BY <1>0 DEF ConnType
    <3> QED BY <1>0, <2>4, <3>1, SameClosed, Zenon DEF Take
  <2>5. CASE Unclaim(t)
    <3>1. [conn[c] EXCEPT !.isSendable = TRUE].isClosed = conn[c].isClosed
      BY <1>0 DEF ConnType
    <3> QED BY <1>0, <2>5, <3>1, SameClosed DEF Unclaim
  <2>6. CASE WsaSend(t)
    BY <2>6, Zenon DEF WsaSend
  <2>7. CASE Close(t)
    BY <2>7 DEF Close
  <2>8. CASE Decrement(t)
    <3>1. [conn[c] EXCEPT !.ref[th[t].op] = Decremented(@)].isClosed = conn[c].isClosed
      BY <1>0 DEF ConnType
    <3> QED BY <1>0, <2>8, <3>1, SameClosed DEF Decrement
  <2> QED BY <2>1, <2>2, <2>3, <2>4, <2>5, <2>6, <2>7, <2>8
<1> QED BY <1>1, <1>2, <1>3, <1>4 DEF Aside

\* The thread that closes: the flag is set by the one that carries the close
\* from there, and cleared by the one that carried it.
LEMMA ClosingKeeps ==
  ASSUME IInv, NEW t \in Threads,
         Cas(t) \/ ClearConnect(t) \/ DisconnectClosed(t) \/ PostClose(t) \/ Reset(t)
  PROVE  ClosePending'
<1> DEFINE d == th[t].c
<1>0. /\ d \in Conns /\ conn[d] \in ConnType /\ th[t] \in ThreadType
      /\ ConnsTyped /\ ThreadsTyped /\ LogicTyped
  BY Here, TypeParts DEF IInv, ThreadsTyped
<1> SUFFICES ASSUME NEW c \in Conns, conn'[c].isClosed PROVE Carried(c)'
  BY DEF ClosePending
<1>1. \A u \in Threads \ {t} : th'[u] = th[u]
  BY <1>0 DEF Cas, ClearConnect, DisconnectClosed, PostClose, PostMessage, Reset, Goto, Return,
      ThreadsTyped
<1>2. logicQ' = logicQ \/ \E m \in Messages : logicQ' = Append(logicQ, m)
  <2>1. [op |-> "close", c |-> d] \in Messages
    BY <1>0 DEF Messages
  <2> QED BY <2>1 DEF Cas, ClearConnect, DisconnectClosed, PostClose, PostMessage, Reset
<1>3. ASSUME Carried(c), c # d PROVE Carried(c)'
  <2>1. CASE \E u \in Threads : th[u].c = c /\ th[u].pc \in Closing
    <3>1. PICK u \in Threads : th[u].c = c /\ th[u].pc \in Closing
      BY <2>1
    <3>2. th'[u] = th[u]
      BY <1>1, <1>3, <3>1
    <3> QED BY <3>1, <3>2 DEF Carried, Closing
  <2>2. CASE \E i \in DOMAIN logicQ : logicQ[i] = [op |-> "close", c |-> c]
    BY <1>0, <1>2, <2>2, QueueKept DEF Carried
  <2> QED BY <1>3, <2>1, <2>2 DEF Carried
<1>4. CASE c # d
  <2>1. conn'[c].isClosed = conn[c].isClosed
    BY <1>0, <1>4, Zenon
        DEF Cas, ClearConnect, DisconnectClosed, Disconnect, PostClose, Reset, ConnsTyped
  <2> QED BY <1>3, <1>4, <2>1 DEF IInv, ClosePending
<1>5. CASE c = d
  <2>1. ASSUME NEW p \in {"clearConnect", "disconnect", "postClose", "reset"}, Goto(t, p)
        PROVE  Carried(c)'
    <3>1. th'[t].c = c /\ th'[t].pc = p
      BY <1>0, <1>5, <2>1 DEF Goto, ThreadsTyped, ThreadType
    <3> QED BY <3>1 DEF Carried, Closing
  <2>2. CASE Cas(t) /\ Goto(t, "clearConnect")
    BY <2>1, <2>2
  <2>3. CASE Cas(t) /\ ~Goto(t, "clearConnect")
    <3>1. conn[c].isClosed /\ th[t].pc \notin Closing /\ UNCHANGED <<conn, logicQ>>
      BY <1>5, <2>3 DEF Cas, At, Closing
    <3>2. Aside(t)
      BY <1>1, <3>1 DEF Aside
    <3> QED BY <3>2, AsideKeeps DEF ClosePending
  <2>4. CASE ClearConnect(t) \/ DisconnectClosed(t)
    BY <2>1, <2>4 DEF ClearConnect, DisconnectClosed
  <2>5. CASE PostClose(t)
    <3>1. CASE logicQ' = Append(logicQ, [op |-> "close", c |-> d])
      <4> DEFINE i == Len(logicQ) + 1
      <4>1. [op |-> "close", c |-> d] \in Messages
        BY <1>0 DEF Messages
      <4>2. i \in DOMAIN logicQ' /\ logicQ'[i] = [op |-> "close", c |-> c]
        BY <1>0, <1>5, <3>1, <4>1 DEF LogicTyped
      <4> QED BY <4>2 DEF Carried
    <3>2. ASSUME NEW b \in BOOLEAN,
                 th' = [th EXCEPT ![t] = [th[t] EXCEPT !.pc = "reset", !.msg = b]]
          PROVE  Carried(c)'
      <4>1. th'[t].c = c /\ th'[t].pc = "reset"
        BY <1>0, <1>5, <3>2 DEF ThreadsTyped, ThreadType
      <4> QED BY <4>1 DEF Carried, Closing
    <3> QED BY <2>5, <3>1, <3>2, Zenon DEF PostClose, PostMessage
  <2>6. CASE Reset(t)
    <3>1. ~conn'[c].isClosed
      BY <1>0, <1>5, <2>6 DEF Reset, ConnsTyped, ConnType
    <3> QED BY <3>1
  <2> QED BY <2>2, <2>3, <2>4, <2>5, <2>6
<1> QED BY <1>4, <1>5

\* A message of some type leaves the queue: only OP_CLOSE carries a close, and
\* the thread that takes it resets the slot.
LEMMA PopKeeps ==
  ASSUME IInv, NEW l \in Logics, PopConnection(l) \/ PopClose(l) \/ PopPacket(l)
  PROVE  ClosePending'
<1>0. l \in Threads /\ ThreadsTyped /\ LogicTyped /\ logicQ # << >> /\ logicQ' = Tail(logicQ)
  BY TypeParts DEF IInv, Threads, PopConnection, PopClose, PopPacket, Pop
<1>1. th[l].pc = "idle" /\ conn' = conn /\ \A u \in Threads \ {l} : th'[u] = th[u]
  BY <1>0 DEF PopConnection, PopClose, PopPacket, Pop, At, ThreadsTyped
<1> SUFFICES ASSUME NEW c \in Conns, conn[c].isClosed PROVE Carried(c)'
  BY <1>1 DEF ClosePending
<1>2. Carried(c)
  BY DEF IInv, ClosePending
<1>3. CASE \E u \in Threads : th[u].c = c /\ th[u].pc \in Closing
  <2>1. PICK u \in Threads : th[u].c = c /\ th[u].pc \in Closing
    BY <1>3
  <2>2. th'[u] = th[u]
    BY <1>1, <2>1 DEF Closing
  <2> QED BY <2>1, <2>2 DEF Carried, Closing
<1>4. CASE \E i \in DOMAIN logicQ : logicQ[i] = [op |-> "close", c |-> c]
  <2>1. PICK i \in DOMAIN logicQ : logicQ[i] = [op |-> "close", c |-> c]
    BY <1>4
  <2>2. CASE i = 1
    <3>1. Head(logicQ).op = "close" /\ Head(logicQ).c = c
      BY <1>0, <2>1, <2>2 DEF LogicTyped
    <3>2. th' = [th EXCEPT ![l] = [IdleThread EXCEPT !.pc = "reset", !.c = Head(logicQ).c,
                                                     !.op = "close", !.msg = TRUE]]
      BY <3>1 DEF PopConnection, PopClose, PopPacket, Pop
    <3>3. th'[l].c = c /\ th'[l].pc = "reset"
      BY <1>0, <3>1, <3>2 DEF ThreadsTyped, IdleThread
    <3> QED BY <1>0, <3>3 DEF Carried, Closing
  <2>3. CASE i # 1
    <3>1. i - 1 \in DOMAIN Tail(logicQ) /\ Tail(logicQ)[i - 1] = logicQ[i]
      BY <1>0, <2>1, <2>3 DEF LogicTyped
    <3> QED BY <1>0, <2>1, <3>1 DEF Carried
  <2> QED BY <2>2, <2>3
<1> QED BY <1>2, <1>3, <1>4 DEF Carried

\* The other steps of a handler are aside.
LEMMA LogicAside ==
  ASSUME IInv, NEW l \in Logics,
         ConnCheck(l) \/ AppConnect(l) \/ AppClose(l) \/ Prepare(l) \/ Commit(l)
  PROVE  l \in Threads /\ Aside(l)
<1>0. /\ l \in Threads /\ th[l].c \in Conns /\ conn[th[l].c] \in ConnType
      /\ ConnsTyped /\ ThreadsTyped
  BY Here, TypeParts DEF IInv, Threads
<1>1. th[l].pc \notin Closing /\ logicQ' = logicQ
  BY Zenon DEF ConnCheck, AppConnect, AppClose, Prepare, Commit, At, Closing
<1>2. \A u \in Threads \ {l} : th'[u] = th[u]
  BY <1>0, Zenon DEF ConnCheck, AppConnect, AppClose, Prepare, Commit, Goto, Return, ThreadsTyped
<1>3. \A d \in Conns : conn'[d].isClosed = conn[d].isClosed
  <2>1. CASE Commit(l)
    <3>1. [conn[th[l].c] EXCEPT !.unsent = @ + 1].isClosed = conn[th[l].c].isClosed
      BY <1>0 DEF ConnType
    <3> QED BY <1>0, <2>1, <3>1, SameClosed DEF Commit
  <2> QED BY <2>1, Zenon DEF ConnCheck, AppConnect, AppClose, Prepare
<1> QED BY <1>0, <1>1, <1>2, <1>3 DEF Aside

LEMMA InitIInv == Init => IInv
  BY InitTyped DEF Init, InitConn, IInv, ClosePending

LEMMA NextIInv == IInv /\ [Next]_vars => IInv'
<1> SUFFICES ASSUME IInv, [Next]_vars PROVE ClosePending'
  BY NextTyped DEF IInv
<1>1. CASE UNCHANGED vars
  BY <1>1 DEF vars, IInv, ClosePending, Carried
<1>2. ASSUME NEW w \in Workers, WorkStep(w) PROVE ClosePending'
  BY <1>2, WorkAside, AsideKeeps DEF Threads
<1>3. ASSUME NEW l \in Logics, LogicStep(l) PROVE ClosePending'
  BY <1>3, PopKeeps, LogicAside, AsideKeeps DEF LogicStep
<1>4. ASSUME NEW t \in Threads, SharedStep(t) PROVE ClosePending'
  BY <1>4, ClosingKeeps, SharedAside, AsideKeeps DEF SharedStep
<1>5. CASE Arrive \/ Leave \/ Kernel
  BY <1>5, Zenon DEF Arrive, Leave, Kernel, ClientConnects, ClientSends, ClientLeaves, RecvEnds,
      SendEnds,
              IInv, ClosePending, Carried
<1> QED BY <1>1, <1>2, <1>3, <1>4, <1>5 DEF Next, Server

\* A close that was claimed is never lost, with any number of slots, threads
\* and messages, whatever the pool and the completion port refuse.
THEOREM CloseNeverLost == Spec => []ClosePending
<1>1. IInv => ClosePending
  BY DEF IInv
<1> QED BY <1>1, InitIInv, NextIInv, PTL DEF Spec

----------------------------------------------------------------------------
(* No message is lost to the pool.                                         *)

\* The threads with a message in hand.
Holders == {t \in Threads : th[t].msg}

\* Where a thread may have one in hand, and where it must; no completion leads
\* there.
Holding == {"connCheck", "dropConn", "reset", "rearm"}

HeldWhere ==
  \A t \in Threads :
    /\ th[t].msg => th[t].pc \in Holding
    /\ th[t].pc = "connCheck" => th[t].msg
    /\ th[t].then # "connCheck"

PoolInv == TypeOK /\ HeldWhere /\ PoolConservation

LEMMA HoldersFinite == ASSUME TypeOK PROVE IsFiniteSet(Holders) /\ Cardinality(Holders) \in Nat
<1>1. IsFiniteSet(Threads)
  BY FS_Union, SessionAssumption DEF Threads
<1>2. Holders \subseteq Threads
  BY DEF Holders
<1>3. IsFiniteSet(Holders)
  BY <1>1, <1>2, FS_Subset
<1> QED BY <1>3, FS_CardinalityType

\* Thread t moves alone and ends where it may be with what it has in hand.
Moves(t) ==
  /\ \A u \in Threads \ {t} : th'[u] = th[u]
  /\ th'[t].msg => th'[t].pc \in Holding
  /\ th'[t].pc = "connCheck" => th'[t].msg
  /\ th'[t].then # "connCheck"

\* What a step of t does to the message: nothing, or it posts one of the pool,
\* or takes one in hand from the pool or from the queue, or frees the one it
\* has in hand, or frees the one it takes from the queue.
Kept(t) == th'[t].msg = th[t].msg /\ pool' = pool /\ logicQ' = logicQ
Posted(t) ==
  /\ th'[t].msg = th[t].msg /\ pool > 0 /\ pool' = pool - 1
  /\ \E m \in Messages : logicQ' = Append(logicQ, m)
Allocated(t) == ~th[t].msg /\ th'[t].msg /\ pool > 0 /\ pool' = pool - 1 /\ logicQ' = logicQ
TakenUp(t) ==
  ~th[t].msg /\ th'[t].msg /\ pool' = pool /\ logicQ # << >> /\ logicQ' = Tail(logicQ)
Freed(t) == th[t].msg /\ ~th'[t].msg /\ pool' = pool + 1 /\ logicQ' = logicQ
FreedAtOnce(t) ==
  /\ th'[t].msg = th[t].msg /\ pool' = pool + 1
  /\ logicQ # << >> /\ logicQ' = Tail(logicQ)

Accounted(t) ==
  Kept(t) \/ Posted(t) \/ Allocated(t) \/ TakenUp(t) \/ Freed(t) \/ FreedAtOnce(t)

\* The balance is kept by any step that is accounted for.
LEMMA Balance ==
  ASSUME PoolInv, TypeOK', NEW t \in Threads, Moves(t), Accounted(t)
  PROVE  PoolInv'
<1>1. HeldWhere'
  BY DEF PoolInv, HeldWhere, Moves
<1>2. /\ IsFiniteSet(Holders) /\ Cardinality(Holders) \in Nat
      /\ pool \in Nat /\ logicQ \in Seq(Messages)
      /\ pool + Len(logicQ) + Cardinality(Holders) = MsgCount
  BY HoldersFinite DEF PoolInv, PoolConservation, Holders, TypeOK
<1>3. ASSUME th'[t].msg = th[t].msg PROVE Holders' = Holders
  BY <1>3 DEF Holders, Moves
<1>4. ASSUME ~th[t].msg, th'[t].msg PROVE Cardinality(Holders') = Cardinality(Holders) + 1
  <2>1. Holders' = Holders \cup {t} /\ t \notin Holders
    BY <1>4 DEF Holders, Moves
  <2> QED BY <1>2, <2>1, FS_AddElement
<1>5. ASSUME th[t].msg, ~th'[t].msg
      PROVE  Cardinality(Holders') = Cardinality(Holders) - 1
  <2>1. Holders' = Holders \ {t} /\ t \in Holders
    BY <1>5 DEF Holders, Moves
  <2> QED BY <1>2, <2>1, FS_RemoveElement
<1>6. pool' + Len(logicQ') + Cardinality(Holders') = MsgCount
  <2>1. CASE Kept(t)
    BY <1>2, <1>3, <2>1 DEF Kept
  <2>2. CASE Posted(t)
    <3>1. Len(logicQ') = Len(logicQ) + 1
      BY <1>2, <2>2 DEF Posted
    <3> QED BY <1>2, <1>3, <2>2, <3>1 DEF Posted
  <2>3. CASE Allocated(t)
    BY <1>2, <1>4, <2>3 DEF Allocated
  <2>4. ASSUME logicQ # << >>, logicQ' = Tail(logicQ) PROVE Len(logicQ') = Len(logicQ) - 1
    BY <1>2, <2>4
  <2>5. CASE TakenUp(t)
    <3>1. Len(logicQ') = Len(logicQ) - 1
      BY <2>4, <2>5 DEF TakenUp
    <3> QED BY <1>2, <1>4, <2>5, <3>1 DEF TakenUp
  <2>6. CASE Freed(t)
    BY <1>2, <1>5, <2>6 DEF Freed
  <2>7. CASE FreedAtOnce(t)
    <3>1. Len(logicQ') = Len(logicQ) - 1
      BY <2>4, <2>7 DEF FreedAtOnce
    <3> QED BY <1>2, <1>3, <2>7, <3>1 DEF FreedAtOnce
  <2> QED BY <2>1, <2>2, <2>3, <2>5, <2>6, <2>7 DEF Accounted
<1> QED BY <1>1, <1>6 DEF PoolInv, PoolConservation, Holders

\* A thread that goes on, or returns, with what it has in hand.
LEMMA GoesOn ==
  ASSUME TypeOK, NEW t \in Threads, NEW pc, Goto(t, pc)
  PROVE  /\ th'[t].pc = pc /\ th'[t].msg = th[t].msg /\ th'[t].then = th[t].then
         /\ \A u \in Threads \ {t} : th'[u] = th[u]
  BY DEF TypeOK, ThreadType, Goto

LEMMA Returns ==
  ASSUME TypeOK, NEW t \in Threads, Return(t)
  PROVE  /\ th'[t].pc \in {"idle", "prepare"} /\ th'[t].msg = FALSE /\ th'[t].then = "idle"
         /\ \A u \in Threads \ {t} : th'[u] = th[u]
<1>1. Returned(t).pc \in {"idle", "prepare"} /\ Returned(t).msg = FALSE /\ Returned(t).then = "idle"
  BY DEF Returned, Preparing, IdleThread
<1> QED BY <1>1 DEF Return, TypeOK

\* PostMessage posts the message, or goes on with it or without.
LEMMA PostMessageAccounted ==
  ASSUME PoolInv, NEW t \in Threads, NEW type \in {"connection", "close"},
         NEW onFail \in {"dropConn", "reset"}, PostMessage(t, type, onFail), th[t].pc \notin Holding
  PROVE  Moves(t) /\ Accounted(t)
<1>0. th[t] \in ThreadType /\ th[t].c \in Conns /\ th[t].msg = FALSE /\ th \in [Threads -> ThreadType]
  BY DEF PoolInv, HeldWhere, TypeOK, ThreadType
<1>1. [op |-> type, c |-> th[t].c] \in Messages
  BY <1>0 DEF Messages
<1>2. ASSUME NEW b \in BOOLEAN, th' = [th EXCEPT ![t] = [@ EXCEPT !.pc = onFail, !.msg = b]]
      PROVE  Moves(t) /\ th'[t].msg = b
  BY <1>0, <1>2 DEF Moves, Holding, ThreadType, PoolInv, HeldWhere
<1>3. ASSUME Return(t) PROVE Moves(t) /\ th'[t].msg = FALSE
  BY <1>3, Returns DEF PoolInv, Moves, Holding
<1>4. CASE pool > 0 /\ pool' = pool - 1 /\ logicQ' = Append(logicQ, [op |-> type, c |-> th[t].c]) /\ Return(t)
  BY <1>0, <1>1, <1>3, <1>4 DEF Accounted, Posted
<1>5. CASE /\ pool > 0 /\ pool' = pool - 1 /\ logicQ' = logicQ
           /\ th' = [th EXCEPT ![t] = [@ EXCEPT !.pc = onFail, !.msg = TRUE]]
  <2>1. Moves(t) /\ th'[t].msg = TRUE
    BY <1>2, <1>5, Zenon
  <2> QED BY <1>0, <1>5, <2>1 DEF Accounted, Allocated
<1>6. CASE /\ pool' = pool /\ logicQ' = logicQ
           /\ th' = [th EXCEPT ![t] = [@ EXCEPT !.pc = onFail, !.msg = FALSE]]
  <2>1. Moves(t) /\ th'[t].msg = FALSE
    BY <1>2, <1>6, Zenon
  <2> QED BY <1>0, <1>6, <2>1 DEF Accounted, Kept
<1> QED BY <1>4, <1>5, <1>6 DEF PostMessage

LEMMA TakesAccounted ==
  ASSUME PoolInv, NEW t \in Threads, NEW kind \in IOKinds, TakeBack(t, kind),
         th[t].pc \notin Holding, pool' = pool, logicQ' = logicQ
  PROVE  Moves(t) /\ Accounted(t)
<1>0. TypeOK /\ ThreadsTyped /\ th[t].msg = FALSE
  BY TypeParts DEF PoolInv, HeldWhere
<1>1. PICK k \in ThreadType :
        /\ th' = [th EXCEPT ![t] = k]
        /\ k.pc \in {"close", "decrement"} /\ k.then \in {"idle", "close"} /\ k.msg = th[t].msg
  BY <1>0, TakesBack
<1> QED BY <1>0, <1>1 DEF ThreadsTyped, Moves, Accounted, Kept

LEMMA WorkAccounted ==
  ASSUME PoolInv, NEW w \in Workers, WorkStep(w)
  PROVE  Moves(w) /\ Accounted(w)
<1>0. /\ w \in Threads /\ TypeOK /\ th \in [Threads -> ThreadType] /\ th[w] \in ThreadType
      /\ th[w].msg \in BOOLEAN /\ th[w].c \in Conns
  BY DEF PoolInv, Threads, TypeOK, ThreadType
<1>1. ASSUME NEW pc \in PCs \ {"connCheck"}, Goto(w, pc), th[w].pc \notin Holding,
             pool' = pool, logicQ' = logicQ
      PROVE  Moves(w) /\ Accounted(w)
  BY <1>0, <1>1, GoesOn DEF Moves, Accounted, Kept, PoolInv, HeldWhere
<1>2. ASSUME Return(w), th[w].pc \notin Holding, pool' = pool, logicQ' = logicQ
      PROVE  Moves(w) /\ Accounted(w)
  BY <1>0, <1>2, Returns DEF Moves, Accounted, Kept, PoolInv, HeldWhere
<1>3. ASSUME th[w].pc \notin Holding PROVE th[w].msg = FALSE /\ th[w].then # "connCheck"
  BY <1>0, <1>3 DEF PoolInv, HeldWhere
<1>4. ASSUME NEW k, th' = [th EXCEPT ![w] = k], k.msg = FALSE, k.pc # "connCheck",
             k.then # "connCheck", th[w].pc \notin Holding, pool' = pool, logicQ' = logicQ
      PROVE  Moves(w) /\ Accounted(w)
  BY <1>0, <1>3, <1>4 DEF Moves, Accounted, Kept
<1>5. CASE Dequeue(w)
  <2>1. PICK e \in Completions :
          LET kind == IF e.ovl = "send" THEN "send" ELSE conn[e.c].recvOp
              next == Handler(kind, e.status)
          IN th' = [th EXCEPT ![w] =
               IF conn[e.c].ref[kind] = 0
               THEN [IdleThread EXCEPT !.pc = next, !.c = e.c]
               ELSE [IdleThread EXCEPT !.pc = "decrement", !.c = e.c,
                                       !.op = kind, !.then = next]]
    BY <1>5, Zenon DEF Dequeue
  <2> DEFINE kind == IF e.ovl = "send" THEN "send" ELSE conn[e.c].recvOp
             next == Handler(kind, e.status)
             k == IF conn[e.c].ref[kind] = 0
                  THEN [IdleThread EXCEPT !.pc = next, !.c = e.c]
                  ELSE [IdleThread EXCEPT !.pc = "decrement", !.c = e.c, !.op = kind, !.then = next]
  <2>2. kind \in IOKinds
    BY <1>0 DEF IOKinds, TypeOK, ConnType, Completions, Overlapped
  <2>3. next \in {"close", "bind", "deliver", "sent"}
    BY <2>2 DEF IOKinds, Handler
  <2>4. k.msg = FALSE /\ k.pc # "connCheck" /\ k.then # "connCheck"
    <3> HIDE DEF next, kind
    <3> QED BY <2>3 DEF IdleThread
  <2>5. th' = [th EXCEPT ![w] = k] /\ pool' = pool /\ logicQ' = logicQ /\ th[w].pc \notin Holding
    BY <1>5, <2>1 DEF Dequeue, At, Holding
  <2> HIDE DEF k
  <2> QED BY <1>4, <2>4, <2>5
<1>7. CASE Bind(w)
  BY <1>1, <1>7 DEF Bind, At, Holding, PCs
<1>8. CASE SetConnect(w)
  <2> DEFINE k == [th[w] EXCEPT !.pc = "checkConnect", !.then = "announce"]
  <2>1. th[w].pc \notin Holding /\ pool' = pool /\ logicQ' = logicQ /\ th' = [th EXCEPT ![w] = k]
    BY <1>8 DEF SetConnect, At, Holding
  <2>2. k.msg = th[w].msg /\ k.pc = "checkConnect" /\ k.then = "announce"
    BY <1>0 DEF ThreadType
  <2> HIDE DEF k
  <2> QED BY <1>3, <1>4, <2>1, <2>2
<1>9. CASE Announce(w)
  BY <1>0, <1>9, PostMessageAccounted DEF Announce, At, Holding
<1>10. CASE DropConn(w)
  BY <1>0, <1>10, GoesOn DEF DropConn, At, Holding, Moves, Accounted, Kept, PoolInv, HeldWhere
<1>11. CASE Deliver(w)
  <2>0. th[w].pc \notin Holding
    BY <1>11 DEF Deliver, At, Holding
  <2>1. CASE Return(w) /\ UNCHANGED <<pool, logicQ>>
    BY <1>2, <2>0, <2>1
  <2>2. CASE /\ pool > 0 /\ pool' = pool - 1
             /\ logicQ' = Append(logicQ, [op |-> "packet", c |-> th[w].c])
             /\ th' = [th EXCEPT ![w].n = @ + 1]
    <3>1. [op |-> "packet", c |-> th[w].c] \in Messages
      BY <1>0 DEF Messages
    <3>2. th'[w].msg = th[w].msg /\ th'[w].then = th[w].then /\ th'[w].pc = th[w].pc
      BY <1>0, <2>2 DEF ThreadType
    <3>3. th[w].pc # "connCheck"
      BY <1>11 DEF Deliver, At
    <3>4. \A u \in Threads \ {w} : th'[u] = th[u]
      BY <1>0, <2>2
    <3>5. Posted(w)
      BY <2>2, <3>1, <3>2 DEF Posted
    <3> QED BY <1>3, <2>0, <3>2, <3>3, <3>4, <3>5 DEF Moves, Accounted
  <2> QED BY <1>11, <2>1, <2>2 DEF Deliver
<1>12. CASE WrongPacket(w) \/ Delivered(w)
  <2> DEFINE k(pc) == [th[w] EXCEPT !.pc = pc, !.n = 0]
  <2>1. PICK pc \in {"close", "checkConnect"} :
          th[w].pc \notin Holding /\ pool' = pool /\ logicQ' = logicQ /\ th' = [th EXCEPT ![w] = k(pc)]
    BY <1>12 DEF WrongPacket, Delivered, At, Holding
  <2>2. k(pc).msg = th[w].msg /\ k(pc).pc = pc /\ k(pc).then = th[w].then
    BY <1>0 DEF ThreadType
  <2> HIDE DEF k
  <2> QED BY <1>3, <1>4, <2>1, <2>2
<1>13. CASE CheckConnect(w) \/ IncRecv(w) \/ Sent(w) \/ SetSendable(w)
  BY <1>1, <1>13 DEF CheckConnect, IncRecv, Sent, SetSendable, At, Holding, PCs
<1>14. CASE WsaRecv(w)
  <2>1. th[w].pc \notin Holding /\ pool' = pool /\ logicQ' = logicQ
    BY <1>14, Zenon DEF WsaRecv, At, Holding
  <2>2. ASSUME TakeBack(w, "recv") PROVE Moves(w) /\ Accounted(w)
    BY <1>0, <2>1, <2>2, TakesAccounted DEF PoolInv, IOKinds
  <2> QED BY <1>1, <1>2, <1>14, <2>1, <2>2, Zenon DEF WsaRecv, PCs
<1> QED BY <1>5, <1>7, <1>8, <1>9, <1>10, <1>11, <1>12, <1>13, <1>14 DEF WorkStep

LEMMA SharedAccounted ==
  ASSUME PoolInv, NEW t \in Threads, SharedStep(t)
  PROVE  Moves(t) /\ Accounted(t)
<1>0. TypeOK /\ th \in [Threads -> ThreadType] /\ th[t] \in ThreadType /\ th[t].msg \in BOOLEAN
  BY DEF PoolInv, TypeOK, ThreadType
<1>1. ASSUME NEW pc \in PCs \ {"connCheck"}, Goto(t, pc), th[t].pc \notin Holding,
             pool' = pool, logicQ' = logicQ
      PROVE  Moves(t) /\ Accounted(t)
  BY <1>0, <1>1, GoesOn DEF Moves, Accounted, Kept, PoolInv, HeldWhere
<1>2. ASSUME Return(t), th[t].pc \notin Holding, pool' = pool, logicQ' = logicQ
      PROVE  Moves(t) /\ Accounted(t)
  BY <1>0, <1>2, Returns, Zenon DEF Moves, Accounted, Kept, PoolInv, HeldWhere
<1>3. CASE Close(t) \/ ClearConnect(t) \/ DisconnectClosed(t)
  BY <1>1, <1>3 DEF Close, ClearConnect, DisconnectClosed, At, Holding, PCs
<1>4. CASE Cas(t) \/ Claim(t)
  BY <1>1, <1>2, <1>4, Zenon DEF Cas, Claim, At, Holding, PCs
<1>10. CASE WsaSend(t)
  <2>1. th[t].pc \notin Holding /\ pool' = pool /\ logicQ' = logicQ
    BY <1>10, Zenon DEF WsaSend, At, Holding
  <2>2. ASSUME TakeBack(t, "send") PROVE Moves(t) /\ Accounted(t)
    BY <1>0, <2>1, <2>2, TakesAccounted DEF IOKinds
  <2> QED BY <1>2, <1>10, <2>1, <2>2, Zenon DEF WsaSend
<1>11. CASE Decrement(t)
  <2> DEFINE k == [th[t] EXCEPT !.pc = th[t].then, !.op = "none", !.then = "idle"]
  <2>1. th[t].pc \notin Holding /\ pool' = pool /\ logicQ' = logicQ /\ th' = [th EXCEPT ![t] = k]
    BY <1>11 DEF Decrement, At, Holding
  <2>2. k.msg = th[t].msg /\ k.pc = th[t].then /\ k.then = "idle"
    BY <1>0 DEF ThreadType
  <2>3. th[t].msg = FALSE /\ th[t].then # "connCheck"
    BY <1>0, <2>1 DEF PoolInv, HeldWhere
  <2> HIDE DEF k
  <2> QED BY <1>0, <2>1, <2>2, <2>3 DEF Moves, Accounted, Kept
<1>5. CASE Hangup(t) \/ Unclaim(t)
  BY <1>2, <1>5 DEF Hangup, Unclaim, At, Holding
<1>6. CASE Take(t)
  BY <1>1, <1>6, Zenon DEF Take, At, Holding, PCs
<1>7. CASE PostClose(t)
  BY <1>7, PostMessageAccounted DEF PostClose, At, Holding
<1>8. CASE Reset(t)
  BY <1>0, <1>8, GoesOn DEF Reset, At, Holding, Moves, Accounted, Kept, PoolInv, HeldWhere
<1>9. CASE Rearm(t)
  <2> DEFINE k == [th[t] EXCEPT !.pc = "appClose", !.msg = FALSE]
  <2>1. th[t].then # "connCheck"
    BY DEF PoolInv, HeldWhere
  <2>2. k.msg = FALSE /\ k.pc = "appClose" /\ k.then = th[t].then
    BY <1>0 DEF ThreadType
  <2>3. th' = [th EXCEPT ![t] = k] \/ Return(t)
    BY <1>9, Zenon DEF Rearm
  <2>4. th'[t].msg = FALSE /\ th'[t].pc # "connCheck" /\ th'[t].then # "connCheck"
    <3> HIDE DEF k
    <3> QED BY <1>0, <2>1, <2>2, <2>3, Returns
  <2>5. \A u \in Threads \ {t} : th'[u] = th[u]
    <3> HIDE DEF k
    <3> QED BY <1>0, <2>3, Returns
  <2>6. Moves(t)
    BY <2>4, <2>5 DEF Moves
  <2>7. logicQ' = logicQ /\ pool' = IF th[t].msg THEN pool + 1 ELSE pool
    BY <1>9, Zenon DEF Rearm
  <2>8. CASE th[t].msg
    BY <2>4, <2>6, <2>7, <2>8 DEF Accounted, Freed
  <2>9. CASE th[t].msg = FALSE
    BY <2>4, <2>6, <2>7, <2>9 DEF Accounted, Kept
  <2> QED BY <1>0, <2>8, <2>9, Zenon
<1> QED BY <1>3, <1>4, <1>5, <1>6, <1>7, <1>8, <1>9, <1>10, <1>11 DEF SharedStep

LEMMA LogicAccounted ==
  ASSUME PoolInv, NEW l \in Logics, LogicStep(l)
  PROVE  Moves(l) /\ Accounted(l)
<1>0. /\ l \in Threads /\ TypeOK /\ th \in [Threads -> ThreadType] /\ th[l] \in ThreadType
      /\ th[l].msg \in BOOLEAN
  BY DEF PoolInv, Threads, TypeOK, ThreadType
<1>1. ASSUME th[l].pc \notin Holding PROVE th[l].msg = FALSE /\ th[l].then # "connCheck"
  BY <1>0, <1>1 DEF PoolInv, HeldWhere
<1>2. ASSUME NEW k, th' = [th EXCEPT ![l] = k], k.msg => k.pc \in Holding,
             k.pc = "connCheck" => k.msg, k.then # "connCheck"
      PROVE  Moves(l) /\ th'[l] = k
  BY <1>0, <1>2 DEF Moves
<1>3. CASE PopConnection(l)
  <2> DEFINE k == [IdleThread EXCEPT !.pc = "connCheck", !.c = Head(logicQ).c, !.msg = TRUE]
  <2>1. k.msg = TRUE /\ k.pc = "connCheck" /\ k.then = "idle"
    BY DEF IdleThread
  <2>2. /\ th' = [th EXCEPT ![l] = k] /\ pool' = pool /\ logicQ # << >> /\ logicQ' = Tail(logicQ)
        /\ th[l].pc \notin Holding
    BY <1>3 DEF PopConnection, Pop, At, Holding
  <2> HIDE DEF k
  <2>3. Moves(l) /\ th'[l] = k
    BY <1>2, <2>1, <2>2 DEF Holding
  <2> QED BY <1>1, <2>1, <2>2, <2>3 DEF Accounted, TakenUp
<1>4. CASE PopClose(l)
  <2> DEFINE k == [IdleThread EXCEPT !.pc = "reset", !.c = Head(logicQ).c,
                                     !.op = "close", !.msg = TRUE]
  <2>1. k.msg = TRUE /\ k.pc = "reset" /\ k.then = "idle"
    BY DEF IdleThread
  <2>2. /\ th' = [th EXCEPT ![l] = k] /\ pool' = pool /\ logicQ # << >> /\ logicQ' = Tail(logicQ)
        /\ th[l].pc \notin Holding
    BY <1>4 DEF PopClose, Pop, At, Holding
  <2> HIDE DEF k
  <2>3. Moves(l) /\ th'[l] = k
    BY <1>2, <2>1, <2>2 DEF Holding
  <2> QED BY <1>1, <2>1, <2>2, <2>3 DEF Accounted, TakenUp
<1>5. CASE PopPacket(l)
  <2>1. PICK n \in 0..MaxSends : th' = [th EXCEPT ![l] = IF n = 0 THEN IdleThread ELSE Preparing(n)]
    BY <1>5 DEF PopPacket
  <2> DEFINE k == IF n = 0 THEN IdleThread ELSE Preparing(n)
  <2>2. k.msg = FALSE /\ k.pc \in {"idle", "prepare"} /\ k.then = "idle"
    BY DEF IdleThread, Preparing
  <2>3. /\ th' = [th EXCEPT ![l] = k] /\ pool' = pool + 1 /\ logicQ # << >> /\ logicQ' = Tail(logicQ)
        /\ th[l].pc \notin Holding
    BY <1>5, <2>1 DEF PopPacket, Pop, At, Holding
  <2> HIDE DEF k
  <2>4. Moves(l) /\ th'[l] = k
    BY <1>2, <2>2, <2>3
  <2> QED BY <1>1, <2>2, <2>3, <2>4 DEF Accounted, FreedAtOnce
<1>6. CASE ConnCheck(l)
  <2> DEFINE k == IF conn[th[l].c].isConnect
                  THEN [th[l] EXCEPT !.pc = "appConnect", !.msg = FALSE] ELSE IdleThread
  <2>1. th[l].msg /\ th[l].then # "connCheck"
    BY <1>0, <1>6 DEF ConnCheck, At, PoolInv, HeldWhere
  <2>2. k.msg = FALSE /\ k.pc \in {"idle", "appConnect"} /\ k.then # "connCheck"
    BY <1>0, <2>1 DEF IdleThread, ThreadType
  <2>3. th' = [th EXCEPT ![l] = k] /\ pool' = pool + 1 /\ logicQ' = logicQ
    BY <1>6 DEF ConnCheck
  <2> HIDE DEF k
  <2>4. Moves(l) /\ th'[l] = k
    BY <1>2, <2>2, <2>3
  <2> QED BY <2>1, <2>2, <2>3, <2>4 DEF Accounted, Freed
<1>7. CASE AppConnect(l) \/ AppClose(l)
  <2>1. /\ Return(l) /\ pool' = pool /\ logicQ' = logicQ /\ th[l].msg = FALSE
    BY <1>1, <1>7 DEF AppConnect, AppClose, At, Holding
  <2> QED BY <1>0, <2>1, Returns DEF Moves, Accounted, Kept
<1>8. CASE Prepare(l)
  <2>1. PICK d \in Conns :
          LET at == [IdleThread EXCEPT !.c = d, !.n = th[l].n - 1]
          IN th' = [th EXCEPT ![l] =
            IF ~conn[d].isConnect
            THEN IF at.n = 0 THEN IdleThread ELSE Preparing(at.n)
            ELSE IF conn[d].unsent = SendSlots
            THEN [at EXCEPT !.pc = "close"]
            ELSE [at EXCEPT !.pc = "commit"]]
    BY <1>8, Zenon DEF Prepare
  <2> DEFINE at == [IdleThread EXCEPT !.c = d, !.n = th[l].n - 1]
             k == IF ~conn[d].isConnect
                  THEN IF at.n = 0 THEN IdleThread ELSE Preparing(at.n)
                  ELSE IF conn[d].unsent = SendSlots
                  THEN [at EXCEPT !.pc = "close"]
                  ELSE [at EXCEPT !.pc = "commit"]
  <2>2. k.msg = FALSE /\ k.pc # "connCheck" /\ k.then = "idle"
    BY DEF IdleThread, Preparing
  <2>3. /\ th' = [th EXCEPT ![l] = k] /\ pool' = pool /\ logicQ' = logicQ /\ th[l].msg = FALSE
    BY <1>1, <1>8, <2>1 DEF Prepare, At, Holding
  <2> HIDE DEF k
  <2>4. Moves(l) /\ th'[l] = k
    BY <1>2, <2>2, <2>3
  <2> QED BY <2>2, <2>3, <2>4 DEF Accounted, Kept
<1>9. CASE Commit(l)
  <2>1. Goto(l, "claim") /\ pool' = pool /\ logicQ' = logicQ /\ th[l].msg = FALSE
    BY <1>1, <1>9 DEF Commit, At, Holding
  <2> QED BY <1>0, <1>1, <1>9, <2>1, GoesOn DEF Commit, At, Holding, Moves, Accounted, Kept
<1> QED BY <1>3, <1>4, <1>5, <1>6, <1>7, <1>8, <1>9 DEF LogicStep

LEMMA InitPool == Init => PoolInv
<1> SUFFICES ASSUME Init PROVE PoolInv
  OBVIOUS
<1>1. \A t \in Threads : th[t].msg = FALSE /\ th[t].pc = "idle" /\ th[t].then = "idle"
  BY DEF Init, IdleThread
<1>2. Holders = {}
  BY <1>1 DEF Holders
<1>3. Cardinality(Holders) = 0
  BY <1>2, FS_EmptySet
<1>4. PoolConservation
  BY <1>3, SessionAssumption DEF Init, PoolConservation, Holders
<1> QED BY <1>1, <1>4, InitTyped DEF PoolInv, HeldWhere

LEMMA NextPool == PoolInv /\ [Next]_vars => PoolInv'
<1> SUFFICES ASSUME PoolInv, [Next]_vars PROVE PoolInv'
  OBVIOUS
<1>0. TypeOK'
  BY NextTyped DEF PoolInv
<1>1. CASE UNCHANGED vars
  BY <1>0, <1>1 DEF vars, PoolInv, HeldWhere, PoolConservation
<1>2. ASSUME NEW w \in Workers, WorkStep(w) PROVE PoolInv'
  BY <1>0, <1>2, WorkAccounted, Balance DEF Threads
<1>3. ASSUME NEW l \in Logics, LogicStep(l) PROVE PoolInv'
  BY <1>0, <1>3, LogicAccounted, Balance DEF Threads
<1>4. ASSUME NEW t \in Threads, SharedStep(t) PROVE PoolInv'
  BY <1>0, <1>4, SharedAccounted, Balance
<1>5. CASE Arrive \/ Leave \/ Kernel
  BY <1>0, <1>5, ZenonT(40)
      DEF Arrive, Leave, Kernel, ClientConnects, ClientSends, ClientLeaves, RecvEnds,
                    SendEnds, PoolInv, HeldWhere, PoolConservation
<1> QED BY <1>1, <1>2, <1>3, <1>4, <1>5 DEF Next, Server

\* Every message is in the pool, in the queue or in one hand, whichever posts
\* fail and however many slots and threads there are.
THEOREM PoolConserved == Spec => []PoolConservation
<1>1. PoolInv => PoolConservation
  BY DEF PoolInv
<1> QED BY <1>1, InitPool, NextPool, PTL DEF Spec

----------------------------------------------------------------------------
(* One close at a time.                                                    *)

\* Every OP_CONNECTION found a message and its post succeeded.
NoDrop == \A t \in Threads : th[t].pc # "dropConn"

\* Where WorkThread goes once a count is decremented.
Branches == {"close", "bind", "deliver", "sent"}

\* A thread goes on where a completion or DoAccept sent it.
Onward ==
  \A t \in Threads :
    /\ th[t].then \in Branches \cup {"idle", "announce"}
    /\ th[t].pc = "decrement" => th[t].then \in Branches

\* One thread or one OP_CLOSE carries a close, and only once it was claimed.
Sole(c) ==
  /\ \A t, u \in On(c, Closing) : t = u
  /\ \A i, j \in QueuedMsgs(c, "close") : i = j
  /\ On(c, Closing) = {} \/ QueuedMsgs(c, "close") = {}
  /\ Carried(c) => conn[c].isClosed

CloseInv == IInv /\ Onward /\ \A c \in Conns : Sole(c)

\* What becomes of a thread that goes on or returns.
LEMMA Gone ==
  ASSUME TypeOK, NEW t \in Threads, NEW pc, Goto(t, pc)
  PROVE  /\ th'[t].pc = pc /\ th'[t].c = th[t].c /\ th'[t].n = th[t].n /\ th'[t].op = th[t].op
         /\ th'[t].then = th[t].then /\ th'[t].msg = th[t].msg
         /\ \A u \in Threads \ {t} : th'[u] = th[u]
  BY DEF TypeOK, ThreadType, Goto

LEMMA Dequeued ==
  ASSUME TypeOK, NEW w \in Workers, Dequeue(w)
  PROVE  \E e \in Completions :
           LET kind == IF e.ovl = "send" THEN "send" ELSE conn[e.c].recvOp IN
           /\ workQ[e] > 0 /\ workQ' = [workQ EXCEPT ![e] = @ - 1]
           /\ kind \in IOKinds /\ Handler(kind, e.status) \in Branches
           /\ th[w].pc = "idle" /\ th'[w].c = e.c /\ th'[w].n = 0 /\ th'[w].msg = FALSE
           /\ \/ /\ conn[e.c].ref[kind] = 0
                 /\ th'[w].pc = Handler(kind, e.status)
                 /\ th'[w].then = "idle" /\ th'[w].op = "none"
              \/ /\ conn[e.c].ref[kind] # 0
                 /\ th'[w].pc = "decrement"
                 /\ th'[w].then = Handler(kind, e.status) /\ th'[w].op = kind
           /\ \A u \in Threads \ {w} : th'[u] = th[u]
<1>0. w \in Threads /\ th \in [Threads -> ThreadType]
  BY DEF TypeOK, Threads
<1>1. PICK e \in Completions :
        LET kind == IF e.ovl = "send" THEN "send" ELSE conn[e.c].recvOp
            next == Handler(kind, e.status)
        IN /\ workQ[e] > 0
           /\ workQ' = [workQ EXCEPT ![e] = @ - 1]
           /\ th' = [th EXCEPT ![w] =
               IF conn[e.c].ref[kind] = 0
               THEN [IdleThread EXCEPT !.pc = next, !.c = e.c]
               ELSE [IdleThread EXCEPT !.pc = "decrement", !.c = e.c,
                                       !.op = kind, !.then = next]]
  BY Zenon DEF Dequeue
<1> DEFINE kind == IF e.ovl = "send" THEN "send" ELSE conn[e.c].recvOp
           next == Handler(kind, e.status)
           k1 == [IdleThread EXCEPT !.pc = next, !.c = e.c]
           k2 == [IdleThread EXCEPT !.pc = "decrement", !.c = e.c, !.op = kind, !.then = next]
<1>2. kind \in IOKinds
  BY DEF IOKinds, TypeOK, ConnType, Completions, Overlapped
<1>3. next \in Branches
  BY <1>2 DEF IOKinds, Handler, Branches
<1>4. /\ k1.pc = next /\ k1.c = e.c /\ k1.n = 0 /\ k1.msg = FALSE /\ k1.then = "idle"
      /\ k1.op = "none"
      /\ k2.pc = "decrement" /\ k2.c = e.c /\ k2.n = 0 /\ k2.msg = FALSE /\ k2.then = next
      /\ k2.op = kind
  <2> HIDE DEF kind, next
  <2> QED BY DEF IdleThread
<1>5. th' = [th EXCEPT ![w] = IF conn[e.c].ref[kind] = 0 THEN k1 ELSE k2]
  BY <1>1
<1>6. /\ th'[w] = IF conn[e.c].ref[kind] = 0 THEN k1 ELSE k2
      /\ \A u \in Threads \ {w} : th'[u] = th[u]
  <2> HIDE DEF k1, k2
  <2> QED BY <1>0, <1>5
<1>7. th[w].pc = "idle" /\ workQ[e] > 0 /\ workQ' = [workQ EXCEPT ![e] = @ - 1]
  BY <1>1 DEF Dequeue, At
<1>8. \/ conn[e.c].ref[kind] = 0 /\ th'[w] = k1
      \/ conn[e.c].ref[kind] # 0 /\ th'[w] = k2
  <2> HIDE DEF k1, k2, kind
  <2> QED BY <1>6
<1> HIDE DEF k1, k2, next
<1>9. /\ workQ[e] > 0 /\ workQ' = [workQ EXCEPT ![e] = @ - 1]
      /\ kind \in IOKinds /\ next \in Branches
      /\ th[w].pc = "idle" /\ th'[w].c = e.c /\ th'[w].n = 0 /\ th'[w].msg = FALSE
      /\ \/ /\ conn[e.c].ref[kind] = 0
            /\ th'[w].pc = next
            /\ th'[w].then = "idle" /\ th'[w].op = "none"
         \/ /\ conn[e.c].ref[kind] # 0
            /\ th'[w].pc = "decrement"
            /\ th'[w].then = next /\ th'[w].op = kind
      /\ \A u \in Threads \ {w} : th'[u] = th[u]
  <2> HIDE DEF kind
  <2> QED BY <1>2, <1>3, <1>4, <1>6, <1>7, <1>8
<1> QED BY <1>9 DEF next

\* A step of t after which it is at no undecremented completion, or it failed to
\* post an operation.
Continues(t) ==
  /\ \A u \in Threads \ {t} : th'[u] = th[u]
  /\ th'[t].pc = "decrement" => th'[t].then = "close"
  /\ th'[t].then \in {th[t].then, "idle", "announce", "close"}

LEMMA PostContinues ==
  ASSUME TypeOK, NEW t \in Threads, NEW type, NEW onFail \in {"dropConn", "reset"},
         PostMessage(t, type, onFail)
  PROVE  Continues(t)
<1>0. th \in [Threads -> ThreadType] /\ th[t] \in ThreadType
  BY DEF TypeOK
<1>1. CASE Return(t)
  BY <1>1, Returns DEF Continues
<1>2. ASSUME NEW b \in BOOLEAN, th' = [th EXCEPT ![t] = [@ EXCEPT !.pc = onFail, !.msg = b]]
      PROVE  Continues(t)
  BY <1>0, <1>2 DEF ThreadType, Continues
<1> QED BY <1>1, <1>2, Zenon DEF PostMessage

LEMMA TakeContinues ==
  ASSUME TypeOK, NEW t \in Threads, NEW kind \in IOKinds, TakeBack(t, kind)
  PROVE  Continues(t)
<1>1. PICK k \in ThreadType :
        /\ th' = [th EXCEPT ![t] = k]
        /\ k.then \in {"idle", "close"} /\ (k.pc = "decrement" => k.then = "close")
  BY TakesBack, TypeParts
<1> QED BY <1>1 DEF TypeOK, Continues

LEMMA WorkContinues ==
  ASSUME TypeOK, Onward, NEW w \in Workers, WorkStep(w), ~Dequeue(w)
  PROVE  Continues(w)
<1>0. w \in Threads /\ th \in [Threads -> ThreadType] /\ th[w] \in ThreadType
  BY DEF TypeOK, Threads
<1>1. ASSUME NEW pc \in PCs \ {"decrement"}, Goto(w, pc) PROVE Continues(w)
  BY <1>0, <1>1, Gone DEF Continues
<1>2. ASSUME Return(w) PROVE Continues(w)
  BY <1>0, <1>2, Returns DEF Continues
<1>4. CASE SetConnect(w)
  <2> DEFINE k == [th[w] EXCEPT !.pc = "checkConnect", !.then = "announce"]
  <2>1. th' = [th EXCEPT ![w] = k]
    BY <1>4 DEF SetConnect
  <2>2. k.pc = "checkConnect" /\ k.then = "announce"
    BY <1>0 DEF ThreadType
  <2> HIDE DEF k
  <2> QED BY <1>0, <2>1, <2>2 DEF Continues
<1>5. CASE Announce(w)
  BY <1>0, <1>5, PostContinues DEF Announce
<1>6. CASE Deliver(w) /\ ~Return(w)
  <2>1. th' = [th EXCEPT ![w].n = @ + 1] /\ th[w].pc = "deliver"
    BY <1>6 DEF Deliver, At
  <2> QED BY <1>0, <2>1 DEF ThreadType, Continues
<1>7. CASE WrongPacket(w) \/ Delivered(w)
  <2> DEFINE k(pc) == [th[w] EXCEPT !.pc = pc, !.n = 0]
  <2>1. PICK pc \in {"close", "checkConnect"} : th' = [th EXCEPT ![w] = k(pc)]
    BY <1>7 DEF WrongPacket, Delivered
  <2>2. k(pc).pc = pc /\ k(pc).then = th[w].then
    BY <1>0 DEF ThreadType
  <2> HIDE DEF k
  <2> QED BY <1>0, <2>1, <2>2 DEF Continues
<1>8. CASE Bind(w) \/ DropConn(w) \/ CheckConnect(w) \/ IncRecv(w) \/ WsaRecv(w) \/ Sent(w) \/ SetSendable(w)
  BY <1>0, <1>1, <1>2, <1>8, TakeContinues, Zenon
      DEF Bind, DropConn, CheckConnect, IncRecv, WsaRecv, Sent, SetSendable, PCs, IOKinds
<1> QED BY <1>2, <1>4, <1>5, <1>6, <1>7, <1>8 DEF WorkStep

LEMMA SharedContinues ==
  ASSUME TypeOK, Onward, NEW t \in Threads, SharedStep(t)
  PROVE  Continues(t)
<1>0. th \in [Threads -> ThreadType] /\ th[t] \in ThreadType
  BY DEF TypeOK
<1>1. ASSUME NEW pc \in PCs \ {"decrement"}, Goto(t, pc) PROVE Continues(t)
  BY <1>0, <1>1, Gone DEF Continues
<1>2. ASSUME Return(t) PROVE Continues(t)
  BY <1>0, <1>2, Returns, Zenon DEF Continues
<1>3. CASE Rearm(t) /\ ~Return(t)
  <2>1. th' = [th EXCEPT ![t] = [@ EXCEPT !.pc = "appClose", !.msg = FALSE]]
    BY <1>3, Zenon DEF Rearm
  <2> QED BY <1>0, <2>1 DEF ThreadType, Continues
<1>4. CASE PostClose(t)
  BY <1>4, PostContinues DEF PostClose
<1>5. CASE \/ Close(t) \/ Hangup(t) \/ Cas(t) \/ ClearConnect(t) \/ DisconnectClosed(t)
           \/ Reset(t) \/ Claim(t) \/ Take(t) \/ Unclaim(t) \/ WsaSend(t)
  BY <1>0, <1>1, <1>2, <1>5, TakeContinues, Zenon
      DEF Close, Hangup, Cas, ClearConnect, DisconnectClosed, Reset, Claim, Take,
                          Unclaim, WsaSend, PCs, IOKinds
<1>6. CASE Decrement(t)
  <2> DEFINE k == [th[t] EXCEPT !.pc = th[t].then, !.op = "none", !.then = "idle"]
  <2>1. th' = [th EXCEPT ![t] = k] /\ th[t].pc = "decrement"
    BY <1>6 DEF Decrement, At
  <2>2. k.pc = th[t].then /\ k.then = "idle"
    BY <1>0 DEF ThreadType
  <2>3. th[t].then # "decrement"
    BY <1>0, <2>1 DEF Onward, Branches
  <2> HIDE DEF k
  <2> QED BY <1>0, <2>1, <2>2, <2>3 DEF Continues
<1> QED BY <1>2, <1>3, <1>4, <1>5, <1>6 DEF SharedStep

LEMMA LogicContinues ==
  ASSUME TypeOK, NEW l \in Logics, LogicStep(l)
  PROVE  Continues(l)
<1>0. l \in Threads /\ th \in [Threads -> ThreadType] /\ th[l] \in ThreadType
  BY DEF TypeOK, Threads
<1>1. ASSUME NEW k, th' = [th EXCEPT ![l] = k], k.pc # "decrement",
             k.then \in {th[l].then, "idle"}
      PROVE  Continues(l)
  BY <1>0, <1>1 DEF Continues
<1>2. CASE PopConnection(l) \/ PopClose(l)
  <2> DEFINE k0 == [IdleThread EXCEPT !.pc = "connCheck", !.c = Head(logicQ).c, !.msg = TRUE]
             k1 == [IdleThread EXCEPT !.pc = "reset", !.c = Head(logicQ).c, !.op = "close",
                                      !.msg = TRUE]
  <2>1. th' = [th EXCEPT ![l] = k0] \/ th' = [th EXCEPT ![l] = k1]
    BY <1>2 DEF PopConnection, PopClose
  <2>2. /\ k0.pc = "connCheck" /\ k0.then = "idle"
        /\ k1.pc = "reset" /\ k1.then = "idle"
    BY DEF IdleThread
  <2> HIDE DEF k0, k1
  <2>3. CASE th' = [th EXCEPT ![l] = k0]
    BY <1>1, <2>2, <2>3
  <2>4. CASE th' = [th EXCEPT ![l] = k1]
    BY <1>1, <2>2, <2>4
  <2> QED BY <2>1, <2>3, <2>4
<1>3. CASE PopPacket(l)
  <2>1. PICK n \in 0..MaxSends : th' = [th EXCEPT ![l] = IF n = 0 THEN IdleThread ELSE Preparing(n)]
    BY <1>3 DEF PopPacket
  <2> DEFINE k == IF n = 0 THEN IdleThread ELSE Preparing(n)
  <2>2. k.pc \in {"idle", "prepare"} /\ k.then = "idle"
    BY DEF IdleThread, Preparing
  <2>3. th' = [th EXCEPT ![l] = k]
    BY <2>1
  <2> HIDE DEF k
  <2> QED BY <1>1, <2>2, <2>3
<1>4. CASE ConnCheck(l)
  <2> DEFINE k == IF conn[th[l].c].isConnect
                  THEN [th[l] EXCEPT !.pc = "appConnect", !.msg = FALSE] ELSE IdleThread
  <2>1. k.pc \in {"idle", "appConnect"} /\ k.then \in {th[l].then, "idle"}
    BY <1>0 DEF IdleThread, ThreadType
  <2>2. th' = [th EXCEPT ![l] = k]
    BY <1>4 DEF ConnCheck
  <2> HIDE DEF k
  <2> QED BY <1>1, <2>1, <2>2
<1>5. CASE AppConnect(l) \/ AppClose(l)
  <2>1. Return(l)
    BY <1>5 DEF AppConnect, AppClose
  <2> QED BY <1>0, <2>1, Returns DEF Continues
<1>6. CASE Prepare(l)
  <2>1. PICK d \in Conns :
          LET at == [IdleThread EXCEPT !.c = d, !.n = th[l].n - 1]
          IN th' = [th EXCEPT ![l] =
            IF ~conn[d].isConnect
            THEN IF at.n = 0 THEN IdleThread ELSE Preparing(at.n)
            ELSE IF conn[d].unsent = SendSlots
            THEN [at EXCEPT !.pc = "close"]
            ELSE [at EXCEPT !.pc = "commit"]]
    BY <1>6, Zenon DEF Prepare
  <2> DEFINE at == [IdleThread EXCEPT !.c = d, !.n = th[l].n - 1]
             k == IF ~conn[d].isConnect
                  THEN IF at.n = 0 THEN IdleThread ELSE Preparing(at.n)
                  ELSE IF conn[d].unsent = SendSlots
                  THEN [at EXCEPT !.pc = "close"]
                  ELSE [at EXCEPT !.pc = "commit"]
  <2>2. k.pc \in {"idle", "prepare", "close", "commit"} /\ k.then = "idle"
    BY DEF IdleThread, Preparing
  <2>3. th' = [th EXCEPT ![l] = k]
    BY <2>1
  <2> HIDE DEF k
  <2> QED BY <1>1, <2>2, <2>3
<1>7. CASE Commit(l)
  BY <1>0, <1>7, Gone DEF Commit, Continues
<1> QED BY <1>2, <1>3, <1>4, <1>5, <1>6, <1>7 DEF LogicStep

LEMMA NextOnward == TypeOK /\ Onward /\ [Next]_vars => Onward'
<1> SUFFICES ASSUME TypeOK, Onward, [Next]_vars PROVE Onward'
  OBVIOUS
<1>0. ASSUME NEW t \in Threads, Continues(t) PROVE Onward'
  BY <1>0 DEF Continues, Onward, Branches
<1>1. CASE UNCHANGED vars \/ Arrive \/ Leave \/ Kernel
  <2>1. th' = th
    BY <1>1, Zenon DEF vars, Arrive, Leave, Kernel, ClientConnects, ClientSends, ClientLeaves,
        RecvEnds,
                SendEnds
  <2> QED BY <2>1 DEF Onward
<1>2. ASSUME NEW w \in Workers, Dequeue(w) PROVE Onward'
  <2>1. PICK e \in Completions :
          /\ th'[w].then \in Branches \/ (th'[w].then = "idle" /\ th'[w].pc \in Branches)
          /\ \A u \in Threads \ {w} : th'[u] = th[u]
    BY <1>2, Dequeued
  <2> QED BY <2>1 DEF Onward, Branches
<1>3. ASSUME NEW w \in Workers, WorkStep(w), ~Dequeue(w) PROVE Onward'
  BY <1>0, <1>3, WorkContinues DEF Threads
<1>4. ASSUME NEW l \in Logics, LogicStep(l) PROVE Onward'
  BY <1>0, <1>4, LogicContinues DEF Threads
<1>5. ASSUME NEW t \in Threads, SharedStep(t) PROVE Onward'
  BY <1>0, <1>5, SharedContinues
<1> QED BY <1>1, <1>2, <1>3, <1>4, <1>5 DEF Next, Server

\* What Sole speaks of: the closing threads, the queued OP_CLOSE, the flag.
LEMMA SoleSame ==
  ASSUME NEW c \in Conns, Sole(c), On(c, Closing)' = On(c, Closing),
         QueuedMsgs(c, "close")' = QueuedMsgs(c, "close"), conn'[c].isClosed = conn[c].isClosed
  PROVE  Sole(c)'
<1>1. Carried(c) <=> On(c, Closing) # {} \/ QueuedMsgs(c, "close") # {}
  BY DEF Carried, On, QueuedMsgs
<1>2. Carried(c)' <=> On(c, Closing)' # {} \/ QueuedMsgs(c, "close")' # {}
  BY DEF Carried, On, QueuedMsgs
<1> HIDE DEF Carried, On, QueuedMsgs
<1> QED BY <1>1, <1>2 DEF Sole

\* When thread t moves alone, the threads of a slot at some steps change only by t.
LEMMA OnSame ==
  ASSUME NEW t \in Threads, \A u \in Threads \ {t} : th'[u] = th[u],
         NEW c, NEW P, th[t].c = c /\ th[t].pc \in P <=> th'[t].c = c /\ th'[t].pc \in P
  PROVE  On(c, P)' = On(c, P)
  BY DEF On

\* A message of another kind queued, or one taken from the front.
LEMMA QueuedSame ==
  ASSUME LogicTyped, NEW c, NEW op,
         logicQ' = logicQ \/ \E m \in Messages : m # [op |-> op, c |-> c] /\ logicQ' = Append(logicQ, m)
  PROVE  QueuedMsgs(c, op)' = QueuedMsgs(c, op)
  BY DEF QueuedMsgs, LogicTyped

LEMMA QueuedMore ==
  ASSUME LogicTyped, NEW c, NEW op, [op |-> op, c |-> c] \in Messages,
         logicQ' = Append(logicQ, [op |-> op, c |-> c])
  PROVE  QueuedMsgs(c, op)' = QueuedMsgs(c, op) \cup {Len(logicQ) + 1}
  BY DEF QueuedMsgs, LogicTyped

LEMMA QueuedTail ==
  ASSUME LogicTyped, logicQ # << >>, logicQ' = Tail(logicQ), NEW c, NEW op
  PROVE  \A i : i \in QueuedMsgs(c, op)' <=> i \in Nat \ {0} /\ i + 1 \in QueuedMsgs(c, op)
<1>1. \A i \in Nat \ {0} : i + 1 \in DOMAIN logicQ <=> i \in DOMAIN Tail(logicQ)
  BY DEF LogicTyped
<1>2. \A i \in DOMAIN Tail(logicQ) : Tail(logicQ)[i] = logicQ[i + 1] /\ i \in Nat \ {0}
  BY DEF LogicTyped
<1> QED BY <1>1, <1>2 DEF QueuedMsgs

\* A step of a thread that carries no close, before or after it.
Quiet(t) ==
  /\ Aside(t)
  /\ th'[t].pc \notin Closing
  /\ \/ logicQ' = logicQ
     \/ \E m \in Messages : m.op # "close" /\ logicQ' = Append(logicQ, m)

LEMMA QuietKeeps ==
  ASSUME CloseInv, NEW t \in Threads, Quiet(t), NEW c \in Conns
  PROVE  Sole(c)'
<1>1. On(c, Closing)' = On(c, Closing)
  BY OnSame DEF Quiet, Aside
<1>2. LogicTyped /\ Sole(c)
  BY TypeParts DEF CloseInv, IInv
<1>3. QueuedMsgs(c, "close")' = QueuedMsgs(c, "close")
  <2>1. \A m \in Messages : m.op # "close" => m # [op |-> "close", c |-> c]
    OBVIOUS
  <2> QED BY <1>2, <2>1, QueuedSame DEF Quiet
<1> QED BY <1>1, <1>2, <1>3, SoleSame DEF Quiet, Aside

LEMMA WorkQuiet ==
  ASSUME CloseInv, NEW w \in Workers, WorkStep(w), th[w].pc # "dropConn", th'[w].pc # "dropConn"
  PROVE  Quiet(w)
<1>0. /\ w \in Threads /\ th[w].c \in Conns /\ th[w] \in ThreadType /\ TypeOK /\ ThreadsTyped
      /\ Onward /\ IInv
  BY Here, TypeParts DEF CloseInv, IInv, Threads, ThreadsTyped
<1>1. Aside(w)
  BY <1>0, WorkAside
<1>2. /\ [op |-> "connection", c |-> th[w].c] \in Messages
      /\ [op |-> "packet", c |-> th[w].c] \in Messages
  BY <1>0 DEF Messages
<1>3. \/ logicQ' = logicQ
      \/ \E m \in Messages : m.op # "close" /\ logicQ' = Append(logicQ, m)
  BY <1>2, Zenon DEF WorkStep, Dequeue, Bind, SetConnect, Announce, PostMessage,
      DropConn,
              Deliver, WrongPacket, Delivered, CheckConnect, IncRecv, WsaRecv, Sent, SetSendable
<1>13. ASSUME NEW kind \in IOKinds, TakeBack(w, kind) PROVE th'[w].pc \notin Closing
  BY <1>0, <1>13, TakesBack DEF ThreadsTyped, Closing
<1>4. ASSUME Return(w) PROVE th'[w].pc \notin Closing
  BY <1>0, <1>4, Returns DEF Closing
<1>5. ASSUME NEW pc \in PCs \ Closing, Goto(w, pc) PROVE th'[w].pc \notin Closing
  BY <1>0, <1>5, Gone DEF Closing
<1>6. CASE Dequeue(w)
  <2>1. PICK e \in Completions : th'[w].pc \in Branches \cup {"decrement"}
    BY <1>0, <1>6, Dequeued
  <2>2. th'[w].pc \notin Closing
    BY <2>1 DEF Branches, Closing
  <2> QED BY <1>1, <1>3, <2>2 DEF Quiet
<1>8. CASE SetConnect(w) \/ WrongPacket(w) \/ Delivered(w)
  <2>1. th'[w].pc \in {"checkConnect", "close"}
    BY <1>0, <1>8, ZenonT(40) DEF SetConnect, WrongPacket, Delivered, ThreadsTyped, ThreadType
  <2> QED BY <1>1, <1>3, <2>1 DEF Quiet, Closing
<1>9. CASE Announce(w)
  <2>1. ASSUME NEW b \in BOOLEAN, th' = [th EXCEPT ![w] = [@ EXCEPT !.pc = "dropConn", !.msg = b]]
        PROVE  FALSE
    BY <1>0, <2>1 DEF ThreadsTyped, ThreadType
  <2>2. Return(w)
    BY <1>9, <2>1, Zenon DEF Announce, PostMessage
  <2> QED BY <1>1, <1>3, <1>4, <2>2 DEF Quiet
<1>10. CASE Deliver(w)
  <2>1. Return(w) \/ th'[w].pc = "deliver"
    BY <1>0, <1>10 DEF Deliver, At, ThreadsTyped, ThreadType
  <2> QED BY <1>1, <1>3, <1>4, <2>1 DEF Quiet, Closing
<1>11. CASE Bind(w) \/ CheckConnect(w) \/ IncRecv(w) \/ WsaRecv(w) \/ Sent(w) \/ SetSendable(w)
  <2>1. th'[w].pc \notin Closing
    BY <1>4, <1>5, <1>11, <1>13, Zenon
        DEF Bind, CheckConnect, IncRecv, WsaRecv, Sent, SetSendable, PCs, Closing, IOKinds
  <2> QED BY <1>1, <1>3, <2>1 DEF Quiet
<1>12. ~DropConn(w)
  BY DEF DropConn, At
<1> QED BY <1>6, <1>8, <1>9, <1>10, <1>11, <1>12 DEF WorkStep

LEMMA SharedQuiet ==
  ASSUME CloseInv, NEW t \in Threads,
         \/ Close(t) \/ Hangup(t) \/ Rearm(t)
         \/ Claim(t) \/ Take(t) \/ Unclaim(t) \/ WsaSend(t) \/ Decrement(t)
         \/ Cas(t) /\ conn[th[t].c].isClosed
  PROVE  Quiet(t)
<1>0. th[t] \in ThreadType /\ TypeOK /\ ThreadsTyped /\ IInv /\ Onward
  BY TypeParts DEF CloseInv, IInv, ThreadsTyped
<1>1. ASSUME Return(t) PROVE th'[t].pc \notin Closing
  BY <1>0, <1>1, Returns DEF Closing
<1>2. ASSUME NEW pc \in PCs \ Closing, Goto(t, pc) PROVE th'[t].pc \notin Closing
  BY <1>0, <1>2, Gone DEF Closing
<1>3. Aside(t)
  <2>1. CASE Cas(t) /\ conn[th[t].c].isClosed
    BY <1>0, <2>1, Returns, Zenon DEF Cas, Aside, At, Closing
  <2> QED BY <1>0, <2>1, SharedAside
<1>4. logicQ' = logicQ
  BY Zenon DEF Close, Hangup, Rearm, Claim, Take, Unclaim, WsaSend, Decrement, Cas
<1>8. ASSUME NEW kind \in IOKinds, TakeBack(t, kind) PROVE th'[t].pc \notin Closing
  BY <1>0, <1>8, TakesBack DEF ThreadsTyped, Closing
<1>9. CASE Decrement(t)
  <2> DEFINE k == [th[t] EXCEPT !.pc = th[t].then, !.op = "none", !.then = "idle"]
  <2>1. th' = [th EXCEPT ![t] = k] /\ th[t].then \in Branches
    BY <1>0, <1>9 DEF Decrement, At, Onward
  <2>2. k.pc = th[t].then
    BY <1>0 DEF ThreadType
  <2>3. th'[t].pc \in Branches
    <3> HIDE DEF k
    <3> QED BY <1>0, <2>1, <2>2 DEF ThreadsTyped
  <2> QED BY <1>3, <1>4, <2>3 DEF Quiet, Branches, Closing
<1>5. CASE Rearm(t)
  <2> DEFINE k == [th[t] EXCEPT !.pc = "appClose", !.msg = FALSE]
  <2>2. k.pc = "appClose"
    BY <1>0 DEF ThreadType
  <2>3. Return(t) \/ th' = [th EXCEPT ![t] = k]
    BY <1>5, Zenon DEF Rearm
  <2>1. Return(t) \/ th'[t].pc = "appClose"
    <3> HIDE DEF k
    <3> QED BY <1>0, <2>2, <2>3 DEF ThreadsTyped
  <2> QED BY <1>1, <1>3, <1>4, <2>1 DEF Quiet, Closing
<1>6. CASE Cas(t) /\ conn[th[t].c].isClosed
  BY <1>1, <1>3, <1>4, <1>6 DEF Quiet, Cas
<1>7. CASE Close(t) \/ Hangup(t) \/ Claim(t) \/ Take(t) \/ Unclaim(t) \/ WsaSend(t)
  <2>1. th'[t].pc \notin Closing
    BY <1>1, <1>2, <1>7, <1>8, Zenon
        DEF Close, Hangup, Claim, Take, Unclaim, WsaSend, PCs, Closing, IOKinds
  <2> QED BY <1>3, <1>4, <2>1 DEF Quiet
<1> QED BY <1>5, <1>6, <1>7, <1>9

LEMMA LogicQuiet ==
  ASSUME CloseInv, NEW l \in Logics,
         ConnCheck(l) \/ AppConnect(l) \/ AppClose(l) \/ Prepare(l) \/ Commit(l)
  PROVE  Quiet(l)
<1>0. /\ l \in Threads /\ th[l] \in ThreadType /\ TypeOK /\ ThreadsTyped /\ IInv
  BY TypeParts DEF CloseInv, IInv, Threads, ThreadsTyped
<1>1. Aside(l)
  BY <1>0, LogicAside
<1>2. logicQ' = logicQ
  BY Zenon DEF ConnCheck, AppConnect, AppClose, Prepare, Commit
<1>3. th'[l].pc \notin Closing
  <2>1. CASE ConnCheck(l)
    <3>1. th'[l].pc \in {"appConnect", "idle"}
      BY <1>0, <2>1 DEF ConnCheck, ThreadsTyped, ThreadType, IdleThread
    <3> QED BY <3>1 DEF Closing
  <2>2. CASE AppConnect(l) \/ AppClose(l)
    BY <1>0, <2>2, Returns DEF AppConnect, AppClose, Closing
  <2>3. CASE Prepare(l)
    <3>1. PICK d \in Conns :
            LET at == [IdleThread EXCEPT !.c = d, !.n = th[l].n - 1]
            IN th' = [th EXCEPT ![l] =
              IF ~conn[d].isConnect
              THEN IF at.n = 0 THEN IdleThread ELSE Preparing(at.n)
              ELSE IF conn[d].unsent = SendSlots
              THEN [at EXCEPT !.pc = "close"]
              ELSE [at EXCEPT !.pc = "commit"]]
      BY <2>3, Zenon DEF Prepare
    <3> DEFINE at == [IdleThread EXCEPT !.c = d, !.n = th[l].n - 1]
               k == IF ~conn[d].isConnect
                    THEN IF at.n = 0 THEN IdleThread ELSE Preparing(at.n)
                    ELSE IF conn[d].unsent = SendSlots
                    THEN [at EXCEPT !.pc = "close"]
                    ELSE [at EXCEPT !.pc = "commit"]
    <3>2. k.pc \in {"idle", "prepare", "close", "commit"}
      BY DEF IdleThread, Preparing
    <3>3. th' = [th EXCEPT ![l] = k]
      BY <3>1
    <3>4. th'[l].pc \in {"idle", "prepare", "close", "commit"}
      <4> HIDE DEF k
      <4> QED BY <1>0, <3>2, <3>3 DEF ThreadsTyped
    <3> QED BY <3>4 DEF Closing
  <2>4. CASE Commit(l)
    BY <1>0, <2>4, Gone DEF Commit, Closing
  <2> QED BY <2>1, <2>2, <2>3, <2>4
<1> QED BY <1>1, <1>2, <1>3 DEF Quiet

\* The closing thread goes on, or hands the close to the queue, or resets the
\* slot; the one that claims it was alone.
LEMMA ClosingSole ==
  ASSUME CloseInv, NEW t \in Threads,
         \/ Cas(t) /\ ~conn[th[t].c].isClosed
         \/ ClearConnect(t) \/ DisconnectClosed(t) \/ PostClose(t) \/ Reset(t),
         NEW c \in Conns
  PROVE  Sole(c)'
<1> DEFINE d == th[t].c
<1>0. /\ d \in Conns /\ conn[d] \in ConnType /\ th[t] \in ThreadType /\ TypeOK
      /\ ConnsTyped /\ ThreadsTyped /\ LogicTyped /\ Sole(c)
  BY Here, TypeParts DEF CloseInv, IInv, ThreadsTyped
<1>1. \A u \in Threads \ {t} : th'[u] = th[u]
  BY <1>0 DEF Cas, ClearConnect, DisconnectClosed, PostClose, PostMessage, Reset, Goto, Return,
      ThreadsTyped
<1>2. [op |-> "close", c |-> d] \in Messages
  BY <1>0 DEF Messages
<1>3. ASSUME Return(t) PROVE th'[t].pc \notin Closing
  BY <1>0, <1>3, Returns, Zenon DEF Closing
<1>4. ASSUME NEW b \in BOOLEAN, th' = [th EXCEPT ![t] = [@ EXCEPT !.pc = "reset", !.msg = b]]
      PROVE  th'[t].pc = "reset" /\ th'[t].c = d
  BY <1>0, <1>4 DEF ThreadsTyped, ThreadType
<1>5. CASE c # d
  <2>1. conn'[c].isClosed = conn[c].isClosed
    BY <1>0, <1>5, Zenon
        DEF Cas, ClearConnect, DisconnectClosed, Disconnect, PostClose, Reset, ConnsTyped
  <2>2. th'[t].c = c => th'[t].pc \notin Closing
    <3>1. CASE PostClose(t)
      BY <1>3, <1>4, <1>5, <3>1, Zenon DEF PostClose, PostMessage
    <3>2. CASE ~PostClose(t)
      BY <1>0, <1>5, <3>2, Gone DEF Cas, ClearConnect, DisconnectClosed, Reset
    <3> QED BY <3>1, <3>2
  <2>3. On(c, Closing)' = On(c, Closing)
    BY <1>1, <1>5, <2>2, OnSame
  <2>4. logicQ' = logicQ \/ logicQ' = Append(logicQ, [op |-> "close", c |-> d])
    BY DEF Cas, ClearConnect, DisconnectClosed, PostClose, PostMessage, Reset
  <2>5. [op |-> "close", c |-> d] # [op |-> "close", c |-> c]
    BY <1>5
  <2>6. QueuedMsgs(c, "close")' = QueuedMsgs(c, "close")
    BY <1>0, <1>2, <2>4, <2>5, QueuedSame
  <2> QED BY <1>0, <2>1, <2>3, <2>6, SoleSame
<1>6. CASE c = d /\ Cas(t) /\ ~conn[d].isClosed
  <2>1. On(c, Closing) = {} /\ QueuedMsgs(c, "close") = {}
    BY <1>0, <1>6 DEF Sole, Carried, On, QueuedMsgs, Cas, At, Closing
  <2>2. th'[t].c = c /\ th'[t].pc \in Closing
    BY <1>0, <1>6, Gone DEF Cas, Closing, At
  <2>3. \A u \in On(c, Closing)' : u = t
    BY <1>1, <2>1 DEF On
  <2>4. QueuedMsgs(c, "close")' = {}
    BY <1>6, <2>1 DEF Cas, QueuedMsgs
  <2>5. conn'[c].isClosed
    BY <1>0, <1>6 DEF Cas, At, ConnsTyped, ConnType
  <2> QED BY <2>3, <2>4, <2>5 DEF Sole
<1>7. ASSUME c = d, On(c, Closing)' = On(c, Closing), logicQ' = logicQ,
             conn'[c].isClosed = conn[c].isClosed
      PROVE  Sole(c)'
  <2>1. QueuedMsgs(c, "close")' = QueuedMsgs(c, "close")
    BY <1>7 DEF QueuedMsgs
  <2> QED BY <1>0, <1>7, <2>1, SoleSame
<1>8. CASE c = d /\ ClearConnect(t)
  <2>1. th'[t].c = c /\ th'[t].pc \in Closing /\ th[t].pc \in Closing
    BY <1>0, <1>8, Gone DEF ClearConnect, At, Closing
  <2>2. conn'[c].isClosed = conn[c].isClosed /\ logicQ' = logicQ
    BY <1>0, <1>8 DEF ClearConnect, ConnsTyped, ConnType
  <2> QED BY <1>1, <1>7, <1>8, <2>1, <2>2, OnSame
<1>9. CASE c = d /\ DisconnectClosed(t)
  <2>1. th'[t].c = c /\ th'[t].pc \in Closing /\ th[t].pc \in Closing
    BY <1>0, <1>9, Gone DEF DisconnectClosed, At, Closing
  <2>2. conn'[c].isClosed = conn[c].isClosed /\ logicQ' = logicQ
    BY <1>0, <1>9, DisconnectSame DEF DisconnectClosed
  <2> QED BY <1>1, <1>7, <1>9, <2>1, <2>2, OnSame
<1>10. CASE c = d /\ PostClose(t)
  <2>0. th[t].pc \in Closing /\ conn' = conn
    BY <1>10 DEF PostClose, At, Closing
  <2>1. ASSUME NEW b \in BOOLEAN, th' = [th EXCEPT ![t] = [@ EXCEPT !.pc = "reset", !.msg = b]],
               logicQ' = logicQ
        PROVE  Sole(c)'
    <3>1. th'[t].c = c /\ th'[t].pc \in Closing
      BY <1>4, <1>10, <2>1, Zenon DEF Closing
    <3> QED BY <1>1, <1>7, <1>10, <2>0, <2>1, <3>1, OnSame
  <2>2. CASE Return(t) /\ logicQ' = Append(logicQ, [op |-> "close", c |-> d])
    <3>1. \A u \in On(c, Closing) : u = t
      BY <1>0, <1>10, <2>0 DEF Sole, On
    <3>2. On(c, Closing)' = {}
      BY <1>1, <1>3, <2>2, <3>1 DEF On
    <3>3. QueuedMsgs(c, "close") = {}
      BY <1>0, <1>10, <2>0 DEF Sole, On
    <3>4. QueuedMsgs(c, "close")' = {Len(logicQ) + 1}
      BY <1>0, <1>2, <1>10, <2>2, <3>3, QueuedMore
    <3>5. conn[c].isClosed
      BY <1>0, <1>10, <2>0 DEF Sole, Carried
    <3> QED BY <2>0, <3>2, <3>4, <3>5 DEF Sole
  <2> QED BY <1>10, <2>1, <2>2, Zenon DEF PostClose, PostMessage
<1>11. CASE c = d /\ Reset(t)
  <2>0. th[t].pc \in Closing /\ logicQ' = logicQ
    BY <1>11 DEF Reset, At, Closing
  <2>1. th'[t].pc \notin Closing
    BY <1>0, <1>11, Gone DEF Reset, Closing
  <2>2. \A u \in On(c, Closing) : u = t
    BY <1>0, <1>11, <2>0 DEF Sole, On
  <2>3. On(c, Closing)' = {}
    BY <1>1, <2>1, <2>2 DEF On
  <2>4. QueuedMsgs(c, "close")' = {}
    BY <1>0, <1>11, <2>0 DEF Sole, On, QueuedMsgs
  <2>5. ~Carried(c)'
    BY <2>3, <2>4 DEF Carried, On, QueuedMsgs
  <2> QED BY <2>3, <2>4, <2>5 DEF Sole
<1> QED BY <1>5, <1>6, <1>8, <1>9, <1>10, <1>11

\* OP_CLOSE goes from the queue to the thread that takes it.
LEMMA PopSole ==
  ASSUME CloseInv, NEW l \in Logics, PopConnection(l) \/ PopClose(l) \/ PopPacket(l),
         NEW c \in Conns
  PROVE  Sole(c)'
<1>0. /\ l \in Threads /\ TypeOK /\ ThreadsTyped /\ LogicTyped /\ Sole(c) /\ conn' = conn
      /\ logicQ # << >> /\ logicQ' = Tail(logicQ) /\ th[l].pc = "idle"
  BY TypeParts DEF CloseInv, IInv, Threads, PopConnection, PopClose, PopPacket, Pop, At
<1>1. \A u \in Threads \ {l} : th'[u] = th[u]
  BY <1>0 DEF PopConnection, PopClose, PopPacket, ThreadsTyped
<1>2. \A i : i \in QueuedMsgs(c, "close")' <=> i \in Nat \ {0} /\ i + 1 \in QueuedMsgs(c, "close")
  BY <1>0, QueuedTail
<1>3. \A i \in QueuedMsgs(c, "close") : i \in Nat
  BY <1>0 DEF QueuedMsgs, LogicTyped
<1>4. \A i, j \in QueuedMsgs(c, "close")' : i = j
  <2> SUFFICES ASSUME NEW i \in QueuedMsgs(c, "close")', NEW j \in QueuedMsgs(c, "close")'
               PROVE  i = j
    OBVIOUS
  <2>1. i + 1 = j + 1 /\ i \in Nat /\ j \in Nat
    BY <1>0, <1>2 DEF Sole
  <2> QED BY <2>1
<1>5. QueuedMsgs(c, "close")' # {} => QueuedMsgs(c, "close") # {}
  BY <1>2
<1>6. ASSUME th'[l].c = c => th'[l].pc \notin Closing PROVE Sole(c)'
  <2>1. On(c, Closing)' = On(c, Closing)
    BY <1>0, <1>1, <1>6, OnSame DEF Closing
  <2>2. Carried(c)' => Carried(c)
    <3>1. Carried(c) <=> On(c, Closing) # {} \/ QueuedMsgs(c, "close") # {}
      BY DEF Carried, On, QueuedMsgs
    <3>2. Carried(c)' <=> On(c, Closing)' # {} \/ QueuedMsgs(c, "close")' # {}
      BY DEF Carried, On, QueuedMsgs
    <3> QED BY <1>5, <2>1, <3>1, <3>2
  <2> QED BY <1>0, <1>4, <1>5, <2>1, <2>2 DEF Sole
<1>7. CASE PopConnection(l) \/ PopPacket(l)
  <2>1. th'[l].pc \in {"connCheck", "idle", "prepare"}
    <3>1. CASE PopConnection(l)
      BY <1>0, <3>1 DEF PopConnection, ThreadsTyped, IdleThread
    <3>2. CASE PopPacket(l)
      <4>1. PICK n \in 0..MaxSends :
              th' = [th EXCEPT ![l] = IF n = 0 THEN IdleThread ELSE Preparing(n)]
        BY <3>2 DEF PopPacket
      <4> DEFINE k == IF n = 0 THEN IdleThread ELSE Preparing(n)
      <4>2. k.pc \in {"idle", "prepare"}
        BY DEF IdleThread, Preparing
      <4>3. th' = [th EXCEPT ![l] = k]
        BY <4>1
      <4> HIDE DEF k
      <4> QED BY <1>0, <4>2, <4>3 DEF ThreadsTyped
    <3> QED BY <1>7, <3>1, <3>2
  <2> QED BY <1>6, <2>1 DEF Closing
<1>8. CASE PopClose(l)
  <2>1. Head(logicQ) = logicQ[1] /\ 1 \in DOMAIN logicQ /\ Head(logicQ) \in Messages
    BY <1>0 DEF LogicTyped
  <2>2. Head(logicQ).op = "close"
    BY <1>8 DEF PopClose, Pop
  <2>3. th'[l].c = Head(logicQ).c /\ th'[l].pc = "reset"
    BY <1>0, <1>8 DEF PopClose, ThreadsTyped, IdleThread
  <2>4. CASE Head(logicQ).c # c
    BY <1>6, <2>3, <2>4
  <2>5. CASE Head(logicQ).c = c
    <3>1. 1 \in QueuedMsgs(c, "close")
      <4>1. logicQ[1] = [op |-> "close", c |-> c]
        BY <2>1, <2>2, <2>5 DEF Messages
      <4> QED BY <2>1, <4>1 DEF QueuedMsgs
    <3>2. QueuedMsgs(c, "close")' = {}
      <4>1. \A i \in Nat \ {0} : i + 1 # 1
        OBVIOUS
      <4> QED BY <1>0, <1>2, <3>1, <4>1 DEF Sole
    <3>3. On(c, Closing) = {}
      BY <1>0, <3>1 DEF Sole
    <3>4. \A u \in On(c, Closing)' : u = l
      BY <1>1, <3>3 DEF On
    <3>5. conn'[c].isClosed
      BY <1>0, <3>1 DEF Sole, Carried, QueuedMsgs
    <3> QED BY <3>2, <3>4, <3>5 DEF Sole
  <2> QED BY <2>4, <2>5
<1> QED BY <1>7, <1>8

LEMMA InitClose == Init => CloseInv
<1> SUFFICES ASSUME Init PROVE CloseInv
  OBVIOUS
<1>1. \A t \in Threads : th[t].pc = "idle" /\ th[t].then = "idle"
  BY DEF Init, IdleThread
<1>2. \A c : On(c, Closing) = {}
  BY <1>1 DEF On, Closing
<1>3. \A c : QueuedMsgs(c, "close") = {}
  BY DEF Init, QueuedMsgs
<1>4. \A c : ~Carried(c)
  BY <1>2, <1>3 DEF Carried, On, QueuedMsgs
<1> QED BY <1>1, <1>2, <1>3, <1>4, InitIInv DEF CloseInv, Onward, Sole

LEMMA NextClose == CloseInv /\ NoDrop /\ NoDrop' /\ [Next]_vars => CloseInv'
<1> SUFFICES ASSUME CloseInv, NoDrop, NoDrop', [Next]_vars PROVE CloseInv'
  OBVIOUS
<1>1. IInv' /\ Onward'
  BY NextIInv, NextOnward DEF CloseInv, IInv
<1> SUFFICES ASSUME NEW c \in Conns PROVE Sole(c)'
  BY <1>1 DEF CloseInv
<1>2. CASE UNCHANGED vars \/ Arrive \/ Leave \/ Kernel
  <2>1. th' = th /\ logicQ' = logicQ /\ conn' = conn
    BY <1>2, Zenon DEF vars, Arrive, Leave, Kernel, ClientConnects, ClientSends, ClientLeaves,
        RecvEnds,
                SendEnds
  <2>2. Sole(c)
    BY DEF CloseInv
  <2> QED BY <2>1, <2>2, SoleSame DEF On, QueuedMsgs
<1>3. ASSUME NEW w \in Workers, WorkStep(w) PROVE Sole(c)'
  <2>1. w \in Threads /\ th[w].pc # "dropConn" /\ th'[w].pc # "dropConn"
    BY DEF NoDrop, Threads
  <2> QED BY <1>3, <2>1, WorkQuiet, QuietKeeps
<1>4. ASSUME NEW l \in Logics, LogicStep(l) PROVE Sole(c)'
  BY <1>4, LogicQuiet, QuietKeeps, PopSole DEF LogicStep, Threads
<1>5. ASSUME NEW t \in Threads, SharedStep(t) PROVE Sole(c)'
  <2>1. CASE \/ Cas(t) /\ ~conn[th[t].c].isClosed
             \/ ClearConnect(t) \/ DisconnectClosed(t) \/ PostClose(t) \/ Reset(t)
    BY <2>1, ClosingSole
  <2>2. CASE \/ Close(t) \/ Hangup(t) \/ Rearm(t)
             \/ Claim(t) \/ Take(t) \/ Unclaim(t) \/ WsaSend(t) \/ Decrement(t)
             \/ Cas(t) /\ conn[th[t].c].isClosed
    BY <2>2, SharedQuiet, QuietKeeps
  <2> QED BY <1>5, <2>1, <2>2 DEF SharedStep
<1> QED BY <1>2, <1>3, <1>4, <1>5 DEF Next, Server

LEMMA OneOrNone == CloseInv => CloseOnce
<1> SUFFICES ASSUME CloseInv, NEW c \in Conns
             PROVE  Closers(c) = IF conn[c].isClosed THEN 1 ELSE 0
  BY DEF CloseOnce
<1> DEFINE A == On(c, Closing)
           B == QueuedMsgs(c, "close")
<1>1. conn[c].isClosed \in BOOLEAN
  BY TypeParts, ConnValues DEF CloseInv, IInv, ConnsTyped
<1>2. Carried(c) <=> A # {} \/ B # {}
  BY DEF Carried, On, QueuedMsgs
<1>3. /\ \A t, u \in A : t = u
      /\ \A i, j \in B : i = j
      /\ A = {} \/ B = {}
      /\ Carried(c) <=> conn[c].isClosed
  BY DEF CloseInv, Sole, IInv, ClosePending
<1>4. Cardinality({}) = 0 /\ \A x : Cardinality({x}) = 1
  BY FS_EmptySet, FS_Singleton
<1> HIDE DEF A, B
<1>5. Closers(c) = Cardinality(A) + Cardinality(B)
  BY DEF Closers, A, B
<1>6. CASE A = {} /\ B = {}
  BY <1>1, <1>2, <1>3, <1>4, <1>5, <1>6
<1>7. CASE A # {}
  <2>0. PICK t \in A : \A u \in A : u = t
    BY <1>3, <1>7
  <2>1. A = {t}
    BY <2>0
  <2>2. B = {}
    BY <1>3, <1>7
  <2>3. Cardinality(A) = 1 /\ Cardinality(B) = 0
    BY <1>4, <2>1, <2>2
  <2> QED BY <1>2, <1>3, <1>5, <1>7, <2>3
<1>8. CASE B # {}
  <2>0. PICK i \in B : \A j \in B : j = i
    BY <1>3, <1>8
  <2>1. B = {i}
    BY <2>0
  <2>2. A = {}
    BY <1>3, <1>8
  <2>3. Cardinality(A) = 0 /\ Cardinality(B) = 1
    BY <1>4, <2>1, <2>2
  <2> QED BY <1>2, <1>3, <1>5, <1>8, <2>3
<1> QED BY <1>6, <1>7, <1>8

\* IsClosed lets one thread at a time close a connection, whatever posts of
\* OP_CLOSE fail, as long as no OP_CONNECTION does: the reset that follows
\* such a failure claims nothing.
THEOREM ClosedByOne == Spec /\ []NoDrop => []CloseOnce
  BY InitClose, NextClose, OneOrNone, PTL DEF Spec

----------------------------------------------------------------------------
(* The application hears of every close.                                   *)

\* A step at which no message is missing and no post of one fails.
AllPosted ==
  \A t \in Threads : th[t].pc \in {"announce", "postClose"} => th'[t].pc \notin {"dropConn", "reset"}

\* The steps at which a close is on its way to the application.
Hearing == {"disconnect", "postClose", "reset", "rearm", "appClose"}

\* c is connected, or a close of it is on its way.
Hears(c) ==
  \/ conn[c].isConnect
  \/ On(c, Hearing) # {}
  \/ QueuedMsgs(c, "close") # {}

\* What only a logic thread does while messages last.
LogicOnly == {"reset", "rearm", "appClose", "connCheck", "appConnect"}

\* Only a thread that took OP_CLOSE resets a slot.
Errand(t) ==
  /\ th[t].pc # "dropConn"
  /\ th[t].pc \in LogicOnly => t \in Logics
  /\ th[t].pc \in {"reset", "rearm"} => th[t].op = "close"

HearInv ==
  /\ TypeOK /\ Onward
  /\ \A t \in Threads : Errand(t)
  /\ \A c \in Conns : app[c] \/ On(c, {"appConnect"}) # {} => Hears(c)

LEMMA Posts ==
  ASSUME TypeOK, AllPosted, NEW t \in Threads, NEW type, NEW onFail \in {"dropConn", "reset"},
         th[t].pc \in {"announce", "postClose"}, PostMessage(t, type, onFail)
  PROVE  Return(t) /\ logicQ' = Append(logicQ, [op |-> type, c |-> th[t].c])
<1>1. ASSUME NEW b \in BOOLEAN, th' = [th EXCEPT ![t] = [@ EXCEPT !.pc = onFail, !.msg = b]]
      PROVE  FALSE
  <2>1. th'[t].pc = onFail
    BY <1>1 DEF TypeOK, ThreadType
  <2> QED BY <2>1 DEF AllPosted
<1> QED BY <1>1, Zenon DEF PostMessage

\* A step that no close passes through and that disconnects nobody.
Aloof(t) ==
  /\ th[t].pc \notin Hearing
  /\ \A u \in Threads \ {t} : th'[u] = th[u]
  /\ \A d \in Conns : conn[d].isConnect => conn'[d].isConnect
  /\ logicQ' = logicQ \/ \E m \in Messages : logicQ' = Append(logicQ, m)

LEMMA AloofHears ==
  ASSUME TypeOK, NEW t \in Threads, Aloof(t), NEW c \in Conns, Hears(c)
  PROVE  Hears(c)'
<1>1. CASE conn[c].isConnect
  BY <1>1 DEF Aloof, Hears
<1>2. CASE On(c, Hearing) # {}
  BY <1>2 DEF Aloof, Hears, On
<1>3. CASE QueuedMsgs(c, "close") # {}
  <2>1. PICK i \in DOMAIN logicQ : logicQ[i] = [op |-> "close", c |-> c]
    BY <1>3 DEF QueuedMsgs
  <2>2. i \in DOMAIN logicQ' /\ logicQ'[i] = [op |-> "close", c |-> c]
    BY <2>1, QueueKept, TypeParts DEF Aloof
  <2> QED BY <2>2 DEF Hears, QueuedMsgs
<1> QED BY <1>1, <1>2, <1>3 DEF Hears

\* What leaves IsConnect alone.
LEMMA SameConnect ==
  ASSUME ConnsTyped, NEW c \in Conns, NEW k, k.isConnect = conn[c].isConnect,
         conn' = [conn EXCEPT ![c] = k]
  PROVE  \A d \in Conns : conn'[d].isConnect = conn[d].isConnect
  BY DEF ConnsTyped

LEMMA DisconnectKeepsConnect ==
  ASSUME ConnsTyped, NEW c \in Conns, Disconnect(c)
  PROVE  \A d \in Conns : conn'[d].isConnect = conn[d].isConnect
<1>1. conn[c] \in ConnType
  BY DEF ConnsTyped
<1>2. [conn[c] EXCEPT !.sock = NoSocket].isConnect = conn[c].isConnect
  BY <1>1 DEF ConnType
<1> QED BY <1>2, SameConnect DEF Disconnect

LEMMA WorkAloof ==
  ASSUME HearInv, AllPosted, NEW w \in Workers, WorkStep(w)
  PROVE  Aloof(w) /\ th'[w].pc \notin LogicOnly \cup {"dropConn"} /\ app' = app
<1>0. /\ w \in Threads /\ th[w].c \in Conns /\ conn[th[w].c] \in ConnType
      /\ ConnsTyped /\ ThreadsTyped /\ TypeOK /\ Onward /\ th[w] \in ThreadType
  BY Here, TypeParts DEF HearInv, Threads, ThreadsTyped
<1>1. th[w].pc \notin Hearing
  BY Zenon DEF WorkStep, Dequeue, Bind, SetConnect, Announce, DropConn, Deliver,
      WrongPacket,
         Delivered, CheckConnect, IncRecv, WsaRecv, Sent, SetSendable, At, Hearing
<1>2. \A u \in Threads \ {w} : th'[u] = th[u]
  BY <1>0, Zenon DEF WorkStep, Dequeue, Bind, SetConnect, Announce, PostMessage,
      DropConn,
         Deliver, WrongPacket, Delivered, CheckConnect, IncRecv, WsaRecv, Sent, SetSendable,
         TakeBack, Goto, Return, ThreadsTyped
<1>3. logicQ' = logicQ \/ \E m \in Messages : logicQ' = Append(logicQ, m)
  <2>1. \A op \in {"connection", "packet"} : [op |-> op, c |-> th[w].c] \in Messages
    BY <1>0 DEF Messages
  <2> QED BY <2>1, Zenon
       DEF WorkStep, Dequeue, Bind, SetConnect, Announce, PostMessage, DropConn,
            Deliver, WrongPacket, Delivered, CheckConnect, IncRecv, WsaRecv, Sent, SetSendable
<1>4. \A d \in Conns : conn[d].isConnect => conn'[d].isConnect
  <2> DEFINE c == th[w].c
  <2>2. CASE SetConnect(w)
    BY <1>0, <2>2 DEF SetConnect, ConnsTyped, ConnType
  <2>3. CASE DropConn(w)
    BY <1>0, <2>3, DisconnectKeepsConnect DEF DropConn
  <2>4. CASE IncRecv(w)
    <3>1. [conn[c] EXCEPT !.recvOp = "recv", !.ref.recv = Incremented(@)].isConnect = conn[c].isConnect
      BY <1>0 DEF ConnType
    <3> QED BY <1>0, <2>4, <3>1, SameConnect DEF IncRecv
  <2>6. CASE Sent(w)
    <3> DEFINE n == IF conn[c].taken > conn[c].unsent THEN 0 ELSE conn[c].unsent - conn[c].taken
    <3>1. /\ [conn[c] EXCEPT !.ref.send = Incremented(@)].isConnect = conn[c].isConnect
          /\ [conn[c] EXCEPT !.unsent = n].isConnect = conn[c].isConnect
      BY <1>0 DEF ConnType
    <3>2. \/ conn' = [conn EXCEPT ![c] = [conn[c] EXCEPT !.ref.send = Incremented(@)]]
          \/ conn' = [conn EXCEPT ![c] = [conn[c] EXCEPT !.unsent = n]]
      BY <2>6 DEF Sent
    <3> QED BY <1>0, <3>1, <3>2, SameConnect
  <2>7. CASE SetSendable(w)
    <3>1. [conn[c] EXCEPT !.isSendable = TRUE].isConnect = conn[c].isConnect
      BY <1>0 DEF ConnType
    <3> QED BY <1>0, <2>7, <3>1, SameConnect DEF SetSendable
  <2>8. CASE UNCHANGED conn
    BY <2>8
  <2> QED BY <2>2, <2>3, <2>4, <2>6, <2>7, <2>8, Zenon
       DEF WorkStep, Dequeue, Bind, Announce, Deliver, WrongPacket, Delivered, CheckConnect, WsaRecv
<1>5. th'[w].pc \notin LogicOnly \cup {"dropConn"}
  <2> DEFINE Beyond == LogicOnly \cup {"dropConn"}
  <2>1. ASSUME Return(w) PROVE th'[w].pc \notin Beyond
    BY <1>0, <2>1, Returns DEF LogicOnly
  <2>2. ASSUME NEW pc \in PCs \ Beyond, Goto(w, pc) PROVE th'[w].pc \notin Beyond
    BY <1>0, <2>2, Gone
  <2>10. ASSUME NEW kind \in IOKinds, TakeBack(w, kind) PROVE th'[w].pc \notin Beyond
    BY <1>0, <2>10, TakesBack DEF ThreadsTyped, LogicOnly
  <2>3. CASE Dequeue(w)
    <3>1. PICK e \in Completions : th'[w].pc \in Branches \cup {"decrement"}
      BY <1>0, <2>3, Dequeued
    <3> QED BY <3>1 DEF Branches, LogicOnly
  <2>5. CASE SetConnect(w) \/ WrongPacket(w) \/ Delivered(w)
    <3>1. th'[w].pc \in {"checkConnect", "close"}
      BY <1>0, <2>5, ZenonT(40) DEF SetConnect, WrongPacket, Delivered, ThreadsTyped, ThreadType
    <3> QED BY <3>1 DEF LogicOnly
  <2>6. CASE Announce(w)
    BY <1>0, <2>1, <2>6, Posts DEF Announce, At
  <2>7. CASE Deliver(w)
    <3>1. Return(w) \/ th'[w].pc = "deliver"
      BY <1>0, <2>7 DEF Deliver, At, ThreadsTyped, ThreadType
    <3> QED BY <2>1, <3>1 DEF LogicOnly
  <2>8. CASE Bind(w) \/ CheckConnect(w) \/ IncRecv(w) \/ WsaRecv(w) \/ Sent(w) \/ SetSendable(w)
    BY <2>1, <2>2, <2>8, <2>10, Zenon
        DEF Bind, CheckConnect, IncRecv, WsaRecv, Sent, SetSendable, PCs, LogicOnly, IOKinds
  <2>9. ~DropConn(w)
    BY <1>0 DEF DropConn, At, HearInv, Errand
  <2> QED BY <2>3, <2>5, <2>6, <2>7, <2>8, <2>9 DEF WorkStep
<1>6. app' = app
  BY Zenon DEF WorkStep, Dequeue, Bind, SetConnect, Announce, DropConn, Deliver,
      WrongPacket,
         Delivered, CheckConnect, IncRecv, WsaRecv, Sent, SetSendable
<1> QED BY <1>1, <1>2, <1>3, <1>4, <1>5, <1>6 DEF Aloof

\* An aloof step that announces nobody keeps the invariant.
LEMMA AloofKeeps ==
  ASSUME HearInv, TypeOK', Onward', NEW t \in Threads, Aloof(t), Errand(t)',
         th'[t].pc # "appConnect", app' = app
  PROVE  HearInv'
<1>1. \A u \in Threads : Errand(u)'
  BY DEF HearInv, Aloof, Errand
<1>2. ASSUME NEW c \in Conns, app'[c] \/ On(c, {"appConnect"})' # {} PROVE Hears(c)'
  <2>1. On(c, {"appConnect"})' # {} => On(c, {"appConnect"}) # {}
    BY DEF On, Aloof
  <2>2. Hears(c)
    BY <1>2, <2>1 DEF HearInv
  <2> QED BY <2>2, AloofHears DEF HearInv
<1> QED BY <1>1, <1>2 DEF HearInv

\* The steps on a connection that lead a close nowhere.
LEMMA SharedAloof ==
  ASSUME HearInv, NEW t \in Threads,
         \/ Close(t) \/ Hangup(t) \/ Cas(t)
         \/ Claim(t) \/ Take(t) \/ Unclaim(t) \/ WsaSend(t) \/ Decrement(t)
  PROVE  Aloof(t) /\ Errand(t)' /\ th'[t].pc # "appConnect" /\ app' = app
<1>0. /\ th[t].c \in Conns /\ conn[th[t].c] \in ConnType /\ ConnsTyped /\ ThreadsTyped /\ TypeOK
      /\ th[t] \in ThreadType /\ Onward
  BY Here, TypeParts DEF HearInv, ThreadsTyped
<1>1. th[t].pc \notin Hearing
  BY Zenon DEF Close, Hangup, Cas, Claim, Take, Unclaim, WsaSend, Decrement, At, Hearing
<1>2. \A u \in Threads \ {t} : th'[u] = th[u]
  BY <1>0, Zenon DEF Close, Hangup, Cas, Claim, Take, Unclaim, WsaSend, Decrement, TakeBack, Goto,
      Return, ThreadsTyped
<1>3. logicQ' = logicQ /\ app' = app
  BY Zenon DEF Close, Hangup, Cas, Claim, Take, Unclaim, WsaSend, Decrement
<1>4. \A d \in Conns : conn[d].isConnect => conn'[d].isConnect
  <2> DEFINE c == th[t].c
  <2>1. CASE Hangup(t)
    BY <1>0, <2>1, DisconnectKeepsConnect DEF Hangup
  <2>2. CASE Cas(t)
    <3>1. [conn[c] EXCEPT !.isClosed = TRUE].isConnect = conn[c].isConnect
      BY <1>0 DEF ConnType
    <3> QED BY <1>0, <2>2, <3>1, SameConnect DEF Cas
  <2>3. CASE Claim(t)
    <3>1. [conn[c] EXCEPT !.isSendable = FALSE].isConnect = conn[c].isConnect
      BY <1>0 DEF ConnType
    <3> QED BY <1>0, <2>3, <3>1, SameConnect, Zenon DEF Claim
  <2>4. CASE Take(t)
    <3>1. \A k : [conn[c] EXCEPT !.taken = k, !.ref.send = Incremented(@)].isConnect = conn[c].isConnect
      BY <1>0 DEF ConnType
    <3> QED BY <1>0, <2>4, <3>1, SameConnect, Zenon DEF Take
  <2>5. CASE Unclaim(t)
    <3>1. [conn[c] EXCEPT !.isSendable = TRUE].isConnect = conn[c].isConnect
      BY <1>0 DEF ConnType
    <3> QED BY <1>0, <2>5, <3>1, SameConnect DEF Unclaim
  <2>6. CASE WsaSend(t)
    BY <2>6, Zenon DEF WsaSend
  <2>7. CASE Close(t)
    BY <2>7 DEF Close
  <2>8. CASE Decrement(t)
    <3>1. [conn[c] EXCEPT !.ref[th[t].op] = Decremented(@)].isConnect = conn[c].isConnect
      BY <1>0 DEF ConnType
    <3> QED BY <1>0, <2>8, <3>1, SameConnect DEF Decrement
  <2> QED BY <2>1, <2>2, <2>3, <2>4, <2>5, <2>6, <2>7, <2>8
<1>5. th'[t].pc \notin LogicOnly \cup {"dropConn"}
  <2> DEFINE Beyond == LogicOnly \cup {"dropConn"}
  <2>1. ASSUME Return(t) PROVE th'[t].pc \notin Beyond
    BY <1>0, <2>1, Returns DEF LogicOnly
  <2>2. ASSUME NEW pc \in PCs \ Beyond, Goto(t, pc) PROVE th'[t].pc \notin Beyond
    BY <1>0, <2>2, Gone
  <2>3. ASSUME NEW kind \in IOKinds, TakeBack(t, kind) PROVE th'[t].pc \notin Beyond
    BY <1>0, <2>3, TakesBack DEF ThreadsTyped, LogicOnly
  <2>4. CASE Decrement(t)
    <3> DEFINE k == [th[t] EXCEPT !.pc = th[t].then, !.op = "none", !.then = "idle"]
    <3>1. th' = [th EXCEPT ![t] = k] /\ th[t].then \in Branches
      BY <1>0, <2>4 DEF Decrement, At, Onward
    <3>2. k.pc = th[t].then
      BY <1>0 DEF ThreadType
    <3>3. th'[t].pc \in Branches
      <4> HIDE DEF k
      <4> QED BY <1>0, <3>1, <3>2 DEF ThreadsTyped
    <3> QED BY <3>3 DEF Branches, LogicOnly
  <2> QED BY <2>1, <2>2, <2>3, <2>4, Zenon
      DEF Close, Hangup, Cas, Claim, Take, Unclaim, WsaSend, PCs, LogicOnly, IOKinds
<1> QED BY <1>1, <1>2, <1>3, <1>4, <1>5 DEF Aloof, Errand, LogicOnly

\* The steps of a handler that neither take a message nor end a user.
LEMMA LogicAloof ==
  ASSUME HearInv, NEW l \in Logics, ConnCheck(l) \/ AppConnect(l) \/ Prepare(l) \/ Commit(l)
  PROVE  /\ Aloof(l) /\ Errand(l)'
         /\ ConnCheck(l) \/ (th'[l].pc # "appConnect" /\ (AppConnect(l) \/ app' = app))
<1>0. /\ l \in Threads /\ th[l].c \in Conns /\ conn[th[l].c] \in ConnType
      /\ ConnsTyped /\ ThreadsTyped /\ TypeOK /\ th[l] \in ThreadType
  BY Here, TypeParts DEF HearInv, Threads, ThreadsTyped
<1>1. th[l].pc \notin Hearing /\ logicQ' = logicQ
  BY Zenon DEF ConnCheck, AppConnect, Prepare, Commit, At, Hearing
<1>2. \A u \in Threads \ {l} : th'[u] = th[u]
  BY <1>0, Zenon DEF ConnCheck, AppConnect, Prepare, Commit, Goto, Return, ThreadsTyped
<1>3. \A d \in Conns : conn[d].isConnect => conn'[d].isConnect
  <2>1. CASE Commit(l)
    <3>1. [conn[th[l].c] EXCEPT !.unsent = @ + 1].isConnect = conn[th[l].c].isConnect
      BY <1>0 DEF ConnType
    <3> QED BY <1>0, <2>1, <3>1, SameConnect DEF Commit
  <2> QED BY <2>1, Zenon DEF ConnCheck, AppConnect, Prepare
<1>4. CASE ConnCheck(l)
  <2>1. th'[l].pc \in {"appConnect", "idle"}
    BY <1>0, <1>4 DEF ConnCheck, ThreadsTyped, ThreadType, IdleThread
  <2> QED BY <1>1, <1>2, <1>3, <1>4, <2>1 DEF Aloof, Errand
<1>5. CASE AppConnect(l)
  BY <1>0, <1>1, <1>2, <1>3, <1>5, Returns DEF AppConnect, Aloof, Errand, LogicOnly
<1>6. CASE Prepare(l) \/ Commit(l)
  <2>1. th'[l].pc \in {"idle", "prepare", "close", "commit", "claim"}
    <3>1. CASE Prepare(l)
      <4>1. PICK d \in Conns :
              LET at == [IdleThread EXCEPT !.c = d, !.n = th[l].n - 1]
              IN th' = [th EXCEPT ![l] =
                IF ~conn[d].isConnect
                THEN IF at.n = 0 THEN IdleThread ELSE Preparing(at.n)
                ELSE IF conn[d].unsent = SendSlots
                THEN [at EXCEPT !.pc = "close"]
                ELSE [at EXCEPT !.pc = "commit"]]
        BY <3>1, Zenon DEF Prepare
      <4> DEFINE at == [IdleThread EXCEPT !.c = d, !.n = th[l].n - 1]
                 k == IF ~conn[d].isConnect
                      THEN IF at.n = 0 THEN IdleThread ELSE Preparing(at.n)
                      ELSE IF conn[d].unsent = SendSlots
                      THEN [at EXCEPT !.pc = "close"]
                      ELSE [at EXCEPT !.pc = "commit"]
      <4>2. k.pc \in {"idle", "prepare", "close", "commit"}
        BY DEF IdleThread, Preparing
      <4>3. th' = [th EXCEPT ![l] = k]
        BY <4>1
      <4> HIDE DEF k
      <4> QED BY <1>0, <4>2, <4>3 DEF ThreadsTyped
    <3>2. CASE Commit(l)
      BY <1>0, <3>2, Gone DEF Commit
    <3> QED BY <1>6, <3>1, <3>2
  <2>2. app' = app
    BY <1>6, Zenon DEF Prepare, Commit
  <2> QED BY <1>1, <1>2, <1>3, <2>1, <2>2 DEF Aloof, Errand, LogicOnly
<1> QED BY <1>4, <1>5, <1>6

\* A thread that takes a close a step further: it is still on its way.
LEMMA Passes ==
  ASSUME HearInv, TypeOK', Onward', NEW t \in Threads, NEW e \in Conns, e = th[t].c,
         \A u \in Threads \ {t} : th'[u] = th[u], Errand(t)', th'[t].pc # "appConnect",
         \A d \in Conns \ {e} : conn[d].isConnect => conn'[d].isConnect,
         \A d \in Conns : app'[d] => app[d],
         logicQ' = logicQ \/ \E m \in Messages : logicQ' = Append(logicQ, m),
         \/ Hears(e)'
         \/ ~app'[e] /\ On(e, {"appConnect"})' = {}
  PROVE  HearInv'
<1>1. \A u \in Threads : Errand(u)'
  BY DEF HearInv, Errand
<1>2. ASSUME NEW c \in Conns, app'[c] \/ On(c, {"appConnect"})' # {}, c # e PROVE Hears(c)'
  <2>1. On(c, {"appConnect"})' # {} => On(c, {"appConnect"}) # {}
    BY DEF On
  <2>2. Hears(c)
    BY <1>2, <2>1 DEF HearInv
  <2>3. CASE conn[c].isConnect
    BY <1>2, <2>3 DEF Hears
  <2>4. CASE On(c, Hearing) # {}
    BY <1>2, <2>4 DEF On, Hears
  <2>5. CASE QueuedMsgs(c, "close") # {}
    <3>1. PICK i \in DOMAIN logicQ : logicQ[i] = [op |-> "close", c |-> c]
      BY <2>5 DEF QueuedMsgs
    <3>2. i \in DOMAIN logicQ' /\ logicQ'[i] = [op |-> "close", c |-> c]
      BY <3>1, QueueKept, TypeParts DEF HearInv
    <3> QED BY <3>2 DEF Hears, QueuedMsgs
  <2> QED BY <2>2, <2>3, <2>4, <2>5 DEF Hears
<1>3. ASSUME NEW c \in Conns, app'[c] \/ On(c, {"appConnect"})' # {} PROVE Hears(c)'
  BY <1>2, <1>3
<1> QED BY <1>1, <1>3 DEF HearInv

LEMMA ClosingHears ==
  ASSUME HearInv, AllPosted, TypeOK', Onward', NEW t \in Threads,
         ClearConnect(t) \/ DisconnectClosed(t) \/ PostClose(t) \/ Reset(t) \/ Rearm(t)
  PROVE  HearInv'
<1> PICK d \in Conns : d = th[t].c
  BY Here DEF HearInv
<1>0. /\ d \in Conns /\ conn[d] \in ConnType /\ th[t] \in ThreadType /\ TypeOK
      /\ ConnsTyped /\ ThreadsTyped /\ LogicTyped /\ Errand(t)
  BY Here, TypeParts DEF HearInv, ThreadsTyped
<1>1. \A u \in Threads \ {t} : th'[u] = th[u]
  BY <1>0, Zenon DEF ClearConnect, DisconnectClosed, PostClose, PostMessage, Reset, Rearm, Goto,
      Return, ThreadsTyped
<1>2. \A e \in Conns \ {d} : conn'[e] = conn[e]
  BY <1>0, Zenon DEF ClearConnect, DisconnectClosed, Disconnect, PostClose, Reset, Rearm, ConnsTyped
<1>3. app' = app
  BY Zenon DEF ClearConnect, DisconnectClosed, PostClose, Reset, Rearm
<1>4. [op |-> "close", c |-> d] \in Messages
  BY <1>0 DEF Messages
<1>5. ASSUME Errand(t)', th'[t].pc # "appConnect", Hears(d)',
             logicQ' = logicQ \/ logicQ' = Append(logicQ, [op |-> "close", c |-> d])
      PROVE  HearInv'
  BY <1>1, <1>2, <1>3, <1>4, <1>5, Passes
<1>6. ASSUME Errand(t)', th'[t].pc \in Hearing, th'[t].c = d, logicQ' = logicQ
      PROVE  HearInv'
  <2>1. Hears(d)'
    BY <1>6 DEF Hears, On
  <2> QED BY <1>5, <1>6, <2>1 DEF Hearing
<1>7. CASE ClearConnect(t) \/ DisconnectClosed(t)
  <2>1. th'[t].pc \in {"disconnect", "postClose"} /\ th'[t].c = d
    BY <1>0, <1>7, Gone DEF ClearConnect, DisconnectClosed
  <2>2. logicQ' = logicQ
    BY <1>7 DEF ClearConnect, DisconnectClosed
  <2> QED BY <1>6, <2>1, <2>2 DEF Errand, LogicOnly, Hearing
<1>8. CASE Reset(t)
  <2>1. /\ th[t].pc = "reset" /\ th'[t].pc = "rearm" /\ th'[t].c = d /\ th'[t].op = th[t].op
        /\ logicQ' = logicQ
    BY <1>0, <1>8, Gone DEF Reset, At
  <2> QED BY <1>0, <1>6, <2>1 DEF Errand, LogicOnly, Hearing
<1>9. CASE Rearm(t)
  <2>1. th[t].pc = "rearm" /\ th[t].op = "close" /\ t \in Logics /\ logicQ' = logicQ
    BY <1>0, <1>9, Zenon DEF Rearm, At, Errand, LogicOnly
  <2>2. th' = [th EXCEPT ![t] = [@ EXCEPT !.pc = "appClose", !.msg = FALSE]]
    BY <1>9, <2>1, Zenon DEF Rearm
  <2>3. th'[t].pc = "appClose" /\ th'[t].c = d
    BY <1>0, <2>2 DEF ThreadsTyped, ThreadType
  <2> QED BY <1>6, <2>1, <2>3 DEF Errand, LogicOnly, Hearing
<1>10. CASE PostClose(t)
  <2>1. Return(t) /\ logicQ' = Append(logicQ, [op |-> "close", c |-> d])
    BY <1>0, <1>10, Posts DEF PostClose, At
  <2>2. QueuedMsgs(d, "close")' # {}
    <3>1. QueuedMsgs(d, "close")' = QueuedMsgs(d, "close") \cup {Len(logicQ) + 1}
      BY <1>0, <1>4, <2>1, QueuedMore
    <3> QED BY <3>1
  <2>3. Errand(t)' /\ th'[t].pc # "appConnect"
    BY <1>0, <2>1, Returns DEF Errand, LogicOnly
  <2> QED BY <1>5, <2>1, <2>2, <2>3 DEF Hears
<1> QED BY <1>7, <1>8, <1>9, <1>10

\* OnClose of the only handler: nobody else is announcing the connection.
LEMMA AppCloseHears ==
  ASSUME HearInv, TypeOK', Onward', \A k, l \in Logics : k = l, NEW l \in Logics, AppClose(l)
  PROVE  HearInv'
<1>0. /\ l \in Threads /\ th[l].c \in Conns /\ ThreadsTyped /\ TypeOK /\ AppTyped
  BY Here, TypeParts DEF HearInv, Threads
<1>1. /\ \A u \in Threads \ {l} : th'[u] = th[u]
      /\ th'[l].pc \in {"idle", "prepare"}
  BY <1>0, Returns DEF AppClose
<1> PICK e \in Conns : e = th[l].c
  BY <1>0
<1>2. On(e, {"appConnect"})' = {}
  <2>1. \A u \in Threads \ {l} : th[u].pc # "appConnect"
    BY DEF HearInv, Errand, LogicOnly
  <2> QED BY <1>1, <2>1 DEF On
<1>3. ~app'[e] /\ \A d \in Conns : app'[d] => app[d]
  BY <1>0 DEF AppClose, AppTyped
<1>4. Errand(l)' /\ th'[l].pc # "appConnect"
  BY <1>1 DEF Errand, LogicOnly
<1>5. conn' = conn /\ logicQ' = logicQ
  BY DEF AppClose
<1> QED BY <1>0, <1>1, <1>2, <1>3, <1>4, <1>5, Passes

\* OP_CLOSE is taken by the thread that resets the slot.
LEMMA PopHears ==
  ASSUME HearInv, TypeOK', Onward', NEW l \in Logics, PopConnection(l) \/ PopClose(l) \/ PopPacket(l)
  PROVE  HearInv'
<1>0. /\ l \in Threads /\ TypeOK /\ ThreadsTyped /\ LogicTyped /\ conn' = conn /\ app' = app
      /\ logicQ # << >> /\ logicQ' = Tail(logicQ) /\ th[l].pc = "idle"
  BY TypeParts DEF HearInv, Threads, PopConnection, PopClose, PopPacket, Pop, At
<1>1. \A u \in Threads \ {l} : th'[u] = th[u]
  BY <1>0 DEF PopConnection, PopClose, PopPacket, ThreadsTyped
<1>2. \/ PopClose(l) /\ th'[l].pc = "reset" /\ th'[l].c = Head(logicQ).c /\ th'[l].op = "close"
      \/ ~PopClose(l) /\ Head(logicQ).op # "close" /\ th'[l].pc \in {"connCheck", "idle", "prepare"}
  <2>1. CASE PopConnection(l)
    <3>1. Head(logicQ).op = "connection" /\ th'[l].pc = "connCheck"
      BY <1>0, <2>1 DEF PopConnection, Pop, ThreadsTyped, IdleThread
    <3> QED BY <3>1 DEF PopClose, Pop
  <2>2. CASE PopPacket(l)
    <3>1. PICK n \in 0..MaxSends :
            th' = [th EXCEPT ![l] = IF n = 0 THEN IdleThread ELSE Preparing(n)]
      BY <2>2 DEF PopPacket
    <3> DEFINE k == IF n = 0 THEN IdleThread ELSE Preparing(n)
    <3>2. k.pc \in {"idle", "prepare"}
      BY DEF IdleThread, Preparing
    <3>3. th' = [th EXCEPT ![l] = k]
      BY <3>1
    <3>4. th'[l].pc \in {"idle", "prepare"}
      <4> HIDE DEF k
      <4> QED BY <1>0, <3>2, <3>3 DEF ThreadsTyped
    <3>5. Head(logicQ).op = "packet"
      BY <2>2 DEF PopPacket, Pop
    <3> QED BY <3>4, <3>5 DEF PopClose, Pop
  <2>3. CASE PopClose(l)
    BY <1>0, <2>3 DEF PopClose, ThreadsTyped, IdleThread
  <2> QED BY <2>1, <2>2, <2>3
<1>3. Errand(l)'
  BY <1>2 DEF Errand, LogicOnly
<1>4. \A u \in Threads : Errand(u)'
  BY <1>1, <1>3 DEF HearInv, Errand
<1>5. ASSUME NEW c \in Conns, app'[c] \/ On(c, {"appConnect"})' # {} PROVE Hears(c)'
  <2>1. On(c, {"appConnect"})' # {} => On(c, {"appConnect"}) # {}
    BY <1>1, <1>2 DEF On
  <2>2. Hears(c)
    BY <1>0, <1>5, <2>1 DEF HearInv
  <2>3. CASE conn[c].isConnect
    BY <1>0, <2>3 DEF Hears
  <2>4. CASE On(c, Hearing) # {}
    <3>1. PICK u \in Threads : th[u].c = c /\ th[u].pc \in Hearing
      BY <2>4 DEF On
    <3>2. th'[u] = th[u]
      BY <1>0, <1>1, <3>1 DEF Hearing
    <3> QED BY <3>1, <3>2 DEF Hears, On
  <2>5. CASE QueuedMsgs(c, "close") # {}
    <3>1. PICK i \in DOMAIN logicQ : logicQ[i] = [op |-> "close", c |-> c]
      BY <2>5 DEF QueuedMsgs
    <3>2. CASE i = 1
      <4>1. Head(logicQ).op = "close" /\ Head(logicQ).c = c
        BY <1>0, <3>1, <3>2 DEF LogicTyped
      <4>2. th'[l].pc = "reset" /\ th'[l].c = c
        BY <1>2, <4>1
      <4> QED BY <1>0, <4>2 DEF Hears, On, Hearing
    <3>3. CASE i # 1
      <4>1. i - 1 \in Nat \ {0} /\ (i - 1) + 1 \in QueuedMsgs(c, "close")
        BY <1>0, <3>1, <3>3 DEF LogicTyped, QueuedMsgs
      <4>2. i - 1 \in QueuedMsgs(c, "close")'
        BY <1>0, <4>1, QueuedTail
      <4> QED BY <4>2 DEF Hears
    <3> QED BY <3>2, <3>3
  <2> QED BY <2>2, <2>3, <2>4, <2>5 DEF Hears
<1> QED BY <1>4, <1>5 DEF HearInv

LEMMA InitHears == Init => HearInv
<1> SUFFICES ASSUME Init PROVE HearInv
  OBVIOUS
<1>1. \A t \in Threads : th[t].pc = "idle" /\ th[t].then = "idle"
  BY DEF Init, IdleThread
<1>2. \A c \in Conns : ~app[c] /\ On(c, {"appConnect"}) = {}
  BY <1>1 DEF Init, On
<1> QED BY <1>1, <1>2, InitTyped DEF HearInv, Onward, Errand, LogicOnly

LEMMA NextHears ==
  ASSUME \A k, l \in Logics : k = l
  PROVE  HearInv /\ [AllPosted]_vars /\ [Next]_vars => HearInv'
<1> SUFFICES ASSUME HearInv, AllPosted \/ UNCHANGED vars, [Next]_vars PROVE HearInv'
  OBVIOUS
<1>1. TypeOK' /\ Onward'
  BY NextTyped, NextOnward DEF HearInv
<1>2. CASE UNCHANGED vars \/ Arrive \/ Leave \/ Kernel
  <2>1. th' = th /\ logicQ' = logicQ /\ conn' = conn /\ app' = app
    BY <1>2, Zenon DEF vars, Arrive, Leave, Kernel, ClientConnects, ClientSends, ClientLeaves,
        RecvEnds,
                SendEnds
  <2>2. \A t \in Threads : Errand(t)'
    BY <2>1 DEF HearInv, Errand
  <2>3. \A c \in Conns : (Hears(c) <=> Hears(c)') /\ On(c, {"appConnect"})' = On(c, {"appConnect"})
    BY <2>1 DEF Hears, On, QueuedMsgs
  <2> QED BY <1>1, <2>1, <2>2, <2>3 DEF HearInv
<1>3. ASSUME NEW w \in Workers, WorkStep(w), AllPosted PROVE HearInv'
  <2>1. w \in Threads /\ Aloof(w) /\ th'[w].pc \notin LogicOnly \cup {"dropConn"} /\ app' = app
    BY <1>3, WorkAloof DEF Threads
  <2>2. Errand(w)' /\ th'[w].pc # "appConnect"
    BY <2>1 DEF Errand, LogicOnly
  <2> QED BY <1>1, <2>1, <2>2, AloofKeeps
<1>4. ASSUME NEW l \in Logics, LogicStep(l) PROVE HearInv'
  <2>0. l \in Threads /\ th[l].c \in Conns /\ ThreadsTyped /\ AppTyped /\ TypeOK
    BY Here, TypeParts DEF Threads, HearInv
  <2>1. CASE AppClose(l)
    BY <1>1, <2>1, AppCloseHears
  <2>2. CASE PopConnection(l) \/ PopClose(l) \/ PopPacket(l)
    BY <1>1, <2>2, PopHears
  <2>3. CASE Prepare(l) \/ Commit(l)
    <3>1. Aloof(l) /\ Errand(l)' /\ th'[l].pc # "appConnect" /\ app' = app
      BY <2>3, LogicAloof, Zenon DEF ConnCheck, AppConnect, Prepare, Commit, At
    <3> QED BY <1>1, <2>0, <3>1, AloofKeeps
  <2>4. CASE ConnCheck(l) \/ AppConnect(l)
    <3>1. Aloof(l) /\ Errand(l)'
      BY <2>4, LogicAloof
    <3>2. \A u \in Threads : Errand(u)'
      BY <3>1 DEF HearInv, Aloof, Errand
    <3>3. ASSUME NEW c \in Conns, app'[c] \/ On(c, {"appConnect"})' # {}, ConnCheck(l)
          PROVE  Hears(c)'
      <4>1. app' = app /\ conn' = conn
        BY <3>3 DEF ConnCheck
      <4>2. CASE app[c] \/ On(c, {"appConnect"}) # {}
        <5>1. Hears(c)
          BY <4>2 DEF HearInv
        <5> QED BY <2>0, <3>1, <5>1, AloofHears
      <4>3. CASE ~(app[c] \/ On(c, {"appConnect"}) # {})
        <5>1. th'[l].c = c /\ th'[l].pc = "appConnect"
          BY <3>1, <3>3, <4>1, <4>3 DEF On, Aloof
        <5>2. conn[c].isConnect
          BY <2>0, <3>3, <5>1 DEF ConnCheck, ThreadsTyped, ThreadType, IdleThread
        <5> QED BY <4>1, <5>2 DEF Hears
      <4> QED BY <4>2, <4>3
    <3>4. ASSUME NEW c \in Conns, app'[c] \/ On(c, {"appConnect"})' # {}, AppConnect(l)
          PROVE  Hears(c)'
      <4>1. On(c, {"appConnect"})' # {} => On(c, {"appConnect"}) # {}
        <5>1. th'[l].pc # "appConnect"
          BY <2>0, <3>4, Returns DEF AppConnect
        <5> QED BY <3>1, <5>1 DEF On, Aloof
      <4>2. app'[c] => app[c] \/ On(c, {"appConnect"}) # {}
        BY <2>0, <3>4 DEF AppConnect, At, AppTyped, On
      <4>3. Hears(c)
        BY <3>4, <4>1, <4>2 DEF HearInv
      <4> QED BY <2>0, <3>1, <4>3, AloofHears
    <3> QED BY <1>1, <2>4, <3>2, <3>3, <3>4 DEF HearInv
  <2> QED BY <1>4, <2>1, <2>2, <2>3, <2>4 DEF LogicStep
<1>5. ASSUME NEW t \in Threads, SharedStep(t), AllPosted PROVE HearInv'
  BY <1>1, <1>5, ClosingHears, SharedAloof, AloofKeeps DEF SharedStep
<1> QED BY <1>2, <1>3, <1>4, <1>5 DEF Next, Server

\* With one handler at a time and every message posted, every user whose
\* connection is gone is going to be ended: no announcement overtakes the close,
\* whatever the handlers answer and whichever other calls fail.
THEOREM EveryCloseHeard ==
  ASSUME \A k, l \in Logics : k = l
  PROVE  Spec /\ [][AllPosted]_vars => []AppWillHear
<1>1. HearInv => AppWillHear
  BY DEF HearInv, AppWillHear, Hears, Hearing
<1>2. HearInv /\ [AllPosted]_vars /\ [Next]_vars => HearInv'
  BY NextHears
<1> QED BY <1>1, <1>2, InitHears, PTL DEF Spec
=============================================================================
