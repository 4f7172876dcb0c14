-------------------------- MODULE ChatSystemProofs --------------------------
(***************************************************************************)
(* Proofs about ChatSystem, for any number of clients, slots, rooms and    *)
(* packets: the client shows the status the server has it in, and no       *)
(* thread that is joined is left in a receive.                             *)
(***************************************************************************)
EXTENDS ChatSystem, TLAPS, SequenceTheorems, FiniteSetTheorems

----------------------------------------------------------------------------
(* Types.                                                                  *)

Statuses == {"NONE", "LOGIN", "ROOM"}
FormPCs == {"idle", "close", "disconnectd", "join", "gone", "crashed"}
SockStates == {"none", "up", "fin", "dead", "closed"}
ReaderPCs == {"top", "receive", "queue", "ended"}
SenderPCs == {"top", "take", "send", "ended"}
LinkStates == {"free", "accepted", "left", "closed"}

AllIDs == IDs \cup IDsTyped \cup {EmptyID}
Answers == {"SUCCESS", "FAIL", "FAIL_SAME_ID", "FAIL_MAX_MAKE_ROOM", "FAIL_WRONG_ROOM_NUMBER",
            "FAIL_NOT_EXIST_ROOM", "FAIL_IN_NONE", "FAIL_IN_LOGIN", "FAIL_IN_LOBBY", "FAIL_IN_ROOM"}
OfServer == [kind: {"login", "new", "enter", "leave", "chat"}, result: Answers]
            \cup [kind: {"notify"}, result: AllIDs]
Packets == OfServer \cup Ends \cup {Disconnectd}
Queued == {[kind |-> p.kind, result |-> p.result, n |-> n] : p \in Packets, n \in Nat}

SockTypes(c) ==
  /\ DOMAIN sock[c] = {"state", "slot", "n"}
  /\ sock[c].state \in SockStates /\ sock[c].n \in Nat
  /\ sock[c].state = "up" => sock[c].slot \in Slots

FormTypes ==
  form \in [Clients -> [pc: FormPCs, status: Statuses, connect: BOOLEAN, running: BOOLEAN,
                        mixed: BOOLEAN, late: BOOLEAN, posts: Nat]]

OldTypes == old \in [Clients -> [n: Nat, slot: Slots \cup {ASlot}, down: Seq(OfServer \cup Ends)]]

ClientTypes ==
  /\ FormTypes /\ OldTypes
  /\ DOMAIN sock = Clients /\ \A c \in Clients : SockTypes(c)
  /\ reader \in [Clients -> [pc: ReaderPCs, n: Nat, got: Seq(Packets)]]
  /\ recvQ \in [Clients -> Seq(Queued)]
  /\ down \in [Clients -> Seq(OfServer \cup Ends)]

LinkTypes ==
  link \in [Slots -> [up: Seq(Requests \cup {Close}), owner: Clients \cup {Nobody}, n: Nat,
                      state: LinkStates]]

RequestTypes ==
  /\ sender \in [Clients -> [pc: SenderPCs, packet: Requests \cup {NoPacket}]]
  /\ sendQ \in [Clients -> [items: Seq(Requests), count: Int, past: Int]]

Conns == Slots \cup Elsewhere
RoomNumbers == 0..(MaxRoomCount - 1)

ServerTypes ==
  /\ UserState \in [Conns -> {"NONE", "CONNECT", "LOGIN", "ROOM"}]
  /\ UserID \in [Conns -> AllIDs]
  /\ RoomNumber \in [Conns -> RoomNumbers \cup {-1}]
  /\ Rooms \in [RoomNumbers -> SUBSET Conns]

----------------------------------------------------------------------------
(* The inductive invariant.                                                *)

\* What the logic thread goes by of a slot once it is done with the message at
\* hand, the OP_CLOSE of a slot that it reset.
Standing(s) == IF s \in closing THEN "NONE" ELSE StatusOf[UserState[s]]

\* A slot that is accepted is the one of its client's socket, or of an earlier
\* one; a free one has no requests and no user, but one to be forgotten.
Linked ==
  \A s \in Slots :
    /\ link[s].state = "accepted" =>
         /\ link[s].owner \in Clients /\ link[s].n <= sock[link[s].owner].n
         /\ link[s].n = sock[link[s].owner].n =>
              sock[link[s].owner].state = "up" /\ sock[link[s].owner].slot = s
    /\ link[s].state = "free" => link[s].up = << >> /\ Standing(s) = "NONE"

\* There is one logic thread.
Alone == \A s, t \in closing : s = t

\* The server ends the stream of a connection only when it gives it up.
StillOpen(c) ==
  sock[c].state = "up" /\ Open(c) => \A i \in 1..Len(down[c]) : down[c][i] \notin Ends

\* Nothing comes from a connection not made yet, and what the receiver says of a
\* lost connection is true of it.
Notices(c) ==
  /\ reader[c].n <= sock[c].n
  /\ \A i \in 1..Len(recvQ[c]) : recvQ[c][i].n <= sock[c].n
  /\ reader[c].pc = "queue" <=> reader[c].got # << >>
  /\ \A i \in 1..Len(recvQ[c]) :
       recvQ[c][i].kind = Disconnectd.kind /\ recvQ[c][i].n = sock[c].n => sock[c].state # "up"
  /\ \A i \in 1..Len(reader[c].got) :
       reader[c].got[i] = Disconnectd /\ reader[c].n = sock[c].n => sock[c].state # "up"

\* What the form shows of the socket.
Shown(c) ==
  /\ form[c].pc = "disconnectd" => form[c].mixed \/ sock[c].state # "up"
  /\ form[c].connect /\ sock[c].state = "up" =>
       form[c].pc = "close" \/ (form[c].mixed /\ form[c].late)
  /\ form[c].pc \in {"join", "gone", "crashed"} => sock[c].state # "up"

\* A socket before the newest has the receiver in it since the user connected
\* again after a late notice.
Behind(c) ==
  old[c].n # 0 =>
    /\ reader[c].pc = "receive" /\ reader[c].n = old[c].n /\ old[c].n # sock[c].n
    /\ old[c].slot \in Slots /\ form[c].late

\* A packet takes the status from a to b; a notice only comes in a room.
Step(p, a, b) == b = StatusAfter(a, p) /\ (p.kind = "notify" => a = "ROOM")

\* The packets of q take the status from a to b.
Chain(q, a, b) ==
  \E f \in [0..Len(q) -> Statuses] :
    /\ f[0] = a /\ f[Len(q)] = b
    /\ \A i \in 1..Len(q) : Step(q[i], f[i - 1], f[i])

\* Those of the n-th connection do; the others, when they are handled, mark the
\* client mixed.
ChainOf(n, q, a, b) ==
  \E f \in [0..Len(q) -> Statuses] :
    /\ f[0] = a /\ f[Len(q)] = b
    /\ \A i \in 1..Len(q) :
         IF q[i].n = n THEN Step(q[i], f[i - 1], f[i]) ELSE f[i] = f[i - 1]

\* The packets on the way to the form take its status to the server's.
OnTheWay(c) ==
  \E a, b, e \in Statuses :
    /\ ChainOf(sock[c].n, recvQ[c], form[c].status, a)
    /\ IF reader[c].n = sock[c].n THEN Chain(reader[c].got, a, b) ELSE a = b
    /\ Chain(down[c], b, e)
    /\ sock[c].state = "up" /\ Open(c) => e = Standing(sock[c].slot)

Followable(c) == ~form[c].mixed /\ ~form[c].connect => OnTheWay(c)

Held(c) == StillOpen(c) /\ Notices(c) /\ Shown(c) /\ Behind(c) /\ Followable(c)

ServerInv == ServerTypes /\ Server!RoomsAgree /\ Server!UsersAgree

IInv ==
  /\ ClientTypes /\ RequestTypes /\ LinkTypes /\ ServerInv /\ Linked /\ Alone
  /\ \A c \in Clients : Held(c)
----------------------------------------------------------------------------
(* Chains.                                                                 *)

LEMMA ChainEmpty ==
  ASSUME NEW a \in Statuses, NEW b
  PROVE  Chain(<< >>, a, b) <=> b = a
<1> DEFINE f == [i \in 0..Len(<< >>) |-> a]
<1>1. f \in [0..Len(<< >>) -> Statuses] /\ f[0] = a /\ f[Len(<< >>)] = a
  OBVIOUS
<1>2. \A i \in 1..Len(<< >>) : FALSE
  OBVIOUS
<1>3. Chain(<< >>, a, a)
  BY <1>1, <1>2 DEF Chain
<1>4. Chain(<< >>, a, b) => b = a
  BY DEF Chain
<1> QED BY <1>3, <1>4

LEMMA ChainOne ==
  ASSUME NEW a \in Statuses, NEW b \in Statuses, NEW p, Step(p, a, b)
  PROVE  Chain(<<p>>, a, b)
<1> DEFINE f == [i \in 0..Len(<<p>>) |-> IF i = 0 THEN a ELSE b]
<1>1. Len(<<p>>) = 1 /\ <<p>>[1] = p
  OBVIOUS
<1>2. f \in [0..Len(<<p>>) -> Statuses] /\ f[0] = a /\ f[Len(<<p>>)] = b /\ f[1] = b
  BY <1>1
<1>3. \A i \in 1..Len(<<p>>) : i = 1 /\ i - 1 = 0
  BY <1>1
<1> HIDE DEF f
<1>4. \A i \in 1..Len(<<p>>) : Step(<<p>>[i], f[i - 1], f[i])
  BY <1>1, <1>2, <1>3
<1> QED BY <1>2, <1>4 DEF Chain

\* One chain after another.
LEMMA ChainConcat ==
  ASSUME NEW S, NEW q \in Seq(S), NEW r \in Seq(S), NEW a, NEW b, NEW e,
         Chain(q, a, b), Chain(r, b, e)
  PROVE  Chain(q \o r, a, e)
<1> DEFINE m == Len(q)
           n == Len(r)
<1>1. PICK f \in [0..m -> Statuses] :
        f[0] = a /\ f[m] = b /\ \A i \in 1..m : Step(q[i], f[i - 1], f[i])
  BY DEF Chain
<1>2. PICK g \in [0..n -> Statuses] :
        g[0] = b /\ g[n] = e /\ \A i \in 1..n : Step(r[i], g[i - 1], g[i])
  BY DEF Chain
<1>3. /\ Len(q \o r) = m + n /\ m \in Nat /\ n \in Nat
      /\ \A i \in 1..(m + n) : (q \o r)[i] = IF i <= m THEN q[i] ELSE r[i - m]
  BY ConcatProperties
<1> HIDE DEF m, n
<1> DEFINE h == [i \in 0..(m + n) |-> IF i <= m THEN f[i] ELSE g[i - m]]
<1>4. h \in [0..(m + n) -> Statuses]
  <2> SUFFICES ASSUME NEW i \in 0..(m + n)
               PROVE  (IF i <= m THEN f[i] ELSE g[i - m]) \in Statuses
    OBVIOUS
  <2>1. CASE i <= m
    <3>1. i \in 0..m
      BY <1>3, <2>1
    <3> QED BY <2>1, <3>1, <1>1
  <2>2. CASE ~(i <= m)
    <3>1. i - m \in 0..n
      BY <1>3, <2>2
    <3> QED BY <2>2, <3>1, <1>2
  <2> QED BY <2>1, <2>2
<1>5. h[0] = a
  BY <1>1, <1>3
<1>6. h[m + n] = e
  <2>1. CASE n = 0
    BY <2>1, <1>1, <1>2, <1>3
  <2>2. CASE n # 0
    <3>1. m + n \in 0..(m + n) /\ ~(m + n <= m) /\ m + n - m = n
      BY <1>3, <2>2
    <3>2. \A l \in 0..(m + n) : ~(l <= m) => h[l] = g[l - m]
      OBVIOUS
    <3>3. PICK l \in 0..(m + n) : l = m + n /\ l - m = n /\ ~(l <= m)
      BY <1>3, <2>2
    <3> HIDE DEF h
    <3>4. h[l] = g[l - m]
      BY <3>2, <3>3
    <3>5. h[l] = g[n]
      BY <3>4, <3>3
    <3> QED BY <3>3, <3>5, <1>2
  <2> QED BY <2>1, <2>2
<1>7. ASSUME NEW i \in 1..(m + n) PROVE Step((q \o r)[i], h[i - 1], h[i])
  <2>0. i \in 0..(m + n) /\ i - 1 \in 0..(m + n)
    BY <1>3
  <2>1. CASE i <= m
    <3>1. i \in 1..m /\ i - 1 <= m
      BY <1>3, <2>1
    <3>2. h[i] = f[i] /\ h[i - 1] = f[i - 1] /\ (q \o r)[i] = q[i]
      BY <2>0, <2>1, <3>1, <1>3
    <3> HIDE DEF h
    <3> QED BY <3>1, <3>2, <1>1
  <2>2. CASE ~(i <= m)
    <3>1. PICK j \in 1..n : j = i - m
      BY <1>3, <2>2
    <3>2. h[i] = g[j] /\ (q \o r)[i] = r[j]
      BY <2>0, <2>2, <3>1, <1>3
    <3>3. h[i - 1] = g[j - 1]
      <4>1. CASE i - 1 <= m
        <5>1. i - 1 = m /\ j - 1 = 0
          BY <1>3, <2>2, <3>1, <4>1
        <5>2. h[m] = f[m]
          BY <1>3
        <5> HIDE DEF h
        <5> QED BY <5>1, <5>2, <1>1, <1>2
      <4>2. CASE ~(i - 1 <= m)
        <5>1. i - 1 - m = j - 1
          BY <1>3, <3>1
        <5>2. h[i - 1] = g[i - 1 - m]
          BY <2>0, <4>2
        <5> HIDE DEF h
        <5> QED BY <5>1, <5>2
      <4> QED BY <4>1, <4>2
    <3> HIDE DEF h
    <3> QED BY <3>1, <3>2, <3>3, <1>2
  <2> QED BY <2>1, <2>2
<1>8. Len(q \o r) = m + n
  BY <1>3
<1> HIDE DEF h
<1> QED BY <1>4, <1>5, <1>6, <1>7, <1>8 DEF Chain

\* A chain may be cut anywhere.
LEMMA ChainSplit ==
  ASSUME NEW S, NEW q \in Seq(S), NEW a \in Statuses, NEW e, Chain(q, a, e), NEW k \in 0..Len(q)
  PROVE  \E b \in Statuses :
           Chain(SubSeq(q, 1, k), a, b) /\ Chain(SubSeq(q, k + 1, Len(q)), b, e)
<1> DEFINE n == Len(q)
           q1 == SubSeq(q, 1, k)
           q2 == SubSeq(q, k + 1, n)
<1>1. PICK f \in [0..n -> Statuses] :
        f[0] = a /\ f[n] = e /\ \A i \in 1..n : Step(q[i], f[i - 1], f[i])
  BY DEF Chain
<1>2. n \in Nat /\ k \in Nat /\ k <= n /\ \A i \in 1..n : q[i] \in S
  OBVIOUS
<1>3. Len(q1) = k /\ \A i \in 1..k : q1[i] = q[i]
  <2>1. \A i \in 1..k : q[i] \in S
    BY <1>2
  <2>2. /\ Len(q1) = IF 1 <= k THEN k - 1 + 1 ELSE 0
        /\ \A i \in 1..(k - 1 + 1) : q1[i] = q[1 + i - 1]
    BY <1>2, <2>1, SubSeqProperties
  <2> HIDE DEF q1
  <2> QED BY <2>2, <1>2
<1>4. Len(q2) = n - k /\ \A i \in 1..(n - k) : q2[i] = q[k + i]
  <2>1. \A i \in (k + 1)..n : q[i] \in S
    BY <1>2
  <2>2. /\ Len(q2) = IF k + 1 <= n THEN n - (k + 1) + 1 ELSE 0
        /\ \A i \in 1..(n - (k + 1) + 1) : q2[i] = q[k + 1 + i - 1]
    BY <1>2, <2>1, SubSeqProperties
  <2> HIDE DEF q2, n
  <2>3. Len(q2) = n - k
    BY <2>2, <1>2
  <2>4. ASSUME NEW i \in 1..(n - k) PROVE q2[i] = q[k + i]
    <3>1. i \in 1..(n - (k + 1) + 1) /\ k + 1 + i - 1 = k + i
      BY <1>2
    <3> QED BY <2>2, <3>1
  <2> QED BY <2>3, <2>4
<1> HIDE DEF n, q1, q2
<1>5. f[k] \in Statuses
  BY <1>1, <1>2
<1>6. Chain(q1, a, f[k])
  <2> DEFINE g == [i \in 0..k |-> f[i]]
  <2>1. g \in [0..k -> Statuses] /\ g[0] = a /\ g[k] = f[k]
    BY <1>1, <1>2
  <2>2. ASSUME NEW i \in 1..k PROVE Step(q1[i], g[i - 1], g[i])
    <3>1. i \in 0..k /\ i - 1 \in 0..k /\ i \in 1..n
      BY <1>2
    <3> QED BY <3>1, <1>1, <1>3
  <2> HIDE DEF g
  <2> QED BY <2>1, <2>2, <1>3 DEF Chain
<1>7. Chain(q2, f[k], e)
  <2> DEFINE g == [i \in 0..(n - k) |-> f[k + i]]
  <2>1. \A i \in 0..(n - k) : k + i \in 0..n
    BY <1>2
  <2>2. g \in [0..(n - k) -> Statuses]
    BY <2>1, <1>1
  <2>3. g[0] = f[k] /\ g[n - k] = e
    <3>1. 0 \in 0..(n - k) /\ n - k \in 0..(n - k) /\ k + 0 = k /\ k + (n - k) = n
      BY <1>2
    <3>2. g[0] = f[k + 0] /\ g[n - k] = f[k + (n - k)]
      BY <3>1
    <3> HIDE DEF g
    <3> QED BY <3>1, <3>2, <1>1
  <2>4. ASSUME NEW i \in 1..(n - k) PROVE Step(q2[i], g[i - 1], g[i])
    <3>1. PICK j \in 1..n : j = k + i
      BY <1>2
    <3>2. i \in 0..(n - k) /\ i - 1 \in 0..(n - k) /\ k + (i - 1) = j - 1
      BY <1>2, <3>1
    <3>3. g[i] = f[j] /\ g[i - 1] = f[j - 1]
      BY <3>1, <3>2
    <3> HIDE DEF g
    <3> QED BY <3>1, <3>3, <1>1, <1>4
  <2> HIDE DEF g
  <2>5. Len(q2) = n - k
    BY <1>4
  <2> QED BY <2>2, <2>3, <2>4, <2>5 DEF Chain
<1> QED BY <1>5, <1>6, <1>7 DEF q1, q2, n

\* What is left of a chain without its first packet.
LEMMA ChainHead ==
  ASSUME NEW S, NEW q \in Seq(S), q # << >>, NEW a \in Statuses, NEW e, Chain(q, a, e)
  PROVE  \E b \in Statuses : Step(Head(q), a, b) /\ Chain(Tail(q), b, e)
<1> DEFINE n == Len(q)
<1>1. PICK f \in [0..n -> Statuses] :
        f[0] = a /\ f[n] = e /\ \A i \in 1..n : Step(q[i], f[i - 1], f[i])
  BY DEF Chain
<1>2. /\ n \in Nat \ {0} /\ Head(q) = q[1] /\ Len(Tail(q)) = n - 1
      /\ \A i \in 1..(n - 1) : Tail(q)[i] = q[i + 1]
  BY HeadTailProperties
<1> HIDE DEF n
<1>3. 1 \in 0..n /\ 1 \in 1..n /\ 1 - 1 = 0
  BY <1>2
<1>4. f[1] \in Statuses /\ Step(Head(q), a, f[1])
  BY <1>1, <1>2, <1>3
<1> DEFINE g == [i \in 0..(n - 1) |-> f[i + 1]]
<1>5. \A i \in 0..(n - 1) : i + 1 \in 0..n
  BY <1>2
<1>6. g \in [0..(n - 1) -> Statuses]
  BY <1>5, <1>1
<1>7. g[0] = f[1] /\ g[n - 1] = e
  <2>1. 0 \in 0..(n - 1) /\ n - 1 \in 0..(n - 1) /\ n - 1 + 1 = n /\ 0 + 1 = 1
    BY <1>2
  <2>2. g[0] = f[0 + 1] /\ g[n - 1] = f[n - 1 + 1]
    BY <2>1
  <2> HIDE DEF g
  <2> QED BY <2>1, <2>2, <1>1
<1>8. ASSUME NEW i \in 1..(n - 1) PROVE Step(Tail(q)[i], g[i - 1], g[i])
  <2>1. PICK j \in 1..n : j = i + 1
    BY <1>2
  <2>2. i \in 0..(n - 1) /\ i - 1 \in 0..(n - 1) /\ i - 1 + 1 = j - 1
    BY <1>2, <2>1
  <2>3. g[i] = f[j] /\ g[i - 1] = f[j - 1]
    BY <2>1, <2>2
  <2> HIDE DEF g
  <2> QED BY <2>1, <2>3, <1>1, <1>2
<1> HIDE DEF g
<1>9. Chain(Tail(q), f[1], e)
  BY <1>2, <1>6, <1>7, <1>8 DEF Chain
<1> QED BY <1>4, <1>9

\* The same for the packets of one connection among others.
LEMMA ChainOfHead ==
  ASSUME NEW S, NEW n, NEW q \in Seq(S), q # << >>, NEW a \in Statuses, NEW e,
         ChainOf(n, q, a, e)
  PROVE  \E b \in Statuses :
           /\ IF Head(q).n = n THEN Step(Head(q), a, b) ELSE b = a
           /\ ChainOf(n, Tail(q), b, e)
<1> DEFINE l == Len(q)
<1>1. PICK f \in [0..l -> Statuses] :
        /\ f[0] = a /\ f[l] = e
        /\ \A i \in 1..l : IF q[i].n = n THEN Step(q[i], f[i - 1], f[i]) ELSE f[i] = f[i - 1]
  BY DEF ChainOf
<1>2. /\ l \in Nat \ {0} /\ Head(q) = q[1] /\ Len(Tail(q)) = l - 1
      /\ \A i \in 1..(l - 1) : Tail(q)[i] = q[i + 1]
  BY HeadTailProperties
<1> HIDE DEF l
<1>3. 1 \in 0..l /\ 1 \in 1..l /\ 1 - 1 = 0
  BY <1>2
<1>4. f[1] \in Statuses /\ IF Head(q).n = n THEN Step(Head(q), a, f[1]) ELSE f[1] = a
  BY <1>1, <1>2, <1>3
<1> DEFINE g == [i \in 0..(l - 1) |-> f[i + 1]]
<1>5. \A i \in 0..(l - 1) : i + 1 \in 0..l
  BY <1>2
<1>6. g \in [0..(l - 1) -> Statuses]
  BY <1>5, <1>1
<1>7. g[0] = f[1] /\ g[l - 1] = e
  <2>1. 0 \in 0..(l - 1) /\ l - 1 \in 0..(l - 1) /\ l - 1 + 1 = l /\ 0 + 1 = 1
    BY <1>2
  <2>2. g[0] = f[0 + 1] /\ g[l - 1] = f[l - 1 + 1]
    BY <2>1
  <2> HIDE DEF g
  <2> QED BY <2>1, <2>2, <1>1
<1>8. ASSUME NEW i \in 1..(l - 1)
      PROVE  IF Tail(q)[i].n = n THEN Step(Tail(q)[i], g[i - 1], g[i]) ELSE g[i] = g[i - 1]
  <2>1. PICK j \in 1..l : j = i + 1
    BY <1>2
  <2>2. i \in 0..(l - 1) /\ i - 1 \in 0..(l - 1) /\ i - 1 + 1 = j - 1
    BY <1>2, <2>1
  <2>3. g[i] = f[j] /\ g[i - 1] = f[j - 1]
    BY <2>1, <2>2
  <2> HIDE DEF g
  <2> QED BY <2>1, <2>3, <1>1, <1>2
<1> HIDE DEF g
<1>9. ChainOf(n, Tail(q), f[1], e)
  BY <1>2, <1>6, <1>7, <1>8 DEF ChainOf
<1> QED BY <1>4, <1>9

LEMMA ChainOfAppend ==
  ASSUME NEW S, NEW n, NEW q \in Seq(S), NEW p \in S, NEW a, NEW b, NEW e \in Statuses,
         ChainOf(n, q, a, b), IF p.n = n THEN Step(p, b, e) ELSE e = b
  PROVE  ChainOf(n, Append(q, p), a, e)
<1> DEFINE l == Len(q)
           r == Append(q, p)
<1>1. PICK f \in [0..l -> Statuses] :
        /\ f[0] = a /\ f[l] = b
        /\ \A i \in 1..l : IF q[i].n = n THEN Step(q[i], f[i - 1], f[i]) ELSE f[i] = f[i - 1]
  BY DEF ChainOf
<1>2. l \in Nat /\ Len(r) = l + 1 /\ r[l + 1] = p /\ \A i \in 1..l : r[i] = q[i]
  BY AppendProperties
<1> HIDE DEF l, r
<1> DEFINE g == [i \in 0..(l + 1) |-> IF i = l + 1 THEN e ELSE f[i]]
<1>3. \A i \in 0..(l + 1) : i = l + 1 \/ i \in 0..l
  BY <1>2
<1>4. g \in [0..(l + 1) -> Statuses]
  BY <1>1, <1>3
<1>5. g[l + 1] = e /\ \A i \in 0..l : g[i] = f[i]
  <2>1. l + 1 \in 0..(l + 1) /\ \A i \in 0..l : i \in 0..(l + 1) /\ i # l + 1
    BY <1>2
  <2> QED BY <2>1
<1> HIDE DEF g
<1>6. g[0] = a
  BY <1>1, <1>2, <1>5
<1>7. ASSUME NEW i \in 1..(l + 1)
      PROVE  IF r[i].n = n THEN Step(r[i], g[i - 1], g[i]) ELSE g[i] = g[i - 1]
  <2>1. CASE i \in 1..l
    <3>1. i \in 0..l /\ i - 1 \in 0..l
      BY <1>2, <2>1
    <3> QED BY <2>1, <3>1, <1>1, <1>2, <1>5
  <2>2. CASE i = l + 1
    <3>1. i - 1 = l /\ l \in 0..l
      BY <1>2, <2>2
    <3>2. g[i - 1] = b /\ g[i] = e /\ r[i] = p
      BY <3>1, <2>2, <1>1, <1>2, <1>5
    <3> QED BY <3>2
  <2>3. i \in 1..l \/ i = l + 1
    BY <1>2
  <2> QED BY <2>1, <2>2, <2>3
<1>8. ChainOf(n, r, a, e)
  BY <1>2, <1>4, <1>5, <1>6, <1>7 DEF ChainOf
<1> QED BY <1>8 DEF r

\* Packets of other connections leave the status alone.
LEMMA ChainOfForeign ==
  ASSUME NEW S, NEW n, NEW q \in Seq(S), NEW a \in Statuses, \A i \in 1..Len(q) : q[i].n # n
  PROVE  ChainOf(n, q, a, a)
<1> DEFINE l == Len(q)
           f == [i \in 0..l |-> a]
<1>1. l \in Nat /\ f \in [0..l -> Statuses] /\ f[0] = a /\ f[l] = a
  OBVIOUS
<1>2. ASSUME NEW i \in 1..l PROVE q[i].n # n /\ f[i] = f[i - 1]
  <2>1. l \in Nat
    OBVIOUS
  <2>2. i \in 0..l /\ i - 1 \in 0..l
    BY <2>1
  <2> QED BY <2>2
<1> HIDE DEF f
<1> QED BY <1>1, <1>2 DEF ChainOf

LEMMA ChainOfEmpty ==
  ASSUME NEW n, NEW a \in Statuses, NEW b
  PROVE  ChainOf(n, << >>, a, b) <=> b = a
<1>1. << >> \in Seq({}) /\ Len(<< >>) = 0 /\ \A i \in 1..Len(<< >>) : FALSE
  OBVIOUS
<1>2. ChainOf(n, << >>, a, a)
  BY <1>1, ChainOfForeign
<1>3. ChainOf(n, << >>, a, b) => b = a
  BY <1>1 DEF ChainOf
<1> QED BY <1>2, <1>3
----------------------------------------------------------------------------
(* What a handler of the server sends to one connection.                   *)

LEMMA SeqOfNone == SetToSeq({}) = << >>
<1> DEFINE P(f) == f \in [1..0 -> {}] /\ IsInjective(f)
<1>1. Cardinality({}) = 0
  BY FS_EmptySet
<1>2. SetToSeq({}) = CHOOSE f : P(f)
  BY <1>1, Zenon DEF SetToSeq
<1>3. P(<< >>)
  BY DEF IsInjective
<1>4. P(CHOOSE f : P(f))
  BY <1>3, Zenon
<1>5. ASSUME NEW f, P(f) PROVE f = << >>
  <2>1. f \in [1..0 -> {}]
    BY <1>5, Zenon
  <2>2. f \in Seq({})
    BY <2>1, SeqDef
  <2>3. DOMAIN f = 1..0 /\ DOMAIN f = 1..Len(f) /\ Len(f) \in Nat
    BY <2>1, <2>2, LenProperties
  <2>4. Len(f) = 0
    BY <2>3
  <2> QED BY <2>2, <2>4, EmptySeq
<1> QED BY <1>2, <1>4, <1>5

LEMMA SeqOfOne ==
  ASSUME NEW p
  PROVE  SetToSeq({p}) = <<p>>
<1> DEFINE P(f) == f \in [1..1 -> {p}] /\ IsInjective(f)
<1>1. Cardinality({p}) = 1
  BY FS_Singleton
<1>2. SetToSeq({p}) = CHOOSE f : P(f)
  BY <1>1, Zenon DEF SetToSeq
<1>3. P(<<p>>)
  BY DEF IsInjective
<1>4. P(CHOOSE f : P(f))
  BY <1>3, Zenon
<1>5. ASSUME NEW f, P(f) PROVE f = <<p>>
  <2>1. f \in [1..1 -> {p}]
    BY <1>5, Zenon
  <2>2. f \in Seq({p}) /\ f[1] = p
    <3>1. f \in Seq({p})
      BY <2>1, SeqDef
    <3>2. 1 \in 1..1
      OBVIOUS
    <3> QED BY <2>1, <3>1, <3>2
  <2>3. DOMAIN f = 1..1 /\ DOMAIN f = 1..Len(f) /\ Len(f) \in Nat
    BY <2>1, <2>2, LenProperties
  <2>4. Len(f) = 1
    BY <2>3
  <2>5. <<p>> \in Seq({p}) /\ Len(<<p>>) = 1 /\ <<p>>[1] = p
    OBVIOUS
  <2>6. \A i \in 1..Len(f) : f[i] = <<p>>[i]
    BY <2>2, <2>4, <2>5
  <2> QED BY <2>2, <2>4, <2>5, <2>6, SeqEqual
<1> QED BY <1>2, <1>4, <1>5

Plain(p) == [kind |-> p.kind, result |-> p.result]

\* What t is told: nothing, one packet, or a notification and an answer.
Told(t, a, b) ==
  LET mine == {p \in out' : p.to = t} IN
  \/ mine = {} /\ a = b
  \/ \E p : mine = {p} /\ Plain(p) \in OfServer /\ Step(p, a, b)
  \/ \E p, q : /\ mine = {p, q} /\ p.kind = "notify" /\ q.kind # "notify"
               /\ Plain(p) \in OfServer /\ Plain(q) \in OfServer
               /\ Step(p, a, a) /\ Step(q, a, b)

LEMMA PlainStep ==
  ASSUME NEW p, NEW a, NEW b
  PROVE  Step(Plain(p), a, b) <=> Step(p, a, b)
BY DEF Step, StatusAfter, Plain

\* What a connection is told is a chain of packets.
LEMMA ToldChain ==
  ASSUME NEW t, NEW a \in Statuses, NEW b \in Statuses, Told(t, a, b)
  PROVE  SentTo(t) \in Seq(OfServer) /\ Chain(SentTo(t), a, b)
<1> DEFINE mine == {p \in out' : p.to = t}
           N == {Plain(p) : p \in {q \in mine : q.kind = "notify"}}
           A == {Plain(p) : p \in {q \in mine : q.kind # "notify"}}
<1>1. SentTo(t) = SetToSeq(N) \o SetToSeq(A)
  BY DEF SentTo, Plain
<1>2. CASE mine = {} /\ a = b
  <2>1. N = {} /\ A = {}
    BY <1>2
  <2>2. << >> \in Seq(OfServer) /\ << >> \o << >> = << >>
    BY EmptySeq, ConcatEmptySeq
  <2>3. SentTo(t) = << >>
    BY <1>1, <2>1, <2>2, SeqOfNone
  <2> QED BY <1>2, <2>2, <2>3, ChainEmpty
<1>3. ASSUME NEW p, mine = {p}, Plain(p) \in OfServer, Step(p, a, b)
      PROVE  SentTo(t) \in Seq(OfServer) /\ Chain(SentTo(t), a, b)
  <2>1. <<Plain(p)>> \in Seq(OfServer) /\ << >> \in Seq(OfServer)
    BY <1>3
  <2>2. Chain(<<Plain(p)>>, a, b)
    BY <1>3, PlainStep, ChainOne
  <2>3. \/ N = {Plain(p)} /\ A = {}
        \/ N = {} /\ A = {Plain(p)}
    BY <1>3
  <2>4. SentTo(t) = <<Plain(p)>>
    <3> HIDE DEF N, A
    <3> QED BY <1>1, <2>1, <2>3, SeqOfNone, SeqOfOne, ConcatEmptySeq
  <2> QED BY <2>1, <2>2, <2>4
<1>4. ASSUME NEW p, NEW q, mine = {p, q}, p.kind = "notify", q.kind # "notify",
             Plain(p) \in OfServer, Plain(q) \in OfServer, Step(p, a, a), Step(q, a, b)
      PROVE  SentTo(t) \in Seq(OfServer) /\ Chain(SentTo(t), a, b)
  <2>1. <<Plain(p)>> \in Seq(OfServer) /\ <<Plain(q)>> \in Seq(OfServer)
    BY <1>4
  <2>2. Chain(<<Plain(p)>>, a, a) /\ Chain(<<Plain(q)>>, a, b)
    BY <1>4, PlainStep, ChainOne
  <2>3. N = {Plain(p)} /\ A = {Plain(q)}
    BY <1>4
  <2>4. SentTo(t) = <<Plain(p)>> \o <<Plain(q)>>
    <3> HIDE DEF N, A
    <3>1. SetToSeq(N) = <<Plain(p)>> /\ SetToSeq(A) = <<Plain(q)>>
      BY <2>3, SeqOfOne, Zenon
    <3> QED BY <1>1, <3>1, Zenon
  <2> QED BY <2>1, <2>2, <2>4, ChainConcat, ConcatProperties
<1> QED BY <1>2, <1>3, <1>4 DEF Told
----------------------------------------------------------------------------
(* What the handlers of the server keep, and what they tell a connection.  *)

\* The tables agree, and everybody is told what concerns him.
Serves(s) ==
  /\ ServerInv'
  /\ \A t \in Conns \ {s} : UserState'[t] = UserState[t]
  /\ \A t \in Conns : Told(t, StatusOf[UserState[t]], StatusOf[UserState'[t]])

LEMMA StatusTypes ==
  ASSUME ServerTypes, NEW t \in Conns
  PROVE  /\ StatusOf[UserState[t]] \in Statuses
         /\ UserState[t] = "NONE" => StatusOf[UserState[t]] = "NONE"
         /\ UserState[t] = "CONNECT" => StatusOf[UserState[t]] = "NONE"
         /\ UserState[t] = "LOGIN" => StatusOf[UserState[t]] = "LOGIN"
         /\ UserState[t] = "ROOM" => StatusOf[UserState[t]] = "ROOM"
BY DEF ServerTypes, StatusOf, Statuses

\* One packet, an answer that leaves the tables alone.
LEMMA Answered ==
  ASSUME ServerInv, NEW s \in Conns, NEW kind \in {"login", "new", "enter", "leave", "chat"},
         NEW result \in Answers \ {"SUCCESS"}, Server!Respond(s, kind, result),
         UNCHANGED tables
  PROVE  Serves(s)
<1> DEFINE p == [to |-> s, kind |-> kind, result |-> result]
<1>1. out' = {p}
  BY DEF Server!Respond, Server!Packet
<1>2. ServerInv'
  BY DEF ServerInv, ServerTypes, Server!RoomsAgree, Server!UsersAgree, tables
<1>3. ASSUME NEW t \in Conns PROVE Told(t, StatusOf[UserState[t]], StatusOf[UserState'[t]])
  <2> DEFINE a == StatusOf[UserState[t]]
  <2>1. UserState' = UserState
    BY DEF tables
  <2>2. p.to = s /\ p.kind = kind /\ p.result = result
    OBVIOUS
  <2>3. Plain(p) \in OfServer
    BY <2>2 DEF Plain, OfServer
  <2> HIDE DEF p
  <2>4. Step(p, a, a)
    BY <2>2 DEF Step, StatusAfter, Answers
  <2>5. CASE t = s
    <3>1. {r \in out' : r.to = t} = {p}
      BY <1>1, <2>2, <2>5
    <3>2. StatusOf[UserState'[t]] = a
      BY <2>1
    <3>3. \E r : {x \in out' : x.to = t} = {r} /\ Plain(r) \in OfServer /\ Step(r, a, a)
      BY <2>3, <2>4, <3>1, Zenon
    <3> QED BY <3>2, <3>3, Zenon DEF Told
  <2>6. CASE t # s
    <3>1. {r \in out' : r.to = t} = {}
      BY <1>1, <2>2, <2>6
    <3> QED BY <2>1, <3>1, Zenon DEF Told
  <2> QED BY <2>5, <2>6
<1> QED BY <1>2, <1>3 DEF Serves, tables

LEMMA Refused ==
  ASSUME ServerInv, NEW s \in Conns, NEW kind \in {"login", "new", "enter", "leave", "chat"},
         NEW allowed, Server!Refuse(s, kind, allowed)
  PROVE  Serves(s)
<1>1. /\ Server!WrongState[UserState[s]] \in Answers \ {"SUCCESS"}
      /\ Server!Respond(s, kind, Server!WrongState[UserState[s]])
      /\ UNCHANGED tables
  BY DEF ServerInv, ServerTypes, Server!Refuse, Server!WrongState, Answers, tables, Server!tables
<1> QED BY <1>1, Answered

\* One packet, that tells the user what became of him.
LEMMA Granted ==
  ASSUME ServerInv, ServerInv', NEW s \in Conns, NEW kind \in {"login", "new", "enter", "leave"},
         Server!Respond(s, kind, "SUCCESS"), NEW state, 
         UserState' = [UserState EXCEPT ![s] = state],
         kind \in {"login", "leave"} => state = "LOGIN",
         kind \in {"new", "enter"} => state = "ROOM"
  PROVE  Serves(s)
<1> DEFINE p == [to |-> s, kind |-> kind, result |-> "SUCCESS"]
<1>1. out' = {p}
  BY DEF Server!Respond, Server!Packet
<1>2. p.to = s /\ p.kind = kind /\ p.result = "SUCCESS"
  OBVIOUS
<1>3. Plain(p) \in OfServer
  BY <1>2 DEF Plain, OfServer, Answers
<1> HIDE DEF p
<1>4. ASSUME NEW t \in Conns PROVE Told(t, StatusOf[UserState[t]], StatusOf[UserState'[t]])
  <2>1. CASE t = s
    <3>1. StatusOf[UserState'[s]] = StatusAfter(StatusOf[UserState[s]], p)
      BY <1>2 DEF StatusOf, StatusAfter, ServerInv, ServerTypes
    <3>2. Step(p, StatusOf[UserState[t]], StatusOf[UserState'[t]])
      BY <1>2, <3>1, <2>1 DEF Step
    <3>3. {r \in out' : r.to = t} = {p}
      BY <1>1, <1>2, <2>1
    <3> QED BY <1>3, <3>2, <3>3, Zenon DEF Told
  <2>2. CASE t # s
    <3>1. {r \in out' : r.to = t} = {}
      BY <1>1, <1>2, <2>2
    <3>2. UserState'[t] = UserState[t]
      BY <2>2 DEF ServerInv, ServerTypes
    <3> QED BY <3>1, <3>2, Zenon DEF Told
  <2> QED BY <2>1, <2>2
<1>5. \A t \in Conns \ {s} : UserState'[t] = UserState[t]
  BY DEF ServerInv, ServerTypes
<1> QED BY <1>4, <1>5 DEF Serves
LEMMA Logins ==
  ASSUME ServerInv, NEW s \in Conns, NEW id \in AllIDs, Server!ProcessPacketLogin(s, id)
  PROVE  Serves(s)
<1>1. CASE Server!Refuse(s, "login", "CONNECT")
  BY <1>1, Refused
<1>2. CASE /\ UserState[s] = "CONNECT"
           /\ UserState' = [UserState EXCEPT ![s] = "LOGIN"]
           /\ UserID' = [UserID EXCEPT ![s] = id]
           /\ Server!Respond(s, "login", "SUCCESS")
           /\ UNCHANGED <<RoomNumber, Users, Rooms>>
  <2>1. ServerTypes'
    BY <1>2 DEF ServerInv, ServerTypes
  <2>2. Server!RoomsAgree' /\ Server!UsersAgree'
    BY <1>2 DEF ServerInv, ServerTypes, Server!RoomsAgree, Server!UsersAgree, Conns
  <2> QED BY <1>2, <2>1, <2>2, Granted DEF ServerInv
<1>3. CASE Server!Respond(s, "login", "FAIL_SAME_ID") /\ UNCHANGED tables
  BY <1>3, Answered DEF Answers
<1> QED BY <1>1, <1>2, <1>3 DEF Server!ProcessPacketLogin, tables, Server!tables

\* A user comes into a room.
LEMMA Entered ==
  ASSUME ServerInv, NEW s \in Conns, NEW r \in RoomNumbers, NEW kind \in {"new", "enter"},
         UserState[s] = "LOGIN", Server!PutInRoom(s, r), Server!Respond(s, kind, "SUCCESS")
  PROVE  Serves(s)
<1> USE DEF Server!PutInRoom
<1>1. r \in 0..(MaxRoomCount - 1) /\ r # -1
  BY SystemAssumption DEF RoomNumbers
<1>2. RoomNumber[s] = -1
  BY DEF ServerInv, Server!RoomsAgree, Server!INVALID, Conns
<1>3. ServerTypes'
  BY DEF ServerInv, ServerTypes
<1>4. Server!UsersAgree'
  BY DEF ServerInv, ServerTypes, Server!UsersAgree, Conns
<1>5. Server!RoomsAgree'
  <2>1. ASSUME NEW t \in Conns
        PROVE  UserState'[t] = "ROOM" <=> RoomNumber'[t] # -1
    BY <1>1 DEF ServerInv, ServerTypes, Server!RoomsAgree, Server!INVALID, Conns
  <2>2. ASSUME NEW t \in Conns, NEW x \in RoomNumbers
        PROVE  t \in Rooms'[x] <=> RoomNumber'[t] = x
    <3>1. t \in Rooms[x] <=> RoomNumber[t] = x
      BY DEF ServerInv, Server!RoomsAgree, Conns, RoomNumbers, Server!RoomNumbers
    <3>2. x # -1
      BY SystemAssumption DEF RoomNumbers
    <3> QED BY <3>1, <3>2, <1>2 DEF ServerInv, ServerTypes
  <2> QED BY <2>1, <2>2 DEF Server!RoomsAgree, Server!INVALID, Conns, RoomNumbers, Server!RoomNumbers
<1>6. UserState' = [UserState EXCEPT ![s] = "ROOM"]
  OBVIOUS
<1> QED BY <1>3, <1>4, <1>5, <1>6, Granted DEF ServerInv

LEMMA MakesRoom ==
  ASSUME ServerInv, NEW s \in Conns, Server!ProcessPacketRoomNew(s)
  PROVE  Serves(s)
<1>1. CASE Server!Refuse(s, "new", "LOGIN")
  BY <1>1, Refused
<1>2. CASE /\ UserState[s] = "LOGIN" /\ Server!Respond(s, "new", "SUCCESS")
           /\ \E r \in RoomNumbers : Server!PutInRoom(s, r)
  BY <1>2, Entered
<1>3. CASE Server!Respond(s, "new", "FAIL_MAX_MAKE_ROOM") /\ UNCHANGED tables
  BY <1>3, Answered DEF Answers
<1> QED
  BY <1>1, <1>2, <1>3
  DEF Server!ProcessPacketRoomNew, tables, Server!tables, RoomNumbers, Server!RoomNumbers

LEMMA EntersRoom ==
  ASSUME ServerInv, NEW s \in Conns, NEW r, Server!ProcessPacketRoomEnter(s, r)
  PROVE  Serves(s)
<1>1. CASE Server!Refuse(s, "enter", "LOGIN")
  BY <1>1, Refused
<1>2. CASE /\ UserState[s] = "LOGIN" /\ Server!Respond(s, "enter", "SUCCESS")
           /\ r \in RoomNumbers /\ Server!PutInRoom(s, r)
  BY <1>2, Entered
<1>3. CASE Server!Respond(s, "enter", "FAIL_WRONG_ROOM_NUMBER") /\ UNCHANGED tables
  BY <1>3, Answered DEF Answers
<1>4. CASE Server!Respond(s, "enter", "FAIL_NOT_EXIST_ROOM") /\ UNCHANGED tables
  BY <1>4, Answered DEF Answers
<1> QED
  BY <1>1, <1>2, <1>3, <1>4
  DEF Server!ProcessPacketRoomEnter, tables, Server!tables, RoomNumbers, Server!RoomNumbers
LEMMA LeavesRoom ==
  ASSUME ServerInv, NEW s \in Conns, Server!ProcessPacketRoomLeave(s)
  PROVE  Serves(s)
<1>1. CASE Server!Refuse(s, "leave", "ROOM")
  BY <1>1, Refused
<1>2. CASE ~Server!Refuse(s, "leave", "ROOM")
  <2> DEFINE r == RoomNumber[s]
  <2>1. /\ UserState[s] = "ROOM"
        /\ Rooms' = [Rooms EXCEPT ![r] = @ \ {s}]
        /\ Server!Respond(s, "leave", IF s \in Rooms[r] THEN "SUCCESS" ELSE "FAIL")
        /\ RoomNumber' = [RoomNumber EXCEPT ![s] = -1]
        /\ UserState' = [UserState EXCEPT ![s] = "LOGIN"]
        /\ UNCHANGED <<UserID, Users, UserIDs>>
    BY <1>2 DEF Server!ProcessPacketRoomLeave, Server!INVALID
  <2>2. r \in RoomNumbers /\ r # -1 /\ s \in Rooms[r]
    BY <2>1 DEF ServerInv, ServerTypes, Server!RoomsAgree, Server!INVALID, Conns, RoomNumbers,
                Server!RoomNumbers
  <2>3. Server!Respond(s, "leave", "SUCCESS")
    BY <2>1, <2>2
  <2> HIDE DEF r
  <2>4. ServerTypes'
    BY <2>1 DEF ServerInv, ServerTypes
  <2>5. Server!UsersAgree'
    BY <2>1 DEF ServerInv, ServerTypes, Server!UsersAgree, Conns
  <2>6. Server!RoomsAgree'
    <3>1. ASSUME NEW t \in Conns
          PROVE  UserState'[t] = "ROOM" <=> RoomNumber'[t] # -1
      BY <2>1 DEF ServerInv, ServerTypes, Server!RoomsAgree, Server!INVALID, Conns
    <3>2. ASSUME NEW t \in Conns, NEW x \in RoomNumbers
          PROVE  t \in Rooms'[x] <=> RoomNumber'[t] = x
      <4>1. t \in Rooms[x] <=> RoomNumber[t] = x
        BY DEF ServerInv, Server!RoomsAgree, Conns, RoomNumbers, Server!RoomNumbers
      <4>2. x # -1
        BY SystemAssumption DEF RoomNumbers
      <4> QED BY <4>1, <4>2, <2>1, <2>2 DEF ServerInv, ServerTypes, r
    <3> QED
      BY <3>1, <3>2 DEF Server!RoomsAgree, Server!INVALID, Conns, RoomNumbers, Server!RoomNumbers
  <2> QED BY <2>1, <2>3, <2>4, <2>5, <2>6, Granted DEF ServerInv
<1> QED BY <1>1, <1>2

LEMMA Chats ==
  ASSUME ServerInv, NEW s \in Conns, Server!ProcessPacketRoomChat(s)
  PROVE  Serves(s)
<1>1. CASE Server!Refuse(s, "chat", "ROOM")
  BY <1>1, Refused
<1>2. CASE ~Server!Refuse(s, "chat", "ROOM")
  <2> DEFINE r == RoomNumber[s]
             note(t) == [to |-> t, kind |-> "notify", result |-> UserID[s]]
             p == [to |-> s, kind |-> "chat", result |-> "SUCCESS"]
  <2>1. /\ UserState[s] = "ROOM"
        /\ out' = {note(t) : t \in Rooms[r]} \cup {p}
        /\ UNCHANGED tables
    BY <1>2 DEF Server!ProcessPacketRoomChat, Server!Packet, tables, Server!tables
  <2>2. r \in RoomNumbers /\ s \in Rooms[r] /\ \A t \in Rooms[r] : t \in Conns /\ UserState[t] = "ROOM"
    <3>1. r \in RoomNumbers /\ r # -1
      BY <2>1 DEF ServerInv, ServerTypes, Server!RoomsAgree, Server!INVALID, Conns
    <3>2. \A t \in Conns : t \in Rooms[r] <=> RoomNumber[t] = r
      BY <3>1 DEF ServerInv, Server!RoomsAgree, Conns, RoomNumbers, Server!RoomNumbers
    <3>3. Rooms[r] \subseteq Conns
      BY <3>1 DEF ServerInv, ServerTypes
    <3>4. \A t \in Conns : RoomNumber[t] # -1 => UserState[t] = "ROOM"
      BY DEF ServerInv, Server!RoomsAgree, Server!INVALID, Conns
    <3> QED BY <3>1, <3>2, <3>3, <3>4
  <2>3. ServerInv'
    BY <2>1 DEF ServerInv, ServerTypes, Server!RoomsAgree, Server!UsersAgree, tables
  <2>4. UserID[s] \in AllIDs
    BY DEF ServerInv, ServerTypes
  <2>5. ASSUME NEW t \in Conns PROVE Told(t, StatusOf[UserState[t]], StatusOf[UserState'[t]])
    <3> DEFINE a == StatusOf[UserState[t]]
               mine == {x \in out' : x.to = t}
    <3>1. UserState' = UserState
      BY <2>1 DEF tables
    <3>2. note(t).to = t /\ note(t).kind = "notify" /\ note(t).result = UserID[s]
      OBVIOUS
    <3>3. p.to = s /\ p.kind = "chat" /\ p.result = "SUCCESS"
      OBVIOUS
    <3>4. Plain(note(t)) \in OfServer /\ Plain(p) \in OfServer
      BY <2>4, <3>2, <3>3 DEF Plain, OfServer, Answers
    <3>5. t \in Rooms[r] => a = "ROOM"
      BY <2>2 DEF StatusOf
    <3>6. t \in Rooms[r] => Step(note(t), a, a)
      BY <3>2, <3>5 DEF Step, StatusAfter
    <3>7. Step(p, a, a)
      BY <3>3 DEF Step, StatusAfter
    <3>8. \A x \in Rooms[r] : note(x).to = x
      OBVIOUS
    <3>9. CASE t = s
      <4>1. mine = {note(t), p}
        BY <2>1, <2>2, <3>3, <3>8, <3>9
      <4>2. Told(t, a, a)
        BY <2>2, <3>2, <3>3, <3>4, <3>6, <3>7, <3>9, <4>1 DEF Told
      <4> QED BY <3>1, <4>2
    <3>10. CASE t # s /\ t \in Rooms[r]
      <4>1. mine = {note(t)}
        BY <2>1, <3>3, <3>8, <3>10
      <4>2. Told(t, a, a)
        BY <3>4, <3>6, <3>10, <4>1 DEF Told
      <4> QED BY <3>1, <4>2
    <3>11. CASE t # s /\ t \notin Rooms[r]
      <4>1. mine = {}
        BY <2>1, <3>3, <3>8, <3>11
      <4>2. Told(t, a, a)
        BY <4>1 DEF Told
      <4> QED BY <3>1, <4>2
    <3> QED BY <3>9, <3>10, <3>11
  <2> QED BY <2>1, <2>3, <2>5 DEF Serves, tables
<1> QED BY <1>1, <1>2

\* The handlers that answer nothing.
LEMMA Silent ==
  ASSUME ServerInv, ServerInv', out' = {}, NEW s \in Conns,
         \A t \in Conns \ {s} : UserState'[t] = UserState[t],
         \A t \in Conns : StatusOf[UserState'[t]] = StatusOf[UserState[t]]
  PROVE  Serves(s)
BY DEF Serves, Told

LEMMA Connects ==
  ASSUME ServerInv, NEW s \in Conns, Server!ConnectConnection(s)
  PROVE  Serves(s)
<1>1. out' = {} /\ UNCHANGED <<RoomNumber, Rooms, UserID>>
  BY DEF Server!ConnectConnection
<1>2. CASE s \in Users
  <2>1. UNCHANGED <<UserState, Users>>
    BY <1>2 DEF Server!ConnectConnection
  <2>2. ServerInv'
    BY <1>1, <2>1 DEF ServerInv, ServerTypes, Server!RoomsAgree, Server!UsersAgree
  <2> QED BY <1>1, <2>1, <2>2, Silent
<1>3. CASE s \notin Users
  <2>1. UserState' = [UserState EXCEPT ![s] = "CONNECT"] /\ Users' = Users \cup {s}
    BY <1>3 DEF Server!ConnectConnection
  <2>2. UserState[s] = "NONE"
    BY <1>3 DEF ServerInv, Server!UsersAgree, Conns
  <2>3. ServerTypes'
    BY <1>1, <2>1 DEF ServerInv, ServerTypes
  <2>4. Server!RoomsAgree' /\ Server!UsersAgree'
    BY <1>1, <2>1, <2>2 DEF ServerInv, ServerTypes, Server!RoomsAgree, Server!UsersAgree, Conns
  <2>5. /\ \A t \in Conns : StatusOf[UserState'[t]] = StatusOf[UserState[t]]
        /\ \A t \in Conns \ {s} : UserState'[t] = UserState[t]
    BY <2>1, <2>2 DEF StatusOf, ServerInv, ServerTypes
  <2> QED BY <1>1, <2>3, <2>4, <2>5, Silent DEF ServerInv
<1> QED BY <1>2, <1>3
LEMMA Leaves ==
  ASSUME ServerInv, NEW s \in Conns, Server!DisconnectConnection(s)
  PROVE  /\ ServerInv' /\ out' = {} /\ UserState'[s] = "NONE"
         /\ \A t \in Conns \ {s} : UserState'[t] = UserState[t]
<1>1. out' = {}
  BY DEF Server!DisconnectConnection
<1>2. CASE UserState[s] = "NONE"
  <2>1. UNCHANGED tables
    BY <1>2 DEF Server!DisconnectConnection, tables, Server!tables
  <2> QED
    BY <1>1, <1>2, <2>1
    DEF tables, ServerInv, ServerTypes, Server!RoomsAgree, Server!UsersAgree
<1>3. CASE UserState[s] # "NONE"
  <2> DEFINE r == RoomNumber[s]
  <2>1. /\ Rooms' = IF UserState[s] = "ROOM" THEN [Rooms EXCEPT ![r] = @ \ {s}] ELSE Rooms
        /\ Users' = Users \ {s}
        /\ UserState' = [UserState EXCEPT ![s] = "NONE"]
        /\ UserID' = [UserID EXCEPT ![s] = EmptyID]
        /\ RoomNumber' = [RoomNumber EXCEPT ![s] = -1]
    BY <1>3 DEF Server!DisconnectConnection, Server!INVALID
  <2>2. UserState[s] = "ROOM" => r \in RoomNumbers
    BY DEF ServerInv, ServerTypes, Server!RoomsAgree, Server!INVALID, Conns
  <2>3. UserState[s] # "ROOM" => r = -1
    BY DEF ServerInv, ServerTypes, Server!RoomsAgree, Server!INVALID, Conns
  <2>4. ServerTypes'
    <3>1. Rooms' \in [RoomNumbers -> SUBSET Conns]
      BY <2>1, <2>2 DEF ServerInv, ServerTypes
    <3> QED BY <2>1, <3>1 DEF ServerInv, ServerTypes, AllIDs
  <2>5. Server!UsersAgree'
    BY <2>1 DEF ServerInv, ServerTypes, Server!UsersAgree, Conns
  <2>6. Server!RoomsAgree'
    <3>1. ASSUME NEW t \in Conns
          PROVE  UserState'[t] = "ROOM" <=> RoomNumber'[t] # -1
      BY <2>1 DEF ServerInv, ServerTypes, Server!RoomsAgree, Server!INVALID, Conns
    <3>2. ASSUME NEW t \in Conns, NEW x \in RoomNumbers
          PROVE  t \in Rooms'[x] <=> RoomNumber'[t] = x
      <4>1. t \in Rooms[x] <=> RoomNumber[t] = x
        BY DEF ServerInv, Server!RoomsAgree, Conns, RoomNumbers, Server!RoomNumbers
      <4>2. x # -1
        BY SystemAssumption DEF RoomNumbers
      <4>3. t # s => RoomNumber'[t] = RoomNumber[t]
        BY <2>1 DEF ServerInv, ServerTypes
      <4>4. RoomNumber'[s] = -1
        BY <2>1 DEF ServerInv, ServerTypes
      <4>5. Rooms'[x] = IF x = r THEN Rooms[x] \ {s} ELSE Rooms[x]
        BY <2>1, <2>2, <2>3, <4>2 DEF ServerInv, ServerTypes
      <4> QED BY <4>1, <4>2, <4>3, <4>4, <4>5
    <3> QED
      BY <3>1, <3>2 DEF Server!RoomsAgree, Server!INVALID, Conns, RoomNumbers, Server!RoomNumbers
  <2> QED BY <1>1, <2>1, <2>4, <2>5, <2>6 DEF ServerInv, ServerTypes
<1> QED BY <1>2, <1>3

----------------------------------------------------------------------------
(* The steps of the server.                                                *)

\* What a handler sends reaches the clients whose connections are open.
LEMMA Delivered ==
  ASSUME IInv, ServerTypes', Deliver, UNCHANGED <<form, sock, reader, recvQ, closing>>,
         closing = {}, \A c \in Clients : Open(c)' => Open(c),
         \A t \in Slots : Told(t, StatusOf[UserState[t]], StatusOf[UserState'[t]])
  PROVE  ClientTypes' /\ \A c \in Clients : Held(c)'
<1>1. ASSUME NEW c \in Clients, sock[c].state = "up", Open(c)
      PROVE  /\ sock[c].slot \in Slots
             /\ SentTo(sock[c].slot) \in Seq(OfServer)
             /\ Chain(SentTo(sock[c].slot), StatusOf[UserState[sock[c].slot]],
                      StatusOf[UserState'[sock[c].slot]])
             /\ down'[c] = down[c] \o SentTo(sock[c].slot)
  <2>1. sock[c].slot \in Slots /\ sock[c].slot \in Conns
    BY <1>1 DEF IInv, ClientTypes, SockTypes, Conns
  <2>2. /\ StatusOf[UserState[sock[c].slot]] \in Statuses
        /\ StatusOf[UserState'[sock[c].slot]] \in Statuses
    BY <2>1 DEF IInv, ServerInv, ServerTypes, StatusOf, Statuses
  <2>3. down'[c] = down[c] \o SentTo(sock[c].slot)
    BY <1>1 DEF Deliver
  <2> QED BY <2>1, <2>2, <2>3, ToldChain
<1>2. ASSUME NEW c \in Clients, ~(sock[c].state = "up" /\ Open(c))
      PROVE  down'[c] = down[c]
  BY <1>2 DEF Deliver
<1>5. ASSUME NEW c \in Clients, OldOpen(c) PROVE SentTo(old[c].slot) \in Seq(OfServer)
  <2>1. old[c].slot \in Slots /\ old[c].slot \in Conns
    BY <1>5 DEF IInv, Held, Behind, OldOpen, ReceivingOld, Conns
  <2>2. /\ StatusOf[UserState[old[c].slot]] \in Statuses
        /\ StatusOf[UserState'[old[c].slot]] \in Statuses
    BY <2>1 DEF IInv, ServerInv, ServerTypes, StatusOf, Statuses
  <2> QED BY <2>1, <2>2, ToldChain
<1>3. ClientTypes'
  <2>1. ASSUME NEW c \in Clients PROVE down'[c] \in Seq(OfServer \cup Ends)
    <3>1. down[c] \in Seq(OfServer \cup Ends)
      BY DEF IInv, ClientTypes
    <3>2. CASE sock[c].state = "up" /\ Open(c)
      <4>1. SentTo(sock[c].slot) \in Seq(OfServer \cup Ends)
        BY <3>2, <1>1, SeqMonotonic
      <4> QED BY <1>1, <3>1, <3>2, <4>1, ConcatProperties
    <3> QED BY <1>2, <3>1, <3>2
  <2>2. down' \in [Clients -> Seq(OfServer \cup Ends)]
    BY <2>1 DEF Deliver
  <2>3. OldTypes'
    <3> DEFINE O == [n: Nat, slot: Slots \cup {ASlot}, down: Seq(OfServer \cup Ends)]
    <3>1. ASSUME NEW c \in Clients PROVE old'[c] \in O
      <4>1. old[c] \in O /\ old[c].down \in Seq(OfServer \cup Ends)
        BY DEF IInv, ClientTypes, OldTypes
      <4>2. CASE OldOpen(c)
        <5>1. SentTo(old[c].slot) \in Seq(OfServer \cup Ends)
          BY <1>5, <4>2, SeqMonotonic
        <5>2. old[c].down \o SentTo(old[c].slot) \in Seq(OfServer \cup Ends)
          BY <4>1, <5>1, ConcatProperties
        <5>3. old'[c] = [old[c] EXCEPT !.down = old[c].down \o SentTo(old[c].slot)]
          BY <4>2 DEF Deliver
        <5> QED BY <4>1, <5>2, <5>3
      <4>3. CASE ~OldOpen(c)
        BY <4>1, <4>3 DEF Deliver
      <4> QED BY <4>2, <4>3
    <3> QED BY <3>1 DEF Deliver, OldTypes
  <2> QED BY <2>2, <2>3 DEF IInv, ClientTypes, FormTypes, SockTypes
<1>4. ASSUME NEW c \in Clients PROVE Held(c)'
  <2>1. Notices(c)' /\ Shown(c)' /\ Behind(c)'
    <3>1. old'[c].n = old[c].n /\ old'[c].slot = old[c].slot
      BY DEF Deliver, IInv, ClientTypes, OldTypes
    <3> QED BY <3>1 DEF IInv, Held, Notices, Shown, Behind
  <2>2. CASE sock[c].state = "up" /\ Open(c)
    <3> DEFINE s == sock[c].slot
               q == down[c]
               r == SentTo(s)
    <3>1. /\ q \in Seq(OfServer \cup Ends) /\ r \in Seq(OfServer) /\ r \in Seq(OfServer \cup Ends)
          /\ down'[c] = q \o r /\ Chain(r, StatusOf[UserState[s]], StatusOf[UserState'[s]])
      BY <2>2, <1>1, SeqMonotonic DEF IInv, ClientTypes
    <3>2. StillOpen(c)'
      <4>1. /\ Len(q \o r) = Len(q) + Len(r) /\ Len(q) \in Nat /\ Len(r) \in Nat
            /\ \A i \in 1..(Len(q) + Len(r)) : (q \o r)[i] = IF i <= Len(q) THEN q[i] ELSE r[i - Len(q)]
        <5> HIDE DEF q, r
        <5> QED BY <3>1, ConcatProperties
      <4>2. \A i \in 1..Len(q) : q[i] \notin Ends
        BY <2>2 DEF IInv, Held, StillOpen
      <4>3. \A i \in 1..Len(r) : r[i] \notin Ends
        <5>1. \A i \in 1..Len(r) : r[i] \in OfServer
          BY <3>1
        <5> QED BY <5>1 DEF OfServer, Ends, Fin, Rst
      <4>4. ASSUME NEW i \in 1..Len(q \o r) PROVE (q \o r)[i] \notin Ends
        <5> HIDE DEF q, r
        <5>1. CASE i <= Len(q)
          BY <4>1, <4>2, <5>1
        <5>2. CASE ~(i <= Len(q))
          <6>1. PICK j \in 1..Len(r) : j = i - Len(q)
            BY <4>1, <5>2
          <6> QED BY <4>1, <4>3, <5>2, <6>1
        <5> QED BY <5>1, <5>2
      <4> QED BY <3>1, <4>4 DEF StillOpen
    <3>3. Followable(c)'
      <4>1. SUFFICES ASSUME ~form[c].mixed, ~form[c].connect PROVE OnTheWay(c)'
        BY DEF Followable
      <4>2. PICK a, b, e \in Statuses :
              /\ ChainOf(sock[c].n, recvQ[c], form[c].status, a)
              /\ IF reader[c].n = sock[c].n THEN Chain(reader[c].got, a, b) ELSE a = b
              /\ Chain(q, b, e) /\ e = StatusOf[UserState[s]]
        BY <2>2, <4>1 DEF IInv, Held, Followable, OnTheWay, Standing
      <4>3. Chain(q \o r, b, StatusOf[UserState'[s]])
        BY <3>1, <4>2, ChainConcat
      <4>4. StatusOf[UserState'[s]] \in Statuses
        <5>1. s \in Conns
          BY <2>2, <1>1 DEF Conns
        <5> HIDE DEF s
        <5> QED BY <5>1 DEF ServerTypes, StatusOf, Statuses
      <4> QED BY <3>1, <4>2, <4>3, <4>4 DEF OnTheWay, Standing
    <3> QED BY <2>1, <3>2, <3>3 DEF Held
  <2>3. CASE ~(sock[c].state = "up" /\ Open(c))
    <3>1. down'[c] = down[c] /\ ~(sock'[c].state = "up" /\ Open(c)')
      BY <2>3, <1>2
    <3>2. StillOpen(c)'
      BY <3>1 DEF StillOpen
    <3>3. OnTheWay(c) => OnTheWay(c)'
      BY <3>1 DEF OnTheWay
    <3> QED BY <2>1, <3>2, <3>3 DEF IInv, Held, Followable
  <2> QED BY <2>2, <2>3
<1> QED BY <1>3, <1>4
LEMMA HandlesPacket ==
  ASSUME IInv, NEW s \in Slots, HandlePacket(s)
  PROVE  IInv'
<1> DEFINE request == Head(link[s].up)
<1>1. /\ link[s].up # << >> /\ request # Close /\ HandleRequest(s, request)
      /\ link' = [link EXCEPT ![s].up = Tail(@)]
      /\ Deliver /\ UNCHANGED <<form, sock, reader, sender, recvQ, sendQ, closing>> /\ closing = {}
  BY DEF HandlePacket
<1>2. link[s].up \in Seq(Requests \cup {Close}) /\ s \in Conns
  BY DEF IInv, LinkTypes, Conns
<1>3. request \in Requests
  BY <1>1, <1>2, HeadTailProperties
<1>4. Serves(s)
  <2>1. ServerInv
    BY DEF IInv
  <2> HIDE DEF request
  <2>2. CASE request.kind = "login"
    <3>1. Server!ProcessPacketLogin(s, request.arg)
      BY <1>1, <2>2 DEF HandleRequest
    <3>2. request.arg \in AllIDs
      BY <1>3, <2>2 DEF Requests, AllIDs
    <3> QED BY <2>1, <3>1, <3>2, <1>2, Logins
  <2>3. CASE request.kind = "enter"
    <3>1. Server!ProcessPacketRoomEnter(s, request.arg)
      BY <1>1, <2>3 DEF HandleRequest
    <3> QED BY <2>1, <3>1, <1>2, EntersRoom
  <2>4. CASE request.kind = "new"
    <3>1. Server!ProcessPacketRoomNew(s)
      BY <1>1, <2>4 DEF HandleRequest
    <3> QED BY <2>1, <3>1, <1>2, MakesRoom
  <2>5. CASE request.kind = "leave"
    <3>1. Server!ProcessPacketRoomLeave(s)
      BY <1>1, <2>5 DEF HandleRequest
    <3> QED BY <2>1, <3>1, <1>2, LeavesRoom
  <2>6. CASE request.kind = "chat"
    <3>1. Server!ProcessPacketRoomChat(s)
      BY <1>1, <2>6 DEF HandleRequest
    <3> QED BY <2>1, <3>1, <1>2, Chats
  <2> QED BY <1>3, <2>2, <2>3, <2>4, <2>5, <2>6 DEF Requests
<1>5. ServerInv' /\ \A t \in Slots : Told(t, StatusOf[UserState[t]], StatusOf[UserState'[t]])
  BY <1>4 DEF Serves, Conns
<1>6. LinkTypes' /\ \A t \in Slots : /\ link'[t].owner = link[t].owner /\ link'[t].n = link[t].n
                                     /\ link'[t].state = link[t].state
                                     /\ (t # s => link'[t] = link[t])
  <2>1. Tail(link[s].up) \in Seq(Requests \cup {Close})
    BY <1>1, <1>2, HeadTailProperties
  <2> QED BY <1>1, <2>1 DEF IInv, LinkTypes
<1>7. \A c \in Clients : Open(c)' => Open(c)
  BY <1>1 DEF Open, Holds, IInv, LinkTypes
<1>8. ClientTypes' /\ \A c \in Clients : Held(c)'
  BY <1>1, <1>5, <1>7, Delivered DEF ServerInv
<1>9. Linked'
  <2>1. \A t \in Slots \ {s} : UserState'[t] = UserState[t]
    BY <1>4 DEF Serves, Conns
  <2>2. link[s].state # "free"
    BY <1>1 DEF IInv, Linked
  <2>3. \A t \in Slots \ {s} : Standing(t)' = Standing(t)
    BY <1>1, <2>1 DEF Standing
  <2> QED BY <1>1, <1>6, <2>2, <2>3 DEF IInv, Linked
<1>10. RequestTypes' /\ Alone'
  BY <1>1 DEF IInv, RequestTypes, Alone
<1> QED BY <1>5, <1>6, <1>8, <1>9, <1>10 DEF IInv
LEMMA HandlesElsewhere ==
  ASSUME IInv, NEW s \in Elsewhere, HandleElsewhere(s)
  PROVE  IInv'
<1>1. /\ Deliver /\ closing = {}
      /\ UNCHANGED <<form, sock, reader, sender, recvQ, sendQ, link, closing>>
  BY DEF HandleElsewhere
<1>2. s \in Conns /\ s \notin Slots /\ ServerInv
  BY SystemAssumption DEF Conns, IInv
<1>3. /\ ServerInv' /\ \A t \in Slots : UserState'[t] = UserState[t]
      /\ \A t \in Slots : Told(t, StatusOf[UserState[t]], StatusOf[UserState'[t]])
  <2>1. CASE Serves(s)
    BY <2>1, <1>2 DEF Serves, Conns
  <2>2. CASE Server!DisconnectConnection(s)
    <3>1. ServerInv' /\ out' = {} /\ \A t \in Slots : UserState'[t] = UserState[t]
      BY <2>2, <1>2, Leaves DEF Conns
    <3> QED BY <3>1 DEF Told
  <2>3. CASE \E id \in IDs : Server!ProcessPacketLogin(s, id)
    BY <2>1, <2>3, <1>2, Logins DEF AllIDs
  <2>4. CASE \E r \in RoomNumbersTyped : Server!ProcessPacketRoomEnter(s, r)
    BY <2>1, <2>4, <1>2, EntersRoom
  <2>5. CASE Server!ConnectConnection(s)
    BY <2>1, <2>5, <1>2, Connects
  <2>6. CASE Server!ProcessPacketRoomNew(s)
    BY <2>1, <2>6, <1>2, MakesRoom
  <2>7. CASE Server!ProcessPacketRoomLeave(s)
    BY <2>1, <2>7, <1>2, LeavesRoom
  <2>8. CASE Server!ProcessPacketRoomChat(s)
    BY <2>1, <2>8, <1>2, Chats
  <2> QED BY <2>2, <2>3, <2>4, <2>5, <2>6, <2>7, <2>8 DEF HandleElsewhere
<1>4. \A c \in Clients : Open(c)' => Open(c)
  BY <1>1 DEF Open, Holds
<1>5. ClientTypes' /\ \A c \in Clients : Held(c)'
  BY <1>1, <1>3, <1>4, Delivered DEF ServerInv
<1>6. LinkTypes' /\ RequestTypes' /\ Alone'
  BY <1>1 DEF IInv, LinkTypes, RequestTypes, Alone
<1>7. Linked'
  <2>1. \A t \in Slots : Standing(t)' = Standing(t)
    BY <1>1, <1>3 DEF Standing
  <2> QED BY <1>1, <2>1 DEF IInv, Linked
<1> QED BY <1>3, <1>5, <1>6, <1>7 DEF IInv

LEMMA HandlesConnection ==
  ASSUME IInv, NEW s \in Slots, HandleConnection(s)
  PROVE  IInv'
<1>1. /\ link[s].state # "free" /\ Server!ConnectConnection(s) /\ closing = {}
      /\ UNCHANGED <<form, sock, old, reader, sender, recvQ, sendQ, down, link, closing>>
  BY DEF HandleConnection, clientVars
<1>2. Serves(s) /\ out' = {}
  BY <1>1, Connects DEF IInv, Conns, Server!ConnectConnection
<1>3. \A t \in Slots : Standing(t)' = Standing(t)
  <2>1. ASSUME NEW t \in Slots PROVE StatusOf[UserState'[t]] = StatusOf[UserState[t]]
    <3>1. Told(t, StatusOf[UserState[t]], StatusOf[UserState'[t]])
      BY <1>2 DEF Serves, Conns
    <3>2. {p \in out' : p.to = t} = {}
      BY <1>2
    <3> QED BY <3>1, <3>2, Zenon DEF Told
  <2> QED BY <1>1, <2>1 DEF Standing
<1>4. ASSUME NEW c \in Clients PROVE Held(c)'
  <2>1. /\ Open(c)' = Open(c)
        /\ (sock[c].state = "up" => sock[c].slot \in Slots)
    BY <1>1 DEF Open, Holds, IInv, ClientTypes, SockTypes
  <2>2. OnTheWay(c) => OnTheWay(c)'
    BY <1>1, <1>3, <2>1 DEF OnTheWay
  <2> QED BY <1>1, <2>1, <2>2 DEF IInv, Held, StillOpen, Notices, Shown, Behind, Followable
<1>5. Linked' /\ Alone'
  BY <1>1, <1>3 DEF IInv, Linked, Alone
<1>6. ClientTypes' /\ RequestTypes' /\ LinkTypes'
  BY <1>1 DEF IInv, ClientTypes, FormTypes, OldTypes, SockTypes, RequestTypes, LinkTypes
<1> QED BY <1>2, <1>4, <1>5, <1>6 DEF IInv, Serves

\* The slot accepts again; who was its user is to be forgotten.
LEMMA Resets ==
  ASSUME IInv, NEW s \in Slots, Reset(s)
  PROVE  IInv'
<1>1. /\ closing = {} /\ closing' = {s} /\ link' = [link EXCEPT ![s] = FreeSlot]
      /\ UNCHANGED <<form, sock, old, reader, sender, recvQ, sendQ, down, tables>>
  BY DEF Reset
<1>2. LinkTypes' /\ link'[s] = FreeSlot /\ \A t \in Slots \ {s} : link'[t] = link[t]
  <2>1. FreeSlot \in [up: Seq(Requests \cup {Close}), owner: Clients \cup {Nobody}, n: Nat,
                      state: LinkStates]
    BY DEF FreeSlot, LinkStates
  <2> QED BY <1>1, <2>1 DEF IInv, LinkTypes
<1>3. Standing(s)' = "NONE" /\ \A t \in Slots \ {s} : Standing(t)' = Standing(t)
  BY <1>1 DEF Standing, tables
<1>4. ASSUME NEW c \in Clients PROVE Held(c)'
  <2>1. sock[c].state = "up" /\ Open(c)' =>
          Open(c) /\ Standing(sock[c].slot)' = Standing(sock[c].slot)
    <3>1. sock[c].state = "up" => sock[c].slot \in Slots
      BY DEF IInv, ClientTypes, SockTypes
    <3>2. sock[c].slot = s => ~Open(c)'
      BY <1>1, <1>2 DEF Open, Holds, FreeSlot
    <3> QED BY <1>1, <1>2, <1>3, <3>1, <3>2 DEF Open, Holds
  <2>2. OnTheWay(c) => OnTheWay(c)'
    BY <1>1, <2>1 DEF OnTheWay
  <2> QED BY <1>1, <2>1, <2>2 DEF IInv, Held, StillOpen, Notices, Shown, Behind, Followable
<1>5. Linked' /\ Alone'
  BY <1>1, <1>2, <1>3 DEF IInv, Linked, Alone, FreeSlot
<1>6. ClientTypes' /\ RequestTypes' /\ ServerInv'
  BY <1>1 DEF IInv, ClientTypes, FormTypes, OldTypes, SockTypes, RequestTypes, ServerInv,
              ServerTypes, Server!RoomsAgree, Server!UsersAgree, tables
<1> QED BY <1>2, <1>4, <1>5, <1>6 DEF IInv

\* Forgetting him changes nothing for who has the slot by then.
LEMMA HandlesClose ==
  ASSUME IInv, NEW s \in Slots, HandleClose(s)
  PROVE  IInv'
<1>1. /\ s \in closing /\ closing' = {} /\ Server!DisconnectConnection(s)
      /\ UNCHANGED <<form, sock, old, reader, sender, recvQ, sendQ, down, link>>
  BY DEF HandleClose, clientVars
<1>2. ServerInv' /\ UserState'[s] = "NONE" /\ \A t \in Slots \ {s} : UserState'[t] = UserState[t]
  BY <1>1, Leaves DEF IInv, Conns
<1>3. \A t \in Slots : Standing(t)' = Standing(t)
  <2>1. Standing(s)' = "NONE" /\ Standing(s) = "NONE"
    BY <1>1, <1>2 DEF Standing, StatusOf
  <2>2. \A t \in Slots \ {s} : t \notin closing
    BY <1>1 DEF IInv, Alone
  <2> QED BY <1>1, <1>2, <2>1, <2>2 DEF Standing
<1>4. ASSUME NEW c \in Clients PROVE Held(c)'
  <2>1. /\ Open(c)' = Open(c)
        /\ (sock[c].state = "up" => sock[c].slot \in Slots)
    BY <1>1 DEF Open, Holds, IInv, ClientTypes, SockTypes
  <2>2. OnTheWay(c) => OnTheWay(c)'
    BY <1>1, <1>3, <2>1 DEF OnTheWay
  <2> QED BY <1>1, <2>1, <2>2 DEF IInv, Held, StillOpen, Notices, Shown, Behind, Followable
<1>5. Linked' /\ Alone'
  BY <1>1, <1>3 DEF IInv, Linked, Alone
<1>6. ClientTypes' /\ RequestTypes' /\ LinkTypes'
  BY <1>1 DEF IInv, ClientTypes, FormTypes, OldTypes, SockTypes, RequestTypes, LinkTypes
<1> QED BY <1>2, <1>4, <1>5, <1>6 DEF IInv

LEMMA CutType ==
  ASSUME NEW q \in Seq(Requests \cup {Close}), NEW rest \in Cut(q)
  PROVE  rest \in Seq(Requests \cup {Close})
<1>1. PICK k \in 0..Len(q) : rest = SubSeq(q, 1, k) \o <<Close>>
  BY DEF Cut
<1>2. SubSeq(q, 1, k) \in Seq(Requests \cup {Close})
  <2>1. k \in Int /\ \A i \in 1..k : q[i] \in Requests \cup {Close}
    BY ElementOfSeq
  <2> QED BY <2>1, SubSeqProperties
<1>3. <<Close>> \in Seq(Requests \cup {Close})
  OBVIOUS
<1> QED BY <1>1, <1>2, <1>3, ConcatProperties

LEMMA EndsStep ==
  ASSUME NEW p \in Ends \cup {Disconnectd}, NEW a
  PROVE  Step(p, a, a)
BY DEF Step, StatusAfter, Ends, Fin, Rst, Disconnectd

LEMMA Closes ==
  ASSUME IInv, NEW s \in Slots, ServerCloses(s)
  PROVE  IInv'
<1> DEFINE c == link[s].owner
<1>1. PICK rest \in Cut(link[s].up) :
        link' = [link EXCEPT ![s] = [@ EXCEPT !.up = rest, !.state = "closed"]]
  BY DEF ServerCloses
<1>2. IF link[s].n = sock[c].n
      THEN \E stream \in Ended(down[c]) : down' = [down EXCEPT ![c] = stream]
      ELSE down' = down
  BY DEF ServerCloses
<1>3. IF link[s].n = old[c].n
      THEN \E stream \in Ended(old[c].down) : old' = [old EXCEPT ![c].down = stream]
      ELSE old' = old
  BY DEF ServerCloses
<1>4. /\ UNCHANGED <<form, sock, reader, sender, recvQ, sendQ, tables, closing>>
      /\ link[s].state = "accepted"
  BY DEF ServerCloses
<1>5. c \in Clients /\ (link[s].n = sock[c].n => sock[c].state = "up" /\ sock[c].slot = s)
  BY <1>4 DEF IInv, Linked
<1> HIDE DEF c
<1>6. LinkTypes' /\ link'[s].state = "closed" /\ \A t \in Slots \ {s} : link'[t] = link[t]
  <2>1. link[s].up \in Seq(Requests \cup {Close})
    BY DEF IInv, LinkTypes
  <2>2. rest \in Seq(Requests \cup {Close})
    BY <1>1, <2>1, CutType
  <2> QED BY <1>1, <2>2 DEF IInv, LinkTypes, LinkStates
<1>7. ASSUME NEW q \in Seq(OfServer \cup Ends), NEW stream \in Ended(q)
      PROVE  stream \in Seq(OfServer \cup Ends)
  <2>1. <<Fin>> \in Seq(OfServer \cup Ends) /\ <<Rst>> \in Seq(OfServer \cup Ends)
    BY DEF Ends
  <2>2. q \o <<Fin>> \in Seq(OfServer \cup Ends)
    BY <2>1, ConcatProperties
  <2> QED BY <2>1, <2>2 DEF Ended
<1>8. /\ down' \in [Clients -> Seq(OfServer \cup Ends)]
      /\ \A d \in Clients : \/ down'[d] = down[d]
                            \/ d = c /\ link[s].n = sock[c].n /\ down'[d] \in Ended(down[d])
  <2>1. down \in [Clients -> Seq(OfServer \cup Ends)]
    BY DEF IInv, ClientTypes
  <2>2. CASE link[s].n = sock[c].n
    <3>1. PICK stream \in Ended(down[c]) : down' = [down EXCEPT ![c] = stream]
      BY <1>2, <2>2
    <3>2. stream \in Seq(OfServer \cup Ends)
      BY <1>5, <1>7, <2>1
    <3> QED BY <1>5, <2>1, <2>2, <3>1, <3>2
  <2>3. CASE link[s].n # sock[c].n
    BY <1>2, <2>1, <2>3
  <2> QED BY <2>2, <2>3
<1>9. OldTypes' /\ \A d \in Clients : old'[d].n = old[d].n /\ old'[d].slot = old[d].slot
  <2> DEFINE O == [n: Nat, slot: Slots \cup {ASlot}, down: Seq(OfServer \cup Ends)]
  <2>1. old \in [Clients -> O]
    BY DEF IInv, ClientTypes, OldTypes
  <2>2. CASE link[s].n = old[c].n
    <3>1. PICK stream \in Ended(old[c].down) : old' = [old EXCEPT ![c].down = stream]
      BY <1>3, <2>2
    <3>2. stream \in Seq(OfServer \cup Ends)
      BY <1>5, <1>7, <2>1
    <3> QED BY <1>5, <2>1, <3>1, <3>2 DEF OldTypes
  <2>3. CASE link[s].n # old[c].n
    BY <1>3, <2>1, <2>3 DEF OldTypes
  <2> QED BY <2>2, <2>3
<1>10. ClientTypes' /\ RequestTypes' /\ ServerInv'
  <2>1. ClientTypes' /\ RequestTypes'
    BY <1>4, <1>8, <1>9 DEF IInv, ClientTypes, FormTypes, SockTypes, RequestTypes
  <2>2. ServerInv'
    BY <1>4 DEF IInv, ServerInv, ServerTypes, Server!RoomsAgree, Server!UsersAgree, tables
  <2> QED BY <2>1, <2>2
<1>11. ASSUME NEW d \in Clients PROVE Held(d)'
  <2>1. /\ sock[d].state = "up" /\ Open(d)' => Open(d) /\ sock[d].slot # s
        /\ d = c /\ link[s].n = sock[c].n => ~(sock[d].state = "up" /\ Open(d)')
    <3>1. sock[d].state = "up" => sock[d].slot \in Slots
      BY DEF IInv, ClientTypes, SockTypes
    <3>2. sock[d].slot = s => ~Open(d)'
      BY <1>4, <1>6 DEF Open, Holds
    <3> QED BY <1>4, <1>5, <1>6, <3>1, <3>2 DEF Open, Holds
  <2>2. Notices(d)' /\ Shown(d)' /\ Behind(d)'
    BY <1>4, <1>9 DEF IInv, Held, Notices, Shown, Behind
  <2>3. StillOpen(d)'
    BY <1>4, <1>8, <2>1 DEF IInv, Held, StillOpen
  <2>4. ASSUME OnTheWay(d) PROVE OnTheWay(d)'
    <3>1. PICK a, b, e \in Statuses :
            /\ ChainOf(sock[d].n, recvQ[d], form[d].status, a)
            /\ IF reader[d].n = sock[d].n THEN Chain(reader[d].got, a, b) ELSE a = b
            /\ Chain(down[d], b, e)
            /\ sock[d].state = "up" /\ Open(d) => e = Standing(sock[d].slot)
      BY <2>4 DEF OnTheWay
    <3>2. Standing(sock[d].slot)' = Standing(sock[d].slot)
      BY <1>4 DEF Standing, tables
    <3>3. CASE down'[d] = down[d]
      BY <1>4, <2>1, <3>1, <3>2, <3>3 DEF OnTheWay
    <3>4. CASE down'[d] # down[d]
      <4>1. d = c /\ link[s].n = sock[c].n /\ down'[d] \in Ended(down[d])
        BY <1>8, <3>4
      <4>2. Chain(<<Fin>>, e, e) /\ Chain(<<Rst>>, b, b)
        BY EndsStep, ChainOne DEF Ends
      <4>3. Chain(down'[d], b, e) \/ Chain(down'[d], b, b)
        <5>1. <<Fin>> \in Seq(OfServer \cup Ends) /\ down[d] \in Seq(OfServer \cup Ends)
          BY DEF IInv, ClientTypes, Ends
        <5>2. Chain(down[d] \o <<Fin>>, b, e)
          BY <3>1, <4>2, <5>1, ChainConcat
        <5> QED BY <4>1, <4>2, <5>2 DEF Ended
      <4> QED BY <1>4, <2>1, <3>1, <4>1, <4>3 DEF OnTheWay
    <3> QED BY <3>3, <3>4
  <2> QED BY <1>4, <2>2, <2>3, <2>4 DEF IInv, Held, Followable
<1>12. Linked' /\ Alone'
  <2>1. \A t \in Slots : Standing(t)' = Standing(t)
    BY <1>4 DEF Standing, tables
  <2> QED BY <1>4, <1>6, <2>1 DEF IInv, Linked, Alone
<1> QED BY <1>6, <1>10, <1>11, <1>12 DEF IInv
----------------------------------------------------------------------------
(* The steps of the clients.                                               *)

\* A step of another client leaves a client as it is, but for what it takes the
\* link to be: nothing opens a connection for it.
LEMMA Apart ==
  ASSUME NEW d \in Clients, Held(d),
         form'[d] = form[d], sock'[d] = sock[d], old'[d] = old[d], reader'[d] = reader[d],
         recvQ'[d] = recvQ[d], down'[d] = down[d], UNCHANGED <<UserState, closing>>,
         Open(d)' => Open(d)
  PROVE  Held(d)'
<1>1. OnTheWay(d) => OnTheWay(d)'
  BY DEF OnTheWay, Standing
<1> QED BY <1>1 DEF Held, StillOpen, Notices, Shown, Behind, Followable

LEMMA TablesKept ==
  ASSUME ServerInv, NoHandler
  PROVE  ServerInv' /\ UserState' = UserState /\ closing' = closing
BY DEF NoHandler, tables, ServerInv, ServerTypes, Server!RoomsAgree, Server!UsersAgree

\* What is typed stays so where it does not change.
LEMMA LinksKept ==
  ASSUME IInv, UNCHANGED <<sock, link, UserState, closing>>
  PROVE  LinkTypes' /\ Linked' /\ Alone' /\ DOMAIN sock' = Clients /\ \A d \in Clients : SockTypes(d)'
<1>1. LinkTypes' /\ Linked' /\ Alone'
  BY DEF IInv, LinkTypes, Linked, Standing, Alone
<1>2. DOMAIN sock = Clients /\ \A d \in Clients : SockTypes(d)
  BY DEF IInv, ClientTypes
<1>3. DOMAIN sock' = Clients /\ \A d \in Clients : SockTypes(d)'
  BY <1>2 DEF SockTypes
<1> QED BY <1>1, <1>3

\* The steps that leave socket, receiver and form, but for its counters, alone.
LEMMA Sends ==
  ASSUME NEW c \in Clients, IInv, NoHandler,
         SenderLoop(c) \/ Dequeue(c) \/ Post(c)
  PROVE  IInv'
<1>1. UNCHANGED <<sock, old, reader, recvQ, down, link>>
  BY DEF SenderLoop, Dequeue, Post
<1>2. /\ FormTypes'
      /\ \A d \in Clients : /\ form'[d].pc = form[d].pc /\ form'[d].status = form[d].status
                            /\ form'[d].mixed = form[d].mixed /\ form'[d].connect = form[d].connect
                            /\ form'[d].late = form[d].late
  <2>1. CASE form' = form
    BY <2>1 DEF IInv, ClientTypes, FormTypes
  <2>2. CASE form' = [form EXCEPT ![c].posts = @ + 1]
    <3>1. FormTypes
      BY DEF IInv, ClientTypes
    <3>2. form[c].posts + 1 \in Nat
      BY <3>1 DEF FormTypes
    <3>3. FormTypes'
      BY <2>2, <3>1, <3>2 DEF FormTypes
    <3>4. \A d \in Clients : /\ form'[d].pc = form[d].pc /\ form'[d].status = form[d].status
                             /\ form'[d].mixed = form[d].mixed /\ form'[d].connect = form[d].connect
                             /\ form'[d].late = form[d].late
      BY <2>2, <3>1 DEF FormTypes
    <3> QED BY <3>3, <3>4
  <2> QED BY <2>1, <2>2 DEF SenderLoop, Dequeue, Post
<1>3. RequestTypes'
  <2>1. CASE SenderLoop(c)
    <3>1. RequestTypes /\ UNCHANGED sendQ
      BY <2>1 DEF IInv, SenderLoop
    <3>2. PICK pc \in {"ended", "take"} : sender' = [sender EXCEPT ![c].pc = pc]
      BY <2>1 DEF SenderLoop
    <3> QED BY <3>1, <3>2 DEF RequestTypes, SenderPCs
  <2>2. CASE Dequeue(c)
    <3>1. /\ First(sendQ[c]) \in Requests \cup {NoPacket}
          /\ (sendQ[c].items # << >> => Tail(sendQ[c].items) \in Seq(Requests))
      BY HeadTailProperties DEF IInv, RequestTypes, First
    <3>2. sender' \in [Clients -> [pc: SenderPCs, packet: Requests \cup {NoPacket}]]
      BY <2>2, <3>1 DEF IInv, RequestTypes, Dequeue, SenderPCs
    <3> DEFINE q == sendQ[c]
    <3>3. q \in [items: Seq(Requests), count: Int, past: Int]
      BY DEF IInv, RequestTypes
    <3>4. sendQ' = [sendQ EXCEPT ![c] = Taken(q)]
      BY <2>2 DEF Dequeue
    <3>5. Taken(q) \in [items: Seq(Requests), count: Int, past: Int]
      <4>1. q.past + 1 \in Int /\ q.count - 1 \in Int /\ q.items \in Seq(Requests)
        BY <3>3
      <4> QED BY <3>1, <3>3, <4>1 DEF Taken
    <3>6. sendQ' \in [Clients -> [items: Seq(Requests), count: Int, past: Int]]
      BY <3>4, <3>5 DEF IInv, RequestTypes
    <3> QED BY <3>2, <3>6 DEF RequestTypes
  <2>3. CASE Post(c)
    <3> DEFINE q == sendQ[c]
    <3>1. PICK request \in Requests, lost \in {-1, 0, 1} :
            sendQ' = [sendQ EXCEPT ![c] = Put(q, request, lost)]
      BY <2>3 DEF Post
    <3>2. q \in [items: Seq(Requests), count: Int, past: Int]
      BY DEF IInv, RequestTypes
    <3>3. Append(q.items, request) \in Seq(Requests)
      BY <3>2, AppendProperties
    <3>4. Put(q, request, lost) \in [items: Seq(Requests), count: Int, past: Int]
      <4>1. q.past - 1 \in Int /\ q.count + 1 + lost \in Int /\ q.items \in Seq(Requests)
        BY <3>2
      <4> QED BY <3>2, <3>3, <4>1 DEF Put
    <3>5. sender' = sender
      BY <2>3 DEF Post
    <3> QED BY <3>1, <3>4, <3>5 DEF IInv, RequestTypes
  <2> QED BY <2>1, <2>2, <2>3
<1>4. ASSUME NEW d \in Clients PROVE Held(d)'
  <2>1. Open(d)' = Open(d) /\ UserState' = UserState /\ closing' = closing
    BY <1>1, TablesKept DEF Open, Holds, IInv
  <2>2. OnTheWay(d) => OnTheWay(d)'
    BY <1>1, <1>2, <2>1 DEF OnTheWay, Standing
  <2> QED BY <1>1, <1>2, <2>1, <2>2 DEF IInv, Held, StillOpen, Notices, Shown, Behind, Followable
<1>5. LinkTypes' /\ Linked' /\ Alone' /\ DOMAIN sock' = Clients /\ \A d \in Clients : SockTypes(d)'
  BY <1>1, TablesKept, LinksKept DEF IInv
<1>6. ClientTypes'
  BY <1>1, <1>2, <1>5 DEF IInv, ClientTypes, OldTypes
<1> QED BY <1>3, <1>4, <1>5, <1>6, TablesKept DEF IInv

LEMMA FormMoves ==
  ASSUME IInv, NEW c \in Clients, NEW pc \in FormPCs, form' = [form EXCEPT ![c].pc = pc]
  PROVE  /\ FormTypes' /\ form'[c].pc = pc /\ form'[c].status = form[c].status
         /\ form'[c].connect = form[c].connect /\ form'[c].mixed = form[c].mixed
         /\ form'[c].late = form[c].late /\ \A d \in Clients \ {c} : form'[d] = form[d]
<1>1. FormTypes
  BY DEF IInv, ClientTypes
<1>2. FormTypes' /\ \A d \in Clients \ {c} : form'[d] = form[d]
  BY <1>1 DEF FormTypes
<1>3. /\ form'[c].pc = pc /\ form'[c].status = form[c].status
      /\ form'[c].connect = form[c].connect /\ form'[c].mixed = form[c].mixed
      /\ form'[c].late = form[c].late
  BY <1>1 DEF FormTypes
<1> QED BY <1>2, <1>3

LEMMA Joins ==
  ASSUME NEW c \in Clients, IInv, NoHandler, Join(c)
  PROVE  IInv'
<1>1. /\ form' = [form EXCEPT ![c].pc = "gone"] /\ form[c].pc = "join"
      /\ UNCHANGED <<sock, old, reader, sender, recvQ, sendQ, down, link>>
  BY DEF Join, FormAt
<1>2. FormTypes' /\ \A d \in Clients \ {c} : form'[d] = form[d]
  BY <1>1, FormMoves DEF FormPCs
<1>3. /\ form'[c].pc = "gone" /\ form'[c].status = form[c].status
      /\ form'[c].connect = form[c].connect /\ form'[c].mixed = form[c].mixed
      /\ form'[c].late = form[c].late
  BY <1>1, FormMoves DEF FormPCs
<1>4. \A d \in Clients : Open(d)' = Open(d)
  BY <1>1 DEF Open, Holds
<1>5. Held(c)'
  <2>1. sock[c].state # "up"
    BY <1>1 DEF IInv, Held, Shown
  <2>2. OnTheWay(c) => OnTheWay(c)'
    BY <1>1, <1>3, <2>1 DEF OnTheWay
  <2> QED BY <1>1, <1>3, <1>4, <2>1, <2>2 DEF IInv, Held, StillOpen, Notices, Shown, Behind, Followable
<1>6. \A d \in Clients \ {c} : Held(d)'
  BY <1>1, <1>2, <1>4, Apart, TablesKept DEF IInv
<1>7. ClientTypes' /\ RequestTypes' /\ LinkTypes' /\ Linked' /\ Alone'
  BY <1>1, <1>2, TablesKept, LinksKept DEF IInv, ClientTypes, OldTypes, RequestTypes
<1> QED BY <1>5, <1>6, <1>7, TablesKept DEF IInv
\* The client's end of a connection is closed: the link is no more accepted.
LEMMA Leaving ==
  ASSUME IInv, NEW s \in Slots, Leave(s), UNCHANGED <<UserState, closing>>
  PROVE  /\ LinkTypes' /\ link'[s].state = "left" /\ link'[s].owner = link[s].owner
         /\ link'[s].n = link[s].n /\ \A t : t # s => link'[t] = link[t]
         /\ \A t \in Slots : Standing(t)' = Standing(t)
<1>1. PICK rest \in Cut(link[s].up) :
        link' = [link EXCEPT ![s] = [@ EXCEPT !.up = rest, !.state = "left"]]
  BY DEF Leave
<1>2. link[s].up \in Seq(Requests \cup {Close})
  BY DEF IInv, LinkTypes
<1>3. rest \in Seq(Requests \cup {Close})
  BY <1>1, <1>2, CutType
<1>4. /\ LinkTypes' /\ link'[s].state = "left" /\ link'[s].owner = link[s].owner
      /\ link'[s].n = link[s].n
  BY <1>1, <1>3 DEF IInv, LinkTypes, LinkStates
<1>5. ASSUME NEW t, t # s PROVE link'[t] = link[t]
  BY <1>1, <1>5 DEF IInv, LinkTypes
<1>6. \A t \in Slots : Standing(t)' = Standing(t)
  BY DEF Standing
<1> QED BY <1>4, <1>5, <1>6

\* The end of the newest connection by its client: the stream to it is cut.
LEMMA Hangs ==
  ASSUME NEW c \in Clients, IInv, HangUp(c), sock' = [sock EXCEPT ![c].state = "closed"],
         UNCHANGED <<UserState, closing>>
  PROVE  /\ DOMAIN sock' = Clients /\ \A d \in Clients : SockTypes(d)'
         /\ sock'[c].state = "closed" /\ sock'[c].n = sock[c].n
         /\ down' \in [Clients -> Seq(OfServer \cup Ends)] /\ down'[c] = << >>
         /\ LinkTypes' /\ Linked' /\ Alone'
         /\ \A d \in Clients \ {c} :
              sock'[d] = sock[d] /\ down'[d] = down[d] /\ (Open(d)' => Open(d))
<1> DEFINE s == sock[c].slot
<1>1. /\ DOMAIN sock' = Clients /\ \A d \in Clients : SockTypes(d)'
      /\ sock'[c].state = "closed" /\ sock'[c].n = sock[c].n
      /\ \A d \in Clients \ {c} : sock'[d] = sock[d]
  BY DEF IInv, ClientTypes, SockTypes, SockStates
<1>2. /\ down' \in [Clients -> Seq(OfServer \cup Ends)] /\ down'[c] = << >>
      /\ \A d \in Clients \ {c} : down'[d] = down[d]
  <2>1. down' = [down EXCEPT ![c] = << >>] /\ << >> \in Seq(OfServer \cup Ends)
    BY Zenon, EmptySeq DEF HangUp
  <2> QED BY <2>1 DEF IInv, ClientTypes
<1>3. CASE sock[c].state = "up" /\ Open(c)
  <2>1. s \in Slots /\ Leave(s)
    BY <1>3 DEF HangUp, IInv, ClientTypes, SockTypes
  <2>2. /\ LinkTypes' /\ link'[s].state = "left" /\ link'[s].owner = link[s].owner
        /\ link'[s].n = link[s].n /\ \A t : t # s => link'[t] = link[t]
        /\ \A t \in Slots : Standing(t)' = Standing(t)
    BY <2>1, Leaving
  <2> HIDE DEF s
  <2>3. \A d \in Clients \ {c} : Open(d)' => Open(d)
    BY <1>1, <2>2 DEF Open, Holds
  <2>4. Linked'
    <3>1. ASSUME NEW t \in Slots \ {s}, link[t].state = "accepted", link[t].owner = c
          PROVE  link[t].n # sock[c].n
      BY <3>1 DEF IInv, Linked, s
    <3> QED BY <1>1, <2>2, <3>1 DEF IInv, Linked
  <2> QED BY <1>1, <1>2, <2>2, <2>3, <2>4 DEF IInv, Alone
<1>4. CASE ~(sock[c].state = "up" /\ Open(c))
  <2>1. link' = link
    BY <1>4 DEF HangUp
  <2>2. \A d \in Clients \ {c} : Open(d)' => Open(d)
    BY <1>1, <2>1 DEF Open, Holds
  <2>3. ASSUME NEW t \in Slots, link[t].state = "accepted", link[t].owner = c
        PROVE  link[t].n # sock[c].n
    BY <1>4, <2>3 DEF IInv, Linked, Open, Holds
  <2>4. Linked'
    BY <1>1, <2>1, <2>3 DEF IInv, Linked, Standing
  <2>5. LinkTypes' /\ Alone'
    BY <2>1 DEF IInv, LinkTypes, Alone
  <2> QED BY <1>1, <1>2, <2>2, <2>4, <2>5
<1> QED BY <1>3, <1>4
LEMMA ClientTypesOf ==
  ASSUME ClientTypes, NEW c \in Clients
  PROVE  /\ form[c] \in [pc: FormPCs, status: Statuses, connect: BOOLEAN, running: BOOLEAN,
                         mixed: BOOLEAN, late: BOOLEAN, posts: Nat]
         /\ form[c].status \in Statuses
         /\ sock[c].n \in Nat /\ (sock[c].state = "up" => sock[c].slot \in Slots)
         /\ reader[c] \in [pc: ReaderPCs, n: Nat, got: Seq(Packets)]
         /\ reader[c].n \in Nat /\ reader[c].got \in Seq(Packets)
         /\ recvQ[c] \in Seq(Queued) /\ \A i \in 1..Len(recvQ[c]) : recvQ[c][i].n \in Nat
         /\ down[c] \in Seq(OfServer \cup Ends)
<1>1. recvQ[c] \in Seq(Queued)
  BY DEF ClientTypes
<1>2. ASSUME NEW i \in 1..Len(recvQ[c]) PROVE recvQ[c][i].n \in Nat
  <2>1. recvQ[c][i] \in Queued
    BY <1>1, ElementOfSeq
  <2> QED BY <2>1 DEF Queued
<1> QED BY <1>1, <1>2 DEF ClientTypes, FormTypes, SockTypes

\* A client whose socket is not up is followed as far as its own packets go.
LEMMA GoneHeld ==
  ASSUME NEW c \in Clients, Held(c),
         form'[c].status = form[c].status, form'[c].connect = form[c].connect,
         form'[c].mixed = form[c].mixed, form'[c].late = form[c].late,
         sock'[c].state # "up", sock'[c].n = sock[c].n,
         reader'[c] = reader[c], old'[c] = old[c],
         recvQ'[c] = recvQ[c], down'[c] = << >> \/ down'[c] = down[c]
  PROVE  Held(c)'
<1>1. ASSUME OnTheWay(c) PROVE OnTheWay(c)'
  <2>1. PICK a, b, e \in Statuses :
          /\ ChainOf(sock[c].n, recvQ[c], form[c].status, a)
          /\ IF reader[c].n = sock[c].n THEN Chain(reader[c].got, a, b) ELSE a = b
          /\ Chain(down[c], b, e)
    BY <1>1 DEF OnTheWay
  <2>2. Chain(<< >>, b, b)
    BY ChainEmpty
  <2>3. Chain(down'[c], b, e) \/ Chain(down'[c], b, b)
    BY <2>1, <2>2
  <2> QED BY <2>1, <2>3 DEF OnTheWay
<1> QED BY <1>1 DEF Held, StillOpen, Notices, Shown, Behind, Followable

LEMMA SocketClosed ==
  ASSUME NEW c \in Clients, IInv, CloseSocket(c), UNCHANGED <<UserState, closing>>
  PROVE  /\ DOMAIN sock' = Clients /\ \A d \in Clients : SockTypes(d)'
         /\ sock'[c].state # "up" /\ sock'[c].n = sock[c].n
         /\ down' \in [Clients -> Seq(OfServer \cup Ends)]
         /\ down'[c] = << >> \/ down'[c] = down[c]
         /\ LinkTypes' /\ Linked' /\ Alone'
         /\ \A d \in Clients \ {c} :
              sock'[d] = sock[d] /\ down'[d] = down[d] /\ (Open(d)' => Open(d))
<1>1. CASE IsConnected(c)
  <2>1. HangUp(c) /\ sock' = [sock EXCEPT ![c].state = "closed"]
    BY <1>1 DEF CloseSocket
  <2> QED BY <2>1, Hangs
<1>2. CASE ~IsConnected(c)
  <2>1. UNCHANGED <<down, link, sock>>
    BY <1>2 DEF CloseSocket
  <2>2. sock[c].state # "up"
    BY <1>2 DEF IsConnected
  <2>3. \A d \in Clients : Open(d)' = Open(d)
    BY <2>1 DEF Open, Holds
  <2> QED BY <2>1, <2>2, <2>3, LinksKept DEF IInv, ClientTypes
<1> QED BY <1>1, <1>2

LEMMA Departs ==
  ASSUME NEW c \in Clients, IInv, NoHandler, CloseForm(c) \/ DisconnectCloses(c)
  PROVE  IInv'
<1>1. CloseSocket(c) /\ UNCHANGED <<old, reader, sender, recvQ, sendQ>>
  BY DEF CloseForm, DisconnectCloses
<1>2. PICK pc \in {"join", "idle"}, running \in BOOLEAN :
        form' = [form EXCEPT ![c].pc = pc, ![c].running = running]
  <2>1. CASE CloseForm(c)
    BY <2>1 DEF CloseForm
  <2>2. CASE DisconnectCloses(c)
    <3>1. form' = [form EXCEPT ![c].pc = "idle"]
      BY <2>2 DEF DisconnectCloses
    <3>2. form' = [form EXCEPT ![c].pc = "idle", ![c].running = form[c].running]
      BY <3>1 DEF IInv, ClientTypes, FormTypes
    <3>3. form[c].running \in BOOLEAN
      BY DEF IInv, ClientTypes, FormTypes
    <3> QED BY <3>2, <3>3
  <2> QED BY <2>1, <2>2
<1>3. /\ FormTypes' /\ form'[c].status = form[c].status /\ form'[c].connect = form[c].connect
      /\ form'[c].mixed = form[c].mixed /\ form'[c].late = form[c].late
      /\ \A d \in Clients \ {c} : form'[d] = form[d]
  <2>1. FormTypes /\ pc \in FormPCs
    BY DEF IInv, ClientTypes, FormPCs
  <2>2. FormTypes'
    <3> DEFINE f1 == [form EXCEPT ![c].pc = pc]
               F == [pc: FormPCs, status: Statuses, connect: BOOLEAN, running: BOOLEAN,
                     mixed: BOOLEAN, late: BOOLEAN, posts: Nat]
    <3>1. f1 \in [Clients -> F]
      BY <2>1 DEF FormTypes
    <3>2. form' = [f1 EXCEPT ![c].running = running]
      BY <1>2
    <3> HIDE DEF f1
    <3>3. form' \in [Clients -> F]
      BY <3>1, <3>2
    <3> QED BY <3>3 DEF FormTypes
  <2>3. /\ form'[c].status = form[c].status /\ form'[c].connect = form[c].connect
        /\ form'[c].mixed = form[c].mixed /\ form'[c].late = form[c].late
    BY <1>2, <2>1 DEF FormTypes
  <2>4. \A d \in Clients \ {c} : form'[d] = form[d]
    BY <1>2, <2>1 DEF FormTypes
  <2> QED BY <2>2, <2>3, <2>4
<1>4. UserState' = UserState /\ ServerInv' /\ closing' = closing
  BY TablesKept DEF IInv
<1>5. Held(c)'
  BY <1>1, <1>3, <1>4, SocketClosed, GoneHeld DEF IInv
<1>6. \A d \in Clients \ {c} : Held(d)'
  BY <1>1, <1>3, <1>4, SocketClosed, Apart DEF IInv
<1>7. ClientTypes' /\ RequestTypes' /\ LinkTypes' /\ Linked' /\ Alone'
  BY <1>1, <1>3, <1>4, SocketClosed DEF IInv, ClientTypes, OldTypes, RequestTypes
<1> QED BY <1>4, <1>5, <1>6, <1>7 DEF IInv

\* An exception ends the program: its socket is closed, whatever it was doing.
LEMMA Crashes ==
  ASSUME NEW c \in Clients, IInv, NoHandler, Crash(c), UNCHANGED <<old, reader, sender, recvQ, sendQ>>
  PROVE  IInv'
<1>1. /\ form' = [form EXCEPT ![c].pc = "crashed"]
      /\ HangUp(c) /\ sock' = [sock EXCEPT ![c].state = "closed"]
  BY DEF Crash
<1>2. /\ FormTypes' /\ form'[c].status = form[c].status /\ form'[c].connect = form[c].connect
      /\ form'[c].mixed = form[c].mixed /\ form'[c].late = form[c].late
      /\ \A d \in Clients \ {c} : form'[d] = form[d]
  BY <1>1, FormMoves DEF FormPCs
<1>3. UserState' = UserState /\ ServerInv' /\ closing' = closing
  BY TablesKept DEF IInv
<1>4. /\ DOMAIN sock' = Clients /\ \A d \in Clients : SockTypes(d)'
      /\ sock'[c].state # "up" /\ sock'[c].n = sock[c].n
      /\ down' \in [Clients -> Seq(OfServer \cup Ends)] /\ down'[c] = << >>
      /\ LinkTypes' /\ Linked' /\ Alone'
      /\ \A d \in Clients \ {c} :
           sock'[d] = sock[d] /\ down'[d] = down[d] /\ (Open(d)' => Open(d))
  BY <1>1, <1>3, Hangs
<1>5. Held(c)'
  BY <1>2, <1>4, GoneHeld DEF IInv
<1>6. \A d \in Clients \ {c} : Held(d)'
  BY <1>2, <1>3, <1>4, Apart DEF IInv
<1>7. ClientTypes' /\ RequestTypes'
  BY <1>2, <1>4 DEF IInv, ClientTypes, OldTypes, RequestTypes
<1> QED BY <1>3, <1>4, <1>5, <1>6, <1>7 DEF IInv

\* SetDisconnectd, after the button or after a notice.
LEMMA Cleared ==
  ASSUME NEW c \in Clients, IInv, NoHandler, Disconnect(c) \/ TickDisconnectd(c)
  PROVE  IInv'
<1>1. PICK pc \in {"close", "idle"}, notice \in BOOLEAN :
        /\ SetDisconnectd(c, pc, notice) /\ UNCHANGED <<sock, old, reader, down, link>>
        /\ pc = "idle" => form[c].pc = "disconnectd" /\ (sock[c].state = "up" => notice)
  <2>1. CASE Disconnect(c)
    BY <2>1 DEF Disconnect
  <2>2. CASE TickDisconnectd(c)
    <3>1. PICK notice \in BOOLEAN :
            SetDisconnectd(c, "idle", notice) /\ (sock[c].state = "up" => notice)
      <4> DEFINE up == sock[c].state = "up"
      <4>1. up \in BOOLEAN /\ (up => sock[c].state = "up") /\ (sock[c].state = "up" => up)
        OBVIOUS
      <4>2. SetDisconnectd(c, "idle", up)
        BY <2>2 DEF TickDisconnectd
      <4> HIDE DEF up
      <4> QED BY <4>1, <4>2, Zenon
    <3> QED BY <2>2, <3>1 DEF TickDisconnectd, FormAt
  <2> QED BY <2>1, <2>2
<1> DEFINE late == form[c].late \/ notice
<1>2. /\ recvQ' = [recvQ EXCEPT ![c] = << >>]
      /\ form' = [form EXCEPT ![c].pc = pc, ![c].status = "NONE", ![c].connect = TRUE,
                             ![c].late = late]
  BY <1>1 DEF SetDisconnectd
<1>3. /\ FormTypes' /\ form'[c].pc = pc /\ form'[c].connect = TRUE
      /\ form'[c].mixed = form[c].mixed /\ form'[c].late = late
      /\ \A d \in Clients \ {c} : form'[d] = form[d]
  <2> DEFINE f1 == [form EXCEPT ![c].pc = pc, ![c].status = "NONE"]
             F == [pc: FormPCs, status: Statuses, connect: BOOLEAN, running: BOOLEAN,
                   mixed: BOOLEAN, late: BOOLEAN, posts: Nat]
  <2>1. form \in [Clients -> F] /\ pc \in FormPCs /\ "NONE" \in Statuses /\ late \in BOOLEAN
    BY DEF IInv, ClientTypes, FormTypes, FormPCs, Statuses
  <2>2. f1 \in [Clients -> F] /\ f1[c].pc = pc /\ f1[c].mixed = form[c].mixed
        /\ \A d \in Clients \ {c} : f1[d] = form[d]
    BY <2>1
  <2> HIDE DEF late
  <2>3. form' = [f1 EXCEPT ![c].connect = TRUE, ![c].late = late]
    BY <1>2, <2>1
  <2> HIDE DEF f1
  <2>4. FormTypes'
    <3>1. f1[c] \in F
      BY <2>2
    <3>2. [[f1[c] EXCEPT !.connect = TRUE] EXCEPT !.late = late] \in F
      <4> DEFINE g == [f1[c] EXCEPT !.connect = TRUE]
      <4>1. g \in F
        BY <3>1
      <4> HIDE DEF g
      <4>2. [g EXCEPT !.late = late] \in F
        BY <2>1, <4>1
      <4> QED BY <4>2 DEF g
    <3>3. form' = [f1 EXCEPT ![c] = [[f1[c] EXCEPT !.connect = TRUE] EXCEPT !.late = late]]
      BY <2>2, <2>3
    <3> QED BY <2>2, <3>2, <3>3 DEF FormTypes
  <2>5. /\ form'[c].pc = pc /\ form'[c].connect = TRUE /\ form'[c].mixed = form[c].mixed
        /\ form'[c].late = late
    BY <2>1, <2>2, <2>3
  <2>6. \A d \in Clients \ {c} : form'[d] = form[d]
    BY <2>2, <2>3
  <2> QED BY <2>4, <2>5, <2>6
<1>4. /\ recvQ' \in [Clients -> Seq(Queued)] /\ recvQ'[c] = << >>
      /\ \A d \in Clients \ {c} : recvQ'[d] = recvQ[d]
  <2>1. << >> \in Seq(Queued)
    BY EmptySeq
  <2> QED BY <1>2, <2>1 DEF IInv, ClientTypes
<1>5. RequestTypes'
  <2> DEFINE Q == [items: Seq(Requests), count: Int, past: Int]
             S == [pc: SenderPCs, packet: Requests \cup {NoPacket}]
  <2>1. EmptyQueue \in Q /\ [EmptyQueue EXCEPT !.count = sendQ[c].count - 1] \in Q
    <3>1. sendQ[c].count - 1 \in Int
      BY DEF IInv, RequestTypes
    <3>2. << >> \in Seq(Requests)
      BY EmptySeq
    <3>3. EmptyQueue \in Q
      BY <3>2 DEF EmptyQueue
    <3>4. [EmptyQueue EXCEPT !.count = sendQ[c].count - 1] \in Q
      BY <3>1, <3>3
    <3> QED BY <3>3, <3>4
  <2>2. [pc |-> "send", packet |-> First(sendQ[c])] \in S
    <3>1. First(sendQ[c]) \in Requests \cup {NoPacket}
      BY HeadTailProperties DEF First, IInv, RequestTypes
    <3> QED BY <3>1 DEF SenderPCs
  <2>3. PICK q \in Q : sendQ' = [sendQ EXCEPT ![c] = q]
    BY <1>1, <2>1, Zenon DEF SetDisconnectd
  <2>4. sender' = sender \/ sender' = [sender EXCEPT ![c] = [pc |-> "send", packet |-> First(sendQ[c])]]
    BY <1>1, Zenon DEF SetDisconnectd
  <2>5. sender' \in [Clients -> S]
    BY <2>2, <2>4 DEF IInv, RequestTypes
  <2>6. sendQ' \in [Clients -> Q]
    BY <2>3 DEF IInv, RequestTypes
  <2> QED BY <2>5, <2>6 DEF RequestTypes
<1>6. \A d \in Clients : Open(d)' = Open(d)
  BY <1>1 DEF Open, Holds
<1>7. Held(c)'
  <2>1. Shown(c)' /\ Behind(c)'
    BY <1>1, <1>3 DEF IInv, Held, Shown, Behind
  <2>2. StillOpen(c)'
    BY <1>1, <1>6 DEF IInv, Held, StillOpen
  <2>3. Notices(c)'
    <3>1. \A i \in 1..Len(recvQ'[c]) : FALSE
      BY <1>4
    <3> QED BY <1>1, <3>1 DEF IInv, Held, Notices
  <2> QED BY <1>3, <2>1, <2>2, <2>3 DEF Held, Followable
<1>8. UserState' = UserState /\ ServerInv' /\ closing' = closing
  BY TablesKept DEF IInv
<1>9. \A d \in Clients \ {c} : Held(d)'
  BY <1>1, <1>3, <1>4, <1>6, <1>8, Apart DEF IInv
<1>10. ClientTypes' /\ LinkTypes' /\ Linked' /\ Alone'
  BY <1>1, <1>3, <1>4, <1>8, LinksKept DEF IInv, ClientTypes, OldTypes
<1> QED BY <1>5, <1>7, <1>8, <1>9, <1>10 DEF IInv
\* What Connect leaves of the connection before: the receiver may still be in its
\* socket, and what comes of it is marked.
LEMMA Supersedes ==
  ASSUME NEW c \in Clients, IInv, Connect(c)
  PROVE  /\ OldTypes' /\ \A d \in Clients \ {c} : old'[d] = old[d]
         /\ form[c].late' = form[c].late /\ sock'[c].n = sock[c].n + 1 => Behind(c)'
         /\ reader[c].n <= sock[c].n + 1 /\ reader[c].n # sock[c].n + 1
         /\ \A i \in 1..Len(recvQ[c]) :
              recvQ[c][i].n <= sock[c].n + 1 /\ recvQ[c][i].n # sock[c].n + 1
         /\ \A s \in Slots : link[s].state = "accepted" /\ link[s].owner = c =>
              link[s].n <= sock[c].n + 1 /\ link[s].n # sock[c].n + 1
<1> DEFINE n == sock[c].n
           O == [n: Nat, slot: Slots \cup {ASlot}, down: Seq(OfServer \cup Ends)]
<1>1. /\ form[c].pc = "idle" /\ form[c].connect /\ reader' = reader
      /\ \/ /\ Receiving(c)
            /\ old' = [old EXCEPT ![c] = [n |-> n, slot |-> sock[c].slot, down |-> down[c]]]
         \/ old' = old
  BY DEF Connect, FormAt
<1>2. /\ n \in Nat /\ reader[c].n \in Nat /\ down[c] \in Seq(OfServer \cup Ends)
      /\ \A i \in 1..Len(recvQ[c]) : recvQ[c][i].n \in Nat
      /\ sock[c].state = "up" => sock[c].slot \in Slots
  BY ClientTypesOf DEF IInv
<1>3. reader[c].n <= n /\ \A i \in 1..Len(recvQ[c]) : recvQ[c][i].n <= n
  BY DEF IInv, Held, Notices
<1>4. \A s \in Slots : link[s].state = "accepted" /\ link[s].owner = c => link[s].n <= n
  BY DEF IInv, Linked
<1>5. \A s \in Slots : link[s].n \in Nat
  BY DEF IInv, LinkTypes
<1> HIDE DEF n
<1>6. \A m \in Nat : m <= n => m <= n + 1 /\ m # n + 1
  BY <1>2
<1>7. reader[c].n <= n + 1 /\ reader[c].n # n + 1
  BY <1>2, <1>3, <1>6
<1>8. \A i \in 1..Len(recvQ[c]) : recvQ[c][i].n <= n + 1 /\ recvQ[c][i].n # n + 1
  BY <1>2, <1>3, <1>6
<1>9. \A s \in Slots : link[s].state = "accepted" /\ link[s].owner = c =>
        link[s].n <= n + 1 /\ link[s].n # n + 1
  BY <1>4, <1>5, <1>6
<1>10. old \in [Clients -> O]
  BY DEF IInv, ClientTypes, OldTypes
<1>11. CASE /\ Receiving(c)
            /\ old' = [old EXCEPT ![c] = [n |-> n, slot |-> sock[c].slot, down |-> down[c]]]
  <2>1. reader[c].pc = "receive" /\ reader[c].n = n /\ sock[c].slot \in Slots /\ form[c].late
    BY <1>1, <1>2, <1>11 DEF Receiving, ReaderAt, IInv, Held, Shown, n
  <2>2. [n |-> n, slot |-> sock[c].slot, down |-> down[c]] \in O
    BY <1>2, <2>1
  <2>3. OldTypes' /\ \A d \in Clients \ {c} : old'[d] = old[d]
    BY <1>10, <1>11, <2>2 DEF OldTypes
  <2>4. old'[c].n = n /\ old'[c].slot = sock[c].slot
    BY <1>10, <1>11
  <2>5. form[c].late' = form[c].late /\ sock'[c].n = n + 1 => Behind(c)'
    BY <1>1, <1>7, <2>1, <2>4 DEF Behind
  <2> QED BY <1>7, <1>8, <1>9, <2>3, <2>5 DEF n
<1>12. CASE old' = old
  <2>1. old[c].n # 0 => old[c].n = reader[c].n
    BY DEF IInv, Held, Behind
  <2>2. form[c].late' = form[c].late /\ sock'[c].n = n + 1 => Behind(c)'
    BY <1>1, <1>7, <1>12, <2>1 DEF IInv, Held, Behind
  <2>3. OldTypes'
    BY <1>10, <1>12 DEF OldTypes
  <2> QED BY <1>7, <1>8, <1>9, <1>12, <2>2, <2>3 DEF n
<1> QED BY <1>1, <1>11, <1>12

\* A new connection: what comes of an earlier one is marked, and the form shows
\* no one logged in, as the server has it.
LEMMA ConnectsAnew ==
  ASSUME NEW c \in Clients, IInv, NoHandler, Connect(c)
  PROVE  IInv'
<1> DEFINE n == sock[c].n
<1>1. /\ form[c].pc = "idle" /\ form[c].connect
      /\ down' = [down EXCEPT ![c] = << >>]
      /\ UNCHANGED <<reader, sender, recvQ, sendQ>>
  BY DEF Connect, FormAt
<1>2. n \in Nat /\ recvQ[c] \in Seq(Queued)
  BY ClientTypesOf DEF IInv
<1>3. /\ OldTypes' /\ \A d \in Clients \ {c} : old'[d] = old[d]
      /\ form[c].late' = form[c].late /\ sock'[c].n = n + 1 => Behind(c)'
      /\ reader[c].n <= n + 1 /\ reader[c].n # n + 1
      /\ \A i \in 1..Len(recvQ[c]) : recvQ[c][i].n <= n + 1 /\ recvQ[c][i].n # n + 1
      /\ \A s \in Slots : link[s].state = "accepted" /\ link[s].owner = c =>
           link[s].n <= n + 1 /\ link[s].n # n + 1
  BY Supersedes
<1>4. /\ down' \in [Clients -> Seq(OfServer \cup Ends)] /\ down'[c] = << >>
      /\ \A d \in Clients \ {c} : down'[d] = down[d]
  <2>1. << >> \in Seq(OfServer \cup Ends)
    BY EmptySeq
  <2> QED BY <1>1, <2>1 DEF IInv, ClientTypes
<1>5. UserState' = UserState /\ ServerInv' /\ closing' = closing /\ Alone'
  BY TablesKept DEF IInv, Alone
<1>6. sock'[c].n = n + 1 => Notices(c)' /\ StillOpen(c)'
  <2>1. \A i \in 1..Len(down'[c]) : FALSE
    BY <1>4
  <2> HIDE DEF n
  <2> QED BY <1>1, <1>3, <2>1 DEF IInv, Held, Notices, StillOpen
<1>7. RequestTypes'
  BY <1>1 DEF IInv, RequestTypes
<1>8. CASE /\ sock' = [sock EXCEPT ![c].state = "none", ![c].n = @ + 1]
           /\ UNCHANGED <<form, link>>
  <2>1. /\ DOMAIN sock' = Clients /\ sock'[c].state = "none" /\ sock'[c].n = n + 1
        /\ DOMAIN sock'[c] = DOMAIN sock[c] /\ \A d \in Clients \ {c} : sock'[d] = sock[d]
    BY <1>8 DEF IInv, ClientTypes, SockTypes
  <2>2. \A d \in Clients : SockTypes(d)'
    <3>1. SockTypes(c)'
      BY <1>2, <2>1 DEF IInv, ClientTypes, SockTypes, SockStates
    <3> QED BY <2>1, <3>1 DEF IInv, ClientTypes, SockTypes
  <2>3. ClientTypes'
    BY <1>1, <1>3, <1>4, <1>8, <2>1, <2>2 DEF IInv, ClientTypes, FormTypes
  <2>4. Linked' /\ LinkTypes'
    BY <1>3, <1>5, <1>8, <2>1 DEF IInv, Linked, LinkTypes, Standing
  <2>5. ASSUME NEW d \in Clients \ {c} PROVE Held(d)'
    <3>1. Open(d)' => Open(d)
      BY <1>8, <2>1 DEF Open, Holds
    <3> QED BY <1>1, <1>3, <1>4, <1>5, <1>8, <2>1, <3>1, Apart DEF IInv
  <2>6. Held(c)'
    <3>1. Shown(c)' /\ Followable(c)'
      BY <1>1, <1>8, <2>1 DEF Shown, Followable
    <3> QED BY <1>3, <1>6, <1>8, <2>1, <3>1 DEF Held
  <2> QED BY <1>5, <1>7, <2>3, <2>4, <2>5, <2>6 DEF IInv
<1>9. ASSUME NEW s \in Slots, link[s].state = "free",
             link' = [link EXCEPT ![s] =
               [up |-> << >>, owner |-> c, n |-> n + 1, state |-> "accepted"]],
             sock' = [sock EXCEPT ![c] = [state |-> "up", slot |-> s, n |-> n + 1]],
             form' = [form EXCEPT ![c].connect = FALSE, ![c].mixed = form[c].status # "NONE"]
      PROVE  IInv'
  <2>1. /\ FormTypes' /\ form'[c].connect = FALSE /\ form'[c].mixed = (form[c].status # "NONE")
        /\ form'[c].status = form[c].status /\ form'[c].pc = form[c].pc
        /\ form'[c].late = form[c].late /\ \A d \in Clients \ {c} : form'[d] = form[d]
    <3>1. FormTypes
      BY DEF IInv, ClientTypes
    <3>2. FormTypes'
      <4> DEFINE f1 == [form EXCEPT ![c].connect = FALSE]
                 F == [pc: FormPCs, status: Statuses, connect: BOOLEAN, running: BOOLEAN,
                       mixed: BOOLEAN, late: BOOLEAN, posts: Nat]
                 mixed == form[c].status # "NONE"
      <4>1. f1 \in [Clients -> F]
        BY <3>1 DEF FormTypes
      <4>2. form' = [f1 EXCEPT ![c].mixed = mixed]
        BY <1>9
      <4> HIDE DEF f1, mixed
      <4>3. mixed \in BOOLEAN
        BY DEF mixed
      <4>4. form' \in [Clients -> F]
        BY <4>1, <4>2, <4>3
      <4> QED BY <4>4 DEF FormTypes
    <3>3. /\ form'[c].connect = FALSE /\ form'[c].mixed = (form[c].status # "NONE")
          /\ form'[c].status = form[c].status /\ form'[c].pc = form[c].pc
          /\ form'[c].late = form[c].late
      BY <1>9, <3>1 DEF FormTypes
    <3>4. \A d \in Clients \ {c} : form'[d] = form[d]
      BY <1>9, <3>1 DEF FormTypes
    <3> QED BY <3>2, <3>3, <3>4
  <2>2. /\ DOMAIN sock' = Clients /\ sock'[c] = [state |-> "up", slot |-> s, n |-> n + 1]
        /\ \A d \in Clients \ {c} : sock'[d] = sock[d]
    BY <1>9 DEF IInv, ClientTypes
  <2>3. \A d \in Clients : SockTypes(d)'
    <3>1. SockTypes(c)'
      BY <1>2, <2>2 DEF SockTypes, SockStates
    <3> QED BY <2>2, <3>1 DEF IInv, ClientTypes, SockTypes
  <2> DEFINE l == [up |-> << >>, owner |-> c, n |-> n + 1, state |-> "accepted"]
  <2>4. LinkTypes' /\ link'[s] = l /\ \A t \in Slots \ {s} : link'[t] = link[t]
    <3>1. l \in [up: Seq(Requests \cup {Close}), owner: Clients \cup {Nobody}, n: Nat,
                 state: LinkStates]
      BY <1>2, EmptySeq DEF LinkStates
    <3> QED BY <1>9, <3>1 DEF IInv, LinkTypes
  <2>5. l.owner = c /\ l.n = n + 1 /\ l.state = "accepted"
    OBVIOUS
  <2> HIDE DEF l
  <2>6. sock'[c].state = "up" /\ sock'[c].slot = s /\ sock'[c].n = n + 1
    BY <2>2
  <2> HIDE DEF n
  <2>7. n + 1 <= n + 1
    BY <1>2
  <2>8. Linked'
    <3>1. \A t \in Slots \ {s} : Standing(t)' = Standing(t)
      BY <1>5 DEF Standing
    <3> QED BY <1>3, <2>2, <2>4, <2>5, <2>6, <2>7, <3>1 DEF IInv, Linked
  <2>9. ASSUME NEW d \in Clients \ {c} PROVE Held(d)'
    <3>1. Open(d)' => Open(d)
      <4>1. CASE sock[d].slot = s
        BY <2>2, <2>4, <2>5, <4>1 DEF Open, Holds
      <4>2. CASE sock[d].slot # s
        <5>1. link'[sock[d].slot] = link[sock[d].slot]
          BY <1>9, <4>2 DEF IInv, LinkTypes
        <5> QED BY <2>2, <5>1 DEF Open, Holds
      <4> QED BY <4>1, <4>2
    <3> QED BY <1>1, <1>3, <1>4, <1>5, <2>1, <2>2, <3>1, Apart DEF IInv
  <2>10. Held(c)'
    <3>1. Notices(c)' /\ StillOpen(c)' /\ Behind(c)'
      BY <1>3, <1>6, <2>1, <2>6
    <3>2. Shown(c)'
      BY <1>1, <2>1 DEF Shown
    <3>3. Followable(c)'
      <4>1. SUFFICES ASSUME form[c].status = "NONE" PROVE OnTheWay(c)'
        BY <2>1 DEF Followable
      <4>2. "NONE" \in Statuses
        BY DEF Statuses
      <4>3. ChainOf(n + 1, recvQ[c], "NONE", "NONE")
        BY <1>2, <1>3, <4>2, ChainOfForeign
      <4>4. Chain(<< >>, "NONE", "NONE")
        BY <4>2, ChainEmpty
      <4>5. Standing(s)' = "NONE"
        BY <1>5, <1>9 DEF IInv, Linked, Standing
      <4> QED BY <1>1, <1>3, <1>4, <2>1, <2>6, <4>1, <4>2, <4>3, <4>4, <4>5 DEF OnTheWay
    <3> QED BY <3>1, <3>2, <3>3 DEF Held
  <2>11. ClientTypes'
    BY <1>1, <1>3, <1>4, <2>1, <2>2, <2>3 DEF IInv, ClientTypes
  <2> QED BY <1>5, <1>7, <2>4, <2>8, <2>9, <2>10, <2>11 DEF IInv
<1> QED BY <1>8, <1>9 DEF Connect

\* A connection nobody refers to ends; no client's socket has it any more.
LEMMA Collects ==
  ASSUME NEW c \in Clients, IInv, NoHandler, Collect(c)
  PROVE  IInv'
<1>1. PICK s \in Slots : Holds(s, c, link[s].n) /\ link[s].n # sock[c].n /\ Leave(s)
  BY DEF Collect
<1>2. UNCHANGED <<form, sock, old, reader, sender, recvQ, sendQ, down>>
  BY DEF Collect
<1>3. UserState' = UserState /\ ServerInv' /\ closing' = closing /\ Alone'
  BY TablesKept DEF IInv, Alone
<1>4. /\ LinkTypes' /\ link'[s].state = "left" /\ link'[s].owner = link[s].owner
      /\ link'[s].n = link[s].n /\ \A t : t # s => link'[t] = link[t]
      /\ \A t \in Slots : Standing(t)' = Standing(t)
  BY <1>1, <1>3, Leaving
<1>5. \A d \in Clients : Open(d)' => Open(d)
  BY <1>2, <1>4 DEF Open, Holds
<1>6. \A d \in Clients : Held(d)'
  BY <1>2, <1>3, <1>5, Apart DEF IInv
<1>7. Linked'
  BY <1>2, <1>4 DEF IInv, Linked
<1>8. ClientTypes' /\ RequestTypes'
  BY <1>2 DEF IInv, ClientTypes, FormTypes, OldTypes, SockTypes, RequestTypes
<1> QED BY <1>3, <1>4, <1>6, <1>7, <1>8 DEF IInv

LEMMA StatusAfterType ==
  ASSUME NEW a \in Statuses, NEW p
  PROVE  StatusAfter(a, p) \in Statuses
BY DEF StatusAfter, Statuses

\* The timer handles the first packet that waits.
LEMMA Ticks ==
  ASSUME NEW c \in Clients, IInv, NoHandler, Tick(c)
  PROVE  IInv'
<1> DEFINE packet == Head(recvQ[c])
           status == StatusAfter(form[c].status, packet)
           pc == IF packet.kind = Disconnectd.kind THEN "disconnectd" ELSE form[c].pc
           mixed == form[c].mixed \/ packet.n # sock[c].n
<1>1. /\ form[c].pc = "idle" /\ recvQ[c] # << >>
      /\ recvQ' = [recvQ EXCEPT ![c] = Tail(@)]
      /\ form' = [form EXCEPT ![c].mixed = mixed, ![c].pc = pc, ![c].status = status]
      /\ UNCHANGED <<sock, old, reader, sender, sendQ, down, link>>
  BY DEF Tick, FormAt
<1>2. /\ recvQ[c] \in Seq(Queued) /\ Tail(recvQ[c]) \in Seq(Queued) /\ packet \in Queued
      /\ Len(recvQ[c]) \in Nat \ {0} /\ packet = recvQ[c][1]
      /\ Len(Tail(recvQ[c])) = Len(recvQ[c]) - 1
      /\ \A i \in 1..Len(Tail(recvQ[c])) : i + 1 \in 1..Len(recvQ[c]) /\ Tail(recvQ[c])[i] = recvQ[c][i + 1]
  <2>1. recvQ[c] \in Seq(Queued)
    BY DEF IInv, ClientTypes
  <2>2. /\ Tail(recvQ[c]) \in Seq(Queued) /\ packet \in Queued
        /\ Len(recvQ[c]) \in Nat \ {0} /\ packet = recvQ[c][1]
        /\ Len(Tail(recvQ[c])) = Len(recvQ[c]) - 1
        /\ \A i \in 1..Len(Tail(recvQ[c])) : Tail(recvQ[c])[i] = recvQ[c][i + 1]
    BY <1>1, <2>1, HeadTailProperties
  <2>3. \A i \in 1..Len(Tail(recvQ[c])) : i + 1 \in 1..Len(recvQ[c])
    BY <2>2
  <2> QED BY <2>1, <2>2, <2>3
<1> HIDE DEF packet
<1>3. /\ FormTypes' /\ form'[c].pc = pc /\ form'[c].status = status /\ form'[c].mixed = mixed
      /\ form'[c].connect = form[c].connect /\ form'[c].late = form[c].late
      /\ \A d \in Clients \ {c} : form'[d] = form[d]
  <2> DEFINE f1 == [form EXCEPT ![c].mixed = mixed, ![c].pc = pc]
             F == [pc: FormPCs, status: Statuses, connect: BOOLEAN, running: BOOLEAN,
                   mixed: BOOLEAN, late: BOOLEAN, posts: Nat]
  <2>1. form \in [Clients -> F] /\ pc \in FormPCs /\ status \in Statuses /\ mixed \in BOOLEAN
    BY ClientTypesOf, StatusAfterType DEF IInv, ClientTypes, FormTypes, FormPCs
  <2>2. form' = [f1 EXCEPT ![c].status = status]
    BY <1>1, <2>1
  <2> HIDE DEF pc, status, mixed
  <2>3. /\ f1 \in [Clients -> F] /\ f1[c].pc = pc /\ f1[c].mixed = mixed
        /\ f1[c].connect = form[c].connect /\ f1[c].late = form[c].late
        /\ \A d \in Clients \ {c} : f1[d] = form[d]
    BY <2>1
  <2> HIDE DEF f1
  <2>4. FormTypes'
    BY <2>1, <2>2, <2>3 DEF FormTypes
  <2>5. /\ form'[c].pc = pc /\ form'[c].status = status /\ form'[c].mixed = mixed
        /\ form'[c].connect = form[c].connect /\ form'[c].late = form[c].late
    BY <2>2, <2>3
  <2>6. \A d \in Clients \ {c} : form'[d] = form[d]
    BY <2>2, <2>3
  <2> QED BY <2>4, <2>5, <2>6
<1>4. /\ recvQ' \in [Clients -> Seq(Queued)] /\ recvQ'[c] = Tail(recvQ[c])
      /\ \A d \in Clients \ {c} : recvQ'[d] = recvQ[d]
  BY <1>1, <1>2 DEF IInv, ClientTypes
<1>5. \A d \in Clients : Open(d)' = Open(d)
  BY <1>1 DEF Open, Holds
<1>6. UserState' = UserState /\ ServerInv' /\ closing' = closing
  BY TablesKept DEF IInv
<1>7. Held(c)'
  <2>1. StillOpen(c)' /\ Behind(c)'
    BY <1>1, <1>3, <1>5 DEF IInv, Held, StillOpen, Behind
  <2>2. Notices(c)'
    <3>1. ASSUME NEW i \in 1..Len(recvQ'[c])
          PROVE  /\ recvQ'[c][i].n <= sock[c].n
                 /\ recvQ'[c][i].kind = Disconnectd.kind /\ recvQ'[c][i].n = sock[c].n
                      => sock[c].state # "up"
      <4>1. PICK j \in 1..Len(recvQ[c]) : recvQ'[c][i] = recvQ[c][j]
        BY <1>2, <1>4
      <4> QED BY <4>1 DEF IInv, Held, Notices
    <3> QED BY <1>1, <3>1 DEF IInv, Held, Notices
  <2>3. Shown(c)'
    <3>1. packet.kind = Disconnectd.kind => mixed \/ sock[c].state # "up"
      <4>1. 1 \in 1..Len(recvQ[c])
        BY <1>2
      <4> QED BY <1>2, <4>1 DEF IInv, Held, Notices
    <3>2. form[c].connect /\ sock[c].state = "up" => form[c].mixed /\ form[c].late
      BY <1>1 DEF IInv, Held, Shown
    <3>3. pc = "disconnectd" => packet.kind = Disconnectd.kind
      BY <1>1
    <3>4. pc \notin {"join", "gone", "crashed"}
      BY <1>1
    <3>5. form[c].mixed => mixed
      OBVIOUS
    <3> HIDE DEF pc, mixed
    <3> QED BY <1>1, <1>3, <3>1, <3>2, <3>3, <3>4, <3>5 DEF Shown
  <2>4. Followable(c)'
    <3>1. SUFFICES ASSUME ~mixed, ~form[c].connect PROVE OnTheWay(c)'
      BY <1>3 DEF Followable
    <3>2. ~form[c].mixed /\ packet.n = sock[c].n
      BY <3>1
    <3>3. PICK a, b, e \in Statuses :
            /\ ChainOf(sock[c].n, recvQ[c], form[c].status, a)
            /\ IF reader[c].n = sock[c].n THEN Chain(reader[c].got, a, b) ELSE a = b
            /\ Chain(down[c], b, e)
            /\ sock[c].state = "up" /\ Open(c) => e = Standing(sock[c].slot)
      BY <3>1, <3>2 DEF IInv, Held, Followable, OnTheWay
    <3>4. form[c].status \in Statuses
      BY ClientTypesOf DEF IInv
    <3>5. PICK x \in Statuses : /\ Step(packet, form[c].status, x)
                                /\ ChainOf(sock[c].n, Tail(recvQ[c]), x, a)
      BY <1>1, <1>2, <3>2, <3>3, <3>4, ChainOfHead DEF packet
    <3>6. x = status
      BY <3>5 DEF Step
    <3> HIDE DEF status
    <3>7. ChainOf(sock'[c].n, recvQ'[c], form'[c].status, a)
      BY <1>1, <1>3, <1>4, <3>5, <3>6
    <3>8. IF reader'[c].n = sock'[c].n THEN Chain(reader'[c].got, a, b) ELSE a = b
      BY <1>1, <3>3
    <3>9. Chain(down'[c], b, e)
      BY <1>1, <3>3
    <3>10. sock'[c].state = "up" /\ Open(c)' => e = Standing(sock[c].slot)'
      BY <1>1, <1>5, <1>6, <3>3 DEF Standing
    <3>11. sock' = sock
      BY <1>1
    <3> QED BY <3>7, <3>8, <3>9, <3>10, <3>11 DEF OnTheWay
  <2> QED BY <2>1, <2>2, <2>3, <2>4 DEF Held
<1>8. \A d \in Clients \ {c} : Held(d)'
  BY <1>1, <1>3, <1>4, <1>5, <1>6, Apart DEF IInv
<1>9. ClientTypes' /\ RequestTypes' /\ LinkTypes' /\ Linked' /\ Alone'
  BY <1>1, <1>3, <1>4, <1>6, LinksKept DEF IInv, ClientTypes, OldTypes, RequestTypes
<1> QED BY <1>6, <1>7, <1>8, <1>9 DEF IInv
\* Before a receive nothing of an earlier one is left to be queued.
LEMMA ReaderLoops ==
  ASSUME NEW c \in Clients, IInv, NoHandler, ReaderLoop(c)
  PROVE  IInv'
<1>1. UNCHANGED <<form, sock, old, sender, recvQ, sendQ, down, link>>
  BY DEF ReaderLoop
<1>2. /\ reader' \in [Clients -> [pc: ReaderPCs, n: Nat, got: Seq(Packets)]]
      /\ reader'[c].got = reader[c].got /\ reader'[c].pc \in {"ended", "receive"}
      /\ old[c].n = 0 /\ reader[c].pc # "queue"
      /\ reader'[c].n = reader[c].n \/ reader'[c].n = sock[c].n
      /\ \A d \in Clients \ {c} : reader'[d] = reader[d]
  <2> DEFINE R == [pc: ReaderPCs, n: Nat, got: Seq(Packets)]
  <2>1. reader \in [Clients -> R] /\ sock[c].n \in Nat
    BY DEF IInv, ClientTypes, SockTypes
  <2>2. CASE reader' = [reader EXCEPT ![c].pc = "ended"] /\ reader[c].pc = "top"
    BY <2>1, <2>2 DEF ReaderPCs, IInv, Held, Behind
  <2>3. CASE /\ reader' = [reader EXCEPT ![c] = [@ EXCEPT !.pc = "receive", !.n = sock[c].n]]
             /\ reader[c].pc = "top" \/ (reader[c].pc = "receive" /\ old[c].n = 0)
    <3>1. [reader[c] EXCEPT !.pc = "receive", !.n = sock[c].n] \in R
      BY <2>1 DEF ReaderPCs
    <3>2. reader'[c] = [reader[c] EXCEPT !.pc = "receive", !.n = sock[c].n]
      BY <2>1, <2>3
    <3>3. reader'[c].got = reader[c].got /\ reader'[c].pc = "receive" /\ reader'[c].n = sock[c].n
      BY <2>1, <3>2
    <3>4. reader' \in [Clients -> R] /\ \A d \in Clients \ {c} : reader'[d] = reader[d]
      BY <2>1, <2>3, <3>1
    <3>5. old[c].n = 0
      BY <2>3 DEF IInv, Held, Behind
    <3> QED BY <2>3, <3>3, <3>4, <3>5
  <2> QED BY <2>2, <2>3 DEF ReaderLoop, ReaderAt, ReceivingOld
<1>3. \A d \in Clients : Open(d)' = Open(d)
  BY <1>1 DEF Open, Holds
<1>4. UserState' = UserState /\ ServerInv' /\ closing' = closing
  BY TablesKept DEF IInv
<1>5. Held(c)'
  <2>1. reader[c].got = << >> /\ reader[c].n <= sock[c].n /\ sock[c].n \in Nat
    BY <1>2 DEF IInv, Held, Notices, ClientTypes, SockTypes
  <2>2. StillOpen(c)' /\ Shown(c)' /\ Behind(c)'
    BY <1>1, <1>2, <1>3 DEF IInv, Held, StillOpen, Shown, Behind
  <2>3. Notices(c)'
    <3>1. reader'[c].n <= sock[c].n
      BY <1>2, <2>1
    <3>2. \A i \in 1..Len(reader'[c].got) : FALSE
      BY <1>2, <2>1
    <3> QED BY <1>1, <1>2, <2>1, <3>1, <3>2 DEF IInv, Held, Notices
  <2>4. ASSUME OnTheWay(c) PROVE OnTheWay(c)'
    <3>1. PICK a, b, e \in Statuses :
            /\ ChainOf(sock[c].n, recvQ[c], form[c].status, a)
            /\ IF reader[c].n = sock[c].n THEN Chain(reader[c].got, a, b) ELSE a = b
            /\ Chain(down[c], b, e)
            /\ sock[c].state = "up" /\ Open(c) => e = Standing(sock[c].slot)
      BY <2>4 DEF OnTheWay, Standing
    <3>2. a = b /\ Chain(<< >>, a, a)
      BY <2>1, <3>1, ChainEmpty
    <3>3. IF reader'[c].n = sock[c].n THEN Chain(reader'[c].got, a, b) ELSE a = b
      BY <1>2, <2>1, <3>2
    <3> QED BY <1>1, <1>3, <1>4, <3>1, <3>3 DEF OnTheWay, Standing
  <2> QED BY <1>1, <2>2, <2>3, <2>4 DEF IInv, Held, Followable
<1>6. \A d \in Clients \ {c} : Held(d)'
  BY <1>1, <1>2, <1>3, <1>4, Apart DEF IInv
<1>7. ClientTypes' /\ RequestTypes' /\ LinkTypes' /\ Linked' /\ Alone'
  BY <1>1, <1>2, <1>4, LinksKept DEF IInv, ClientTypes, FormTypes, OldTypes, RequestTypes
<1> QED BY <1>4, <1>5, <1>6, <1>7 DEF IInv

\* Receive is left, of whichever socket.
LEMMA Abandons ==
  ASSUME NEW c \in Clients, IInv, old' = [old EXCEPT ![c] = NoSocket]
  PROVE  OldTypes' /\ old'[c].n = 0 /\ \A d \in Clients \ {c} : old'[d] = old[d]
<1>1. NoSocket \in [n: Nat, slot: Slots \cup {ASlot}, down: Seq(OfServer \cup Ends)]
  BY EmptySeq DEF NoSocket
<1> QED BY <1>1 DEF IInv, ClientTypes, OldTypes, NoSocket

\* What Receive returns is the beginning of what is under way.
LEMMA Receives ==
  ASSUME NEW c \in Clients, IInv, NoHandler, Receive(c)
  PROVE  IInv'
<1> DEFINE q == down[c]
<1>1. PICK k \in 1..MaxRecv :
        /\ k <= Len(q) /\ \A i \in 1..k : q[i] \notin Ends
        /\ reader' = [reader EXCEPT ![c] = [@ EXCEPT !.pc = "queue", !.got = SubSeq(q, 1, k)]]
        /\ down' = [down EXCEPT ![c] = SubSeq(@, k + 1, Len(@))]
  BY DEF Receive, Returns
<1>2. /\ reader[c].pc = "receive" /\ reader[c].n = sock[c].n /\ sock[c].state = "up"
      /\ UNCHANGED <<form, sock, old, sender, recvQ, sendQ, link>>
  BY DEF Receive, Receiving, ReaderAt
<1> DEFINE got == SubSeq(q, 1, k)
           rest == SubSeq(q, k + 1, Len(q))
           R == [pc: ReaderPCs, n: Nat, got: Seq(Packets)]
<1>3. q \in Seq(OfServer \cup Ends) /\ reader \in [Clients -> R]
  BY DEF IInv, ClientTypes
<1>4. k \in Nat /\ k >= 1 /\ Len(q) \in Nat /\ k \in 0..Len(q)
  <2>1. Len(q) \in Nat
    BY <1>3, LenProperties
  <2>2. k \in Nat /\ k >= 1
    BY ClientAssumption
  <2> QED BY <1>1, <2>1, <2>2
<1>5. /\ got \in Seq(OfServer) /\ Len(got) = k
  <2>1. \A i \in 1..k : q[i] \in OfServer
    BY <1>1, <1>3, <1>4
  <2> QED BY <1>4, <2>1, SubSeqProperties
<1>6. /\ rest \in Seq(OfServer \cup Ends) /\ Len(rest) = Len(q) - k
      /\ \A i \in 1..Len(rest) : k + i \in 1..Len(q) /\ rest[i] = q[k + i]
  <2>1. \A i \in (k + 1)..Len(q) : q[i] \in OfServer \cup Ends
    BY <1>3, <1>4
  <2>2. /\ rest \in Seq(OfServer \cup Ends)
        /\ Len(rest) = IF k + 1 <= Len(q) THEN Len(q) - (k + 1) + 1 ELSE 0
        /\ \A i \in 1..(Len(q) - (k + 1) + 1) : rest[i] = q[k + 1 + i - 1]
    BY <1>4, <2>1, SubSeqProperties
  <2> HIDE DEF rest, q
  <2>3. Len(rest) = Len(q) - k
    BY <1>1, <1>4, <2>2
  <2>4. ASSUME NEW i \in 1..Len(rest) PROVE k + i \in 1..Len(q) /\ rest[i] = q[k + i]
    <3>1. i \in 1..(Len(q) - (k + 1) + 1) /\ k + 1 + i - 1 = k + i /\ k + i \in 1..Len(q)
      BY <1>4, <2>3
    <3> QED BY <2>2, <3>1
  <2> QED BY <2>2, <2>3, <2>4
<1>7. got \in Seq(Packets) /\ got # << >> /\ \A i \in 1..Len(got) : got[i] # Disconnectd
  <2>1. got \in Seq(Packets)
    BY <1>5, SeqMonotonic DEF Packets
  <2>2. \A i \in 1..Len(got) : got[i] \in OfServer
    BY <1>5
  <2>3. Disconnectd \notin OfServer
    BY DEF Disconnectd, OfServer
  <2>4. got # << >>
    BY <1>4, <1>5
  <2> QED BY <2>1, <2>2, <2>3, <2>4
<1> HIDE DEF got, rest
<1>8. /\ reader' \in [Clients -> R] /\ reader'[c].got = got /\ reader'[c].pc = "queue"
      /\ reader'[c].n = sock[c].n /\ \A d \in Clients \ {c} : reader'[d] = reader[d]
  <2>1. reader' = [reader EXCEPT ![c] = [@ EXCEPT !.pc = "queue", !.got = got]]
    BY <1>1 DEF got
  <2>2. [reader[c] EXCEPT !.pc = "queue", !.got = got] \in R
    BY <1>3, <1>7 DEF ReaderPCs
  <2>3. reader'[c] = [reader[c] EXCEPT !.pc = "queue", !.got = got]
    BY <1>3, <2>1
  <2>4. reader'[c].got = got /\ reader'[c].pc = "queue" /\ reader'[c].n = sock[c].n
    BY <1>2, <1>3, <2>3
  <2>5. reader' \in [Clients -> R] /\ \A d \in Clients \ {c} : reader'[d] = reader[d]
    BY <1>3, <2>1, <2>2
  <2> QED BY <2>4, <2>5
<1>9. /\ down' \in [Clients -> Seq(OfServer \cup Ends)] /\ down'[c] = rest
      /\ \A d \in Clients \ {c} : down'[d] = down[d]
  <2>1. down' = [down EXCEPT ![c] = rest]
    BY <1>1 DEF rest
  <2> QED BY <1>6, <2>1 DEF IInv, ClientTypes
<1>10. \A d \in Clients : Open(d)' = Open(d)
  BY <1>2 DEF Open, Holds
<1>11. UserState' = UserState /\ ServerInv' /\ closing' = closing
  BY TablesKept DEF IInv
<1>12. Held(c)'
  <2>1. StillOpen(c)'
    BY <1>2, <1>6, <1>9, <1>10 DEF IInv, Held, StillOpen
  <2>2. Shown(c)' /\ Behind(c)'
    BY <1>2 DEF IInv, Held, Shown, Behind
  <2>3. Notices(c)'
    BY <1>2, <1>7, <1>8 DEF IInv, Held, Notices
  <2>4. ASSUME OnTheWay(c) PROVE OnTheWay(c)'
    <3>1. PICK a, b, e \in Statuses :
            /\ ChainOf(sock[c].n, recvQ[c], form[c].status, a)
            /\ IF reader[c].n = sock[c].n THEN Chain(reader[c].got, a, b) ELSE a = b
            /\ Chain(q, b, e)
            /\ sock[c].state = "up" /\ Open(c) => e = Standing(sock[c].slot)
      BY <2>4 DEF OnTheWay, Standing
    <3>2. a = b
      <4>1. reader[c].got = << >>
        BY <1>2 DEF IInv, Held, Notices
      <4> QED BY <1>2, <3>1, <4>1, ChainEmpty
    <3>3. PICK x \in Statuses : Chain(got, b, x) /\ Chain(rest, x, e)
      BY <1>3, <1>4, <3>1, ChainSplit DEF got, rest
    <3> QED BY <1>2, <1>8, <1>9, <1>10, <1>11, <3>1, <3>2, <3>3 DEF OnTheWay, Standing
  <2> QED BY <1>2, <2>1, <2>2, <2>3, <2>4 DEF IInv, Held, Followable
<1>13. \A d \in Clients \ {c} : Held(d)'
  BY <1>2, <1>8, <1>9, <1>10, <1>11, Apart DEF IInv
<1>14. ClientTypes' /\ RequestTypes' /\ LinkTypes' /\ Linked' /\ Alone'
  BY <1>2, <1>8, <1>9, <1>11, LinksKept DEF IInv, ClientTypes, FormTypes, OldTypes, RequestTypes
<1> QED BY <1>11, <1>12, <1>13, <1>14 DEF IInv
\* The same of an earlier socket, whose packets are not those of the newest.
LEMMA ReceivesOld ==
  ASSUME NEW c \in Clients, IInv, NoHandler, ReceiveOld(c)
  PROVE  IInv'
<1> DEFINE q == old[c].down
           R == [pc: ReaderPCs, n: Nat, got: Seq(Packets)]
<1>1. PICK k \in 1..MaxRecv :
        /\ k <= Len(q) /\ \A i \in 1..k : q[i] \notin Ends
        /\ reader' = [reader EXCEPT ![c] = [@ EXCEPT !.pc = "queue", !.got = SubSeq(q, 1, k)]]
  BY DEF ReceiveOld, Returns
<1>2. /\ old[c].n # 0 /\ old' = [old EXCEPT ![c] = NoSocket]
      /\ UNCHANGED <<form, sock, sender, recvQ, sendQ, down, link>>
  BY DEF ReceiveOld, ReceivingOld
<1>3. reader[c].pc = "receive" /\ reader[c].n # sock[c].n
  BY <1>2 DEF IInv, Held, Behind
<1>4. q \in Seq(OfServer \cup Ends) /\ reader \in [Clients -> R]
  BY DEF IInv, ClientTypes, OldTypes
<1> DEFINE got == SubSeq(q, 1, k)
<1>5. k \in Nat /\ k >= 1 /\ Len(q) \in Nat /\ k \in 0..Len(q)
  <2>1. Len(q) \in Nat
    BY <1>4, LenProperties
  <2>2. k \in Nat /\ k >= 1
    BY ClientAssumption
  <2> QED BY <1>1, <2>1, <2>2
<1>6. got \in Seq(Packets) /\ got # << >>
  <2>1. \A i \in 1..k : q[i] \in Packets
    BY <1>4, <1>5 DEF Packets
  <2>2. got \in Seq(Packets) /\ Len(got) = k
    BY <1>5, <2>1, SubSeqProperties
  <2> QED BY <1>5, <2>2
<1> HIDE DEF got
<1>7. /\ reader' \in [Clients -> R] /\ reader'[c].got = got /\ reader'[c].pc = "queue"
      /\ reader'[c].n = reader[c].n /\ \A d \in Clients \ {c} : reader'[d] = reader[d]
  <2>1. reader' = [reader EXCEPT ![c] = [@ EXCEPT !.pc = "queue", !.got = got]]
    BY <1>1 DEF got
  <2>2. [reader[c] EXCEPT !.pc = "queue", !.got = got] \in R
    BY <1>4, <1>6 DEF ReaderPCs
  <2>3. reader'[c] = [reader[c] EXCEPT !.pc = "queue", !.got = got]
    BY <1>4, <2>1
  <2>4. reader'[c].got = got /\ reader'[c].pc = "queue" /\ reader'[c].n = reader[c].n
    BY <1>4, <2>3
  <2>5. reader' \in [Clients -> R] /\ \A d \in Clients \ {c} : reader'[d] = reader[d]
    BY <1>4, <2>1, <2>2
  <2> QED BY <2>4, <2>5
<1>8. OldTypes' /\ old'[c].n = 0 /\ \A d \in Clients \ {c} : old'[d] = old[d]
  BY <1>2, Abandons
<1>9. \A d \in Clients : Open(d)' = Open(d)
  BY <1>2 DEF Open, Holds
<1>10. UserState' = UserState /\ ServerInv' /\ closing' = closing
  BY TablesKept DEF IInv
<1>11. Held(c)'
  <2>1. StillOpen(c)' /\ Shown(c)' /\ Behind(c)'
    BY <1>2, <1>8, <1>9 DEF IInv, Held, StillOpen, Shown, Behind
  <2>2. Notices(c)'
    BY <1>2, <1>3, <1>6, <1>7 DEF IInv, Held, Notices
  <2>3. OnTheWay(c) => OnTheWay(c)'
    BY <1>2, <1>3, <1>7, <1>9, <1>10 DEF OnTheWay, Standing
  <2> QED BY <1>2, <2>1, <2>2, <2>3 DEF IInv, Held, Followable
<1>12. \A d \in Clients \ {c} : Held(d)'
  BY <1>2, <1>7, <1>8, <1>9, <1>10, Apart DEF IInv
<1>13. ClientTypes' /\ RequestTypes' /\ LinkTypes' /\ Linked' /\ Alone'
  BY <1>2, <1>7, <1>8, <1>10, LinksKept DEF IInv, ClientTypes, FormTypes, RequestTypes
<1> QED BY <1>10, <1>11, <1>12, <1>13 DEF IInv
\* The notice of a lost connection changes no status; who made the connection is
\* told of it after the socket knows.
LEMMA ReceiveFails ==
  ASSUME NEW c \in Clients, IInv, NoHandler, ReceiveEnds(c)
  PROVE  IInv'
<1> DEFINE current == reader[c].n = sock[c].n /\ sock[c].state = "up"
           R == [pc: ReaderPCs, n: Nat, got: Seq(Packets)]
<1>1. /\ reader[c].pc = "receive" /\ (current => down[c] # << >> /\ Head(down[c]) \in Ends)
      /\ reader' = [reader EXCEPT ![c] = [@ EXCEPT !.pc = "queue", !.got = <<Disconnectd>>]]
      /\ sock' = IF current
                 THEN [sock EXCEPT ![c].state = IF Head(down[c]) = Fin THEN "fin" ELSE "dead"]
                 ELSE sock
      /\ old' = [old EXCEPT ![c] = NoSocket]
      /\ UNCHANGED <<form, sender, recvQ, sendQ, down, link>>
  BY DEF ReceiveEnds, Receiving, ReaderAt
<1>2. /\ reader \in [Clients -> R] /\ DOMAIN sock = Clients /\ SockTypes(c)
      /\ down[c] \in Seq(OfServer \cup Ends)
  BY DEF IInv, ClientTypes
<1>3. /\ reader' \in [Clients -> R] /\ reader'[c].got = <<Disconnectd>> /\ reader'[c].pc = "queue"
      /\ reader'[c].n = reader[c].n /\ \A d \in Clients \ {c} : reader'[d] = reader[d]
  <2>1. <<Disconnectd>> \in Seq(Packets)
    BY DEF Packets
  <2>2. [reader[c] EXCEPT !.pc = "queue", !.got = <<Disconnectd>>] \in R
    BY <1>2, <2>1 DEF ReaderPCs
  <2>3. reader'[c] = [reader[c] EXCEPT !.pc = "queue", !.got = <<Disconnectd>>]
    BY <1>1, <1>2
  <2>4. /\ reader'[c].got = <<Disconnectd>> /\ reader'[c].pc = "queue"
        /\ reader'[c].n = reader[c].n
    BY <1>2, <2>3
  <2>5. reader' \in [Clients -> R] /\ \A d \in Clients \ {c} : reader'[d] = reader[d]
    BY <1>1, <1>2, <2>2
  <2> QED BY <2>4, <2>5
<1>4. /\ reader[c].n = sock[c].n => sock'[c].state # "up"
      /\ sock'[c].n = sock[c].n /\ sock'[c].slot = sock[c].slot
      /\ sock'[c].state = "up" => sock'[c] = sock[c]
      /\ DOMAIN sock' = Clients /\ SockTypes(c)'
      /\ \A d \in Clients \ {c} : sock'[d] = sock[d]
  <2>1. CASE current
    <3>1. PICK state \in {"fin", "dead"} : sock' = [sock EXCEPT ![c].state = state]
      BY <1>1, <2>1
    <3> QED BY <1>2, <3>1 DEF SockTypes, SockStates
  <2>2. CASE ~current
    BY <1>1, <1>2, <2>2 DEF SockTypes
  <2> QED BY <2>1, <2>2
<1>5. /\ OldTypes' /\ old'[c].n = 0 /\ \A d \in Clients \ {c} : old'[d] = old[d]
      /\ \A d \in Clients : SockTypes(d)'
  BY <1>1, <1>4, Abandons DEF IInv, ClientTypes, SockTypes
<1>6. \A d \in Clients : Open(d)' = Open(d)
  BY <1>1, <1>4 DEF Open, Holds
<1>7. UserState' = UserState /\ ServerInv' /\ closing' = closing
  BY TablesKept DEF IInv
<1>8. Linked' /\ Alone'
  <2>1. current => ~Open(c)
    <3>1. ASSUME current, Open(c) PROVE FALSE
      <4>1. down[c] # << >> /\ Head(down[c]) \in Ends
        BY <1>1, <3>1 DEF IInv, Held, Notices
      <4>2. 1 \in 1..Len(down[c]) /\ Head(down[c]) = down[c][1]
        BY <1>2, <4>1
      <4> QED BY <3>1, <4>1, <4>2 DEF IInv, Held, StillOpen
    <3> QED BY <3>1
  <2>2. ASSUME NEW t \in Slots, link[t].state = "accepted", link[t].owner = c, current
        PROVE  link[t].n # sock[c].n
    BY <2>1, <2>2 DEF IInv, Linked, Open, Holds
  <2>3. ~current => sock' = sock
    BY <1>1
  <2> QED BY <1>1, <1>4, <1>7, <2>2, <2>3 DEF IInv, Linked, Alone, Standing
<1>9. Held(c)'
  <2>1. StillOpen(c)'
    BY <1>1, <1>4, <1>6 DEF IInv, Held, StillOpen
  <2>2. Shown(c)' /\ Behind(c)'
    BY <1>1, <1>4, <1>5 DEF IInv, Held, Shown, Behind
  <2>3. Notices(c)'
    <3>1. <<Disconnectd>> # << >>
      OBVIOUS
    <3>2. \A i \in 1..Len(reader'[c].got) :
            reader'[c].got[i] = Disconnectd /\ reader'[c].n = sock'[c].n => sock'[c].state # "up"
      BY <1>3, <1>4
    <3>3. \A i \in 1..Len(recvQ'[c]) :
            recvQ'[c][i].kind = Disconnectd.kind /\ recvQ'[c][i].n = sock'[c].n => sock'[c].state # "up"
      BY <1>1, <1>4 DEF IInv, Held, Notices
    <3> QED BY <1>1, <1>3, <1>4, <3>1, <3>2, <3>3 DEF IInv, Held, Notices
  <2>4. ASSUME OnTheWay(c) PROVE OnTheWay(c)'
    <3>1. PICK a, b, e \in Statuses :
            /\ ChainOf(sock[c].n, recvQ[c], form[c].status, a)
            /\ IF reader[c].n = sock[c].n THEN Chain(reader[c].got, a, b) ELSE a = b
            /\ Chain(down[c], b, e)
            /\ sock[c].state = "up" /\ Open(c) => e = Standing(sock[c].slot)
      BY <2>4 DEF OnTheWay, Standing
    <3>2. a = b
      <4>1. reader[c].got = << >>
        BY <1>1 DEF IInv, Held, Notices
      <4> QED BY <3>1, <4>1, ChainEmpty
    <3>3. Chain(<<Disconnectd>>, a, b)
      BY <3>2, EndsStep, ChainOne
    <3>4. IF reader'[c].n = sock'[c].n THEN Chain(reader'[c].got, a, b) ELSE a = b
      BY <1>3, <3>2, <3>3
    <3>5. sock'[c].state = "up" /\ Open(c)' => e = Standing(sock[c].slot)'
      BY <1>4, <1>6, <1>7, <3>1 DEF Standing
    <3> QED BY <1>1, <1>4, <3>1, <3>4, <3>5 DEF OnTheWay, Standing
  <2> QED BY <1>1, <2>1, <2>2, <2>3, <2>4 DEF IInv, Held, Followable
<1>10. \A d \in Clients \ {c} : Held(d)'
  BY <1>1, <1>3, <1>4, <1>6, <1>7, <1>5, Apart DEF IInv
<1>11. ClientTypes' /\ RequestTypes' /\ LinkTypes'
  BY <1>1, <1>3, <1>4, <1>5 DEF IInv, ClientTypes, FormTypes, RequestTypes, LinkTypes
<1> QED BY <1>7, <1>8, <1>9, <1>10, <1>11 DEF IInv

\* A packet received moves to the end of the queue, or is dropped if it is one
\* notice too many.
LEMMA QueuesReceived ==
  ASSUME NEW c \in Clients, IInv, NoHandler, QueueReceived(c)
  PROVE  IInv'
<1> DEFINE got == reader[c].got
           n == reader[c].n
           packet == Head(got)
           rest == Tail(got)
           queued == [kind |-> packet.kind, result |-> packet.result, n |-> n]
           R == [pc: ReaderPCs, n: Nat, got: Seq(Packets)]
<1>1. /\ reader[c].pc = "queue"
      /\ reader' = [reader EXCEPT ![c] =
           IF rest = << >> THEN [pc |-> "top", n |-> 0, got |-> << >>] ELSE [@ EXCEPT !.got = rest]]
      /\ UNCHANGED <<form, sock, old, sender, sendQ, down, link>>
  BY DEF QueueReceived, ReaderAt
<1>2. \/ recvQ' = recvQ /\ packet = Disconnectd
      \/ recvQ' = [recvQ EXCEPT ![c] = Append(@, queued)]
  BY DEF QueueReceived
<1>3. /\ reader \in [Clients -> R] /\ got \in Seq(Packets) /\ n \in Nat /\ sock[c].n \in Nat
      /\ recvQ \in [Clients -> Seq(Queued)]
  BY ClientTypesOf DEF IInv, ClientTypes
<1>4. got # << >>
  BY <1>1 DEF IInv, Held, Notices
<1>5. /\ packet \in Packets /\ rest \in Seq(Packets) /\ packet = got[1] /\ 1 \in 1..Len(got)
      /\ \A i \in 1..Len(rest) : i + 1 \in 1..Len(got) /\ rest[i] = got[i + 1]
  <2>1. /\ packet \in Packets /\ rest \in Seq(Packets) /\ packet = got[1]
        /\ Len(got) \in Nat \ {0} /\ Len(rest) = Len(got) - 1
        /\ \A i \in 1..Len(rest) : rest[i] = got[i + 1]
    BY <1>3, <1>4, HeadTailProperties
  <2> HIDE DEF rest, packet, got
  <2>2. 1 \in 1..Len(got) /\ \A i \in 1..Len(rest) : i + 1 \in 1..Len(got)
    BY <2>1
  <2> QED BY <2>1, <2>2
<1>6. queued \in Queued
  BY <1>3, <1>5 DEF Queued
<1> HIDE DEF packet, rest
<1>7. /\ reader' \in [Clients -> R]
      /\ reader'[c].got = rest /\ (reader'[c].pc = "queue" <=> rest # << >>)
      /\ reader'[c].pc \in {"top", "queue"} /\ (rest # << >> => reader'[c].n = n)
      /\ (rest = << >> => reader'[c].n = 0)
      /\ \A d \in Clients \ {c} : reader'[d] = reader[d]
  <2>1. CASE rest = << >>
    <3>1. [pc |-> "top", n |-> 0, got |-> << >>] \in R
      BY EmptySeq DEF ReaderPCs
    <3>2. reader' = [reader EXCEPT ![c] = [pc |-> "top", n |-> 0, got |-> << >>]]
      BY <1>1, <2>1
    <3> QED BY <1>3, <2>1, <3>1, <3>2
  <2>2. CASE rest # << >>
    <3>1. [reader[c] EXCEPT !.got = rest] \in R
      BY <1>3, <1>5
    <3>2. reader' = [reader EXCEPT ![c] = [@ EXCEPT !.got = rest]]
      BY <1>1, <2>2
    <3>3. reader'[c] = [reader[c] EXCEPT !.got = rest]
      BY <1>3, <3>2
    <3>4. reader'[c].got = rest /\ reader'[c].pc = "queue" /\ reader'[c].n = n
      BY <1>1, <1>3, <3>3
    <3>5. reader' \in [Clients -> R] /\ \A d \in Clients \ {c} : reader'[d] = reader[d]
      BY <1>3, <3>1, <3>2
    <3> QED BY <2>2, <3>4, <3>5
  <2> QED BY <2>1, <2>2
<1>8. /\ recvQ' \in [Clients -> Seq(Queued)] /\ \A d \in Clients \ {c} : recvQ'[d] = recvQ[d]
      /\ \/ recvQ'[c] = recvQ[c] /\ packet = Disconnectd
         \/ recvQ'[c] = Append(recvQ[c], queued)
  <2>1. Append(recvQ[c], queued) \in Seq(Queued)
    BY <1>3, <1>6, AppendProperties
  <2> HIDE DEF queued
  <2> QED BY <1>2, <1>3, <2>1
<1>9. \A d \in Clients : Open(d)' = Open(d)
  BY <1>1 DEF Open, Holds
<1>10. UserState' = UserState /\ ServerInv' /\ closing' = closing
  BY TablesKept DEF IInv
<1>11. Held(c)'
  <2>1. StillOpen(c)' /\ Shown(c)' /\ Behind(c)'
    BY <1>1, <1>9 DEF IInv, Held, StillOpen, Shown, Behind
  <2>2. Notices(c)'
    <3>1. n <= sock[c].n /\ (packet = Disconnectd /\ n = sock[c].n => sock[c].state # "up")
      BY <1>5 DEF IInv, Held, Notices
    <3>2. packet.kind = Disconnectd.kind => packet = Disconnectd
      BY <1>5 DEF Packets, OfServer, Ends, Fin, Rst, Disconnectd
    <3>3. queued.n = n /\ queued.kind = packet.kind
      OBVIOUS
    <3> HIDE DEF queued
    <3>4. ASSUME NEW i \in 1..Len(recvQ'[c])
          PROVE  /\ recvQ'[c][i].n <= sock[c].n
                 /\ recvQ'[c][i].kind = Disconnectd.kind /\ recvQ'[c][i].n = sock[c].n
                      => sock[c].state # "up"
      <4>1. \/ i \in 1..Len(recvQ[c]) /\ recvQ'[c][i] = recvQ[c][i]
            \/ recvQ'[c][i] = queued
        <5>1. CASE recvQ'[c] = recvQ[c]
          BY <5>1
        <5>2. CASE recvQ'[c] = Append(recvQ[c], queued)
          <6>1. /\ Len(recvQ'[c]) = Len(recvQ[c]) + 1 /\ Len(recvQ[c]) \in Nat
                /\ \A j \in 1..Len(recvQ[c]) : recvQ'[c][j] = recvQ[c][j]
                /\ recvQ'[c][Len(recvQ[c]) + 1] = queued
            BY <1>3, <1>6, <5>2, AppendProperties
          <6>2. i \in 1..Len(recvQ[c]) \/ i = Len(recvQ[c]) + 1
            BY <6>1
          <6> QED BY <6>1, <6>2
        <5> QED BY <1>8, <5>1, <5>2
      <4>2. CASE recvQ'[c][i] = queued
        BY <3>1, <3>2, <3>3, <4>2
      <4>3. CASE i \in 1..Len(recvQ[c]) /\ recvQ'[c][i] = recvQ[c][i]
        BY <4>3 DEF IInv, Held, Notices
      <4> QED BY <4>1, <4>2, <4>3
    <3>5. reader'[c].n <= sock[c].n
      BY <1>3, <1>7, <3>1
    <3>6. \A i \in 1..Len(rest) :
            rest[i] = Disconnectd /\ reader'[c].n = sock[c].n => sock[c].state # "up"
      <4>1. ASSUME NEW i \in 1..Len(rest), rest[i] = Disconnectd, reader'[c].n = sock[c].n
            PROVE  sock[c].state # "up"
        <5>1. rest # << >>
          BY <1>5
        <5>2. i + 1 \in 1..Len(got) /\ got[i + 1] = Disconnectd
          BY <1>5, <4>1
        <5> QED BY <1>7, <4>1, <5>1, <5>2 DEF IInv, Held, Notices
      <4> QED BY <4>1
    <3> QED BY <1>1, <1>7, <3>4, <3>5, <3>6 DEF Notices
  <2>3. ASSUME OnTheWay(c) PROVE OnTheWay(c)'
    <3>1. PICK a, b, e \in Statuses :
            /\ ChainOf(sock[c].n, recvQ[c], form[c].status, a)
            /\ IF n = sock[c].n THEN Chain(got, a, b) ELSE a = b
            /\ Chain(down[c], b, e)
            /\ sock[c].state = "up" /\ Open(c) => e = Standing(sock[c].slot)
      BY <2>3 DEF OnTheWay, Standing
    <3>2. PICK x \in Statuses :
            /\ IF n = sock[c].n THEN Step(packet, a, x) /\ Chain(rest, x, b) ELSE x = a
            /\ x = b \/ n = sock[c].n
      <4>1. CASE n = sock[c].n
        <5>1. Chain(got, a, b)
          BY <3>1, <4>1
        <5>2. \E x \in Statuses : Step(packet, a, x) /\ Chain(rest, x, b)
          BY <1>3, <1>4, <5>1, ChainHead DEF packet, rest
        <5> QED BY <4>1, <5>2
      <4>2. CASE n # sock[c].n
        BY <3>1, <4>2
      <4> QED BY <4>1, <4>2
    <3>3. ChainOf(sock[c].n, recvQ'[c], form[c].status, x)
      <4>1. CASE recvQ'[c] = recvQ[c] /\ packet = Disconnectd
        <5>1. n = sock[c].n => x = a
          <6>1. Step(packet, a, a)
            BY <4>1, EndsStep
          <6> QED BY <3>2, <6>1 DEF Step
        <5> QED BY <3>1, <3>2, <4>1, <5>1
      <4>2. CASE recvQ'[c] = Append(recvQ[c], queued)
        <5>1. queued.n = n /\ queued.kind = packet.kind /\ queued.result = packet.result
          OBVIOUS
        <5> HIDE DEF queued
        <5>2. Step(packet, a, x) => Step(queued, a, x)
          BY <5>1 DEF Step, StatusAfter
        <5>3. IF queued.n = sock[c].n THEN Step(queued, a, x) ELSE x = a
          BY <3>2, <5>1, <5>2
        <5> QED BY <1>3, <1>6, <3>1, <4>2, <5>3, ChainOfAppend
      <4> QED BY <1>8, <4>1, <4>2
    <3>4. IF reader'[c].n = sock[c].n THEN Chain(reader'[c].got, x, b) ELSE x = b
      <4>1. CASE rest = << >>
        <5>1. Chain(<< >>, b, b)
          BY ChainEmpty
        <5>2. x = b
          BY <3>2, <4>1, ChainEmpty
        <5> QED BY <1>7, <4>1, <5>1, <5>2
      <4>2. CASE rest # << >>
        BY <1>7, <3>1, <3>2, <4>2
      <4> QED BY <4>1, <4>2
    <3> QED BY <1>1, <1>9, <1>10, <3>1, <3>3, <3>4 DEF OnTheWay, Standing
  <2> QED BY <1>1, <2>1, <2>2, <2>3 DEF IInv, Held, Followable
<1>12. \A d \in Clients \ {c} : Held(d)'
  BY <1>1, <1>7, <1>8, <1>9, <1>10, Apart DEF IInv
<1>13. ClientTypes' /\ RequestTypes' /\ LinkTypes' /\ Linked' /\ Alone'
  BY <1>1, <1>7, <1>8, <1>10, LinksKept DEF IInv, ClientTypes, FormTypes, OldTypes, RequestTypes
<1> QED BY <1>10, <1>11, <1>12, <1>13 DEF IInv
\* A request reaches the server as long as the connection is open; a connection
\* that is not may be found to be dead.
LEMMA SendsRequest ==
  ASSUME NEW c \in Clients, IInv, NoHandler, Send(c)
  PROVE  IInv'
<1> DEFINE s == sock[c].slot
           packet == sender[c].packet
<1>1. /\ packet = NoPacket => ~IsConnected(c)
      /\ sender' = [sender EXCEPT ![c].pc = "top", ![c].packet = NoPacket]
      /\ UNCHANGED <<form, old, reader, recvQ, sendQ, down>>
  BY DEF Send
<1>2. RequestTypes' /\ packet \in Requests \cup {NoPacket}
  <2> DEFINE S == [pc: SenderPCs, packet: Requests \cup {NoPacket}]
  <2>1. sender \in [Clients -> S] /\ "top" \in SenderPCs
    BY DEF IInv, RequestTypes, SenderPCs
  <2>2. sender' \in [Clients -> S]
    BY <1>1, <2>1
  <2> QED BY <1>1, <2>1, <2>2 DEF IInv, RequestTypes
<1>3. UserState' = UserState /\ ServerInv' /\ closing' = closing
  BY TablesKept DEF IInv
<1>4. CASE /\ sock[c].state = "up" /\ Open(c) /\ sock' = sock
           /\ link' = [link EXCEPT ![s].up = Append(@, packet)]
  <2>1. packet \in Requests
    BY <1>1, <1>2, <1>4 DEF IsConnected
  <2>2. s \in Slots /\ link[s].up \in Seq(Requests \cup {Close}) /\ link[s].state = "accepted"
    BY <1>4 DEF IInv, ClientTypes, SockTypes, LinkTypes, Open, Holds
  <2>3. Append(link[s].up, packet) \in Seq(Requests \cup {Close})
    BY <2>1, <2>2, AppendProperties
  <2>4. LinkTypes' /\ \A t \in Slots : /\ link'[t].owner = link[t].owner
                                       /\ link'[t].n = link[t].n
                                       /\ link'[t].state = link[t].state
                                       /\ (t # s => link'[t] = link[t])
    BY <1>4, <2>2, <2>3 DEF IInv, LinkTypes
  <2>5. \A d \in Clients : Open(d)' = Open(d)
    <3>1. ASSUME NEW d \in Clients PROVE Open(d)' = Open(d)
      <4>1. CASE sock[d].slot \in Slots
        BY <1>4, <2>4, <4>1 DEF Open, Holds
      <4>2. CASE sock[d].slot \notin Slots
        <5>1. link'[sock[d].slot] = link[sock[d].slot]
          BY <1>4, <2>2, <4>2 DEF IInv, LinkTypes
        <5> QED BY <1>4, <5>1 DEF Open, Holds
      <4> QED BY <4>1, <4>2
    <3> QED BY <3>1
  <2>6. \A d \in Clients : Held(d)'
    BY <1>1, <1>3, <1>4, <2>5, Apart DEF IInv
  <2>7. Linked' /\ Alone'
    <3>1. Linked /\ Alone
      BY DEF IInv
    <3>2. Alone'
      BY <1>3, <3>1 DEF Alone
    <3>3. \A t \in Slots : Standing(t)' = Standing(t)
      BY <1>3 DEF Standing
    <3>4. \A t \in Slots : link'[t].state = "free" => t # s /\ link'[t] = link[t]
      BY <2>2, <2>4
    <3>5. \A t \in Slots : link'[t].state = "free" => link'[t].up = << >> /\ Standing(t)' = "NONE"
      BY <3>1, <3>3, <3>4 DEF Linked
    <3>6. ASSUME NEW t \in Slots, link'[t].state = "accepted"
          PROVE  /\ link'[t].owner \in Clients /\ link'[t].n <= sock'[link'[t].owner].n
                 /\ link'[t].n = sock'[link'[t].owner].n =>
                      sock'[link'[t].owner].state = "up" /\ sock'[link'[t].owner].slot = t
      <4>1. link'[t].owner = link[t].owner /\ link'[t].n = link[t].n /\ link[t].state = "accepted"
        BY <2>4, <3>6
      <4>2. /\ link[t].owner \in Clients /\ link[t].n <= sock[link[t].owner].n
            /\ link[t].n = sock[link[t].owner].n =>
                 sock[link[t].owner].state = "up" /\ sock[link[t].owner].slot = t
        BY <3>1, <4>1 DEF Linked
      <4> QED BY <1>4, <4>1, <4>2
    <3> QED BY <3>2, <3>5, <3>6 DEF Linked
  <2>8. ClientTypes'
    BY <1>1, <1>4 DEF IInv, ClientTypes, FormTypes, OldTypes, SockTypes
  <2> QED BY <1>2, <1>3, <2>4, <2>6, <2>7, <2>8 DEF IInv
<1>5. CASE link' = link /\ sock' = sock
  <2>1. \A d \in Clients : Open(d)' = Open(d)
    BY <1>5 DEF Open, Holds
  <2>2. \A d \in Clients : Held(d)'
    BY <1>1, <1>3, <1>5, <2>1, Apart DEF IInv
  <2>3. ClientTypes' /\ LinkTypes' /\ Linked' /\ Alone'
    BY <1>1, <1>3, <1>5, LinksKept DEF IInv, ClientTypes, FormTypes, OldTypes
  <2> QED BY <1>2, <1>3, <2>2, <2>3 DEF IInv
<1>6. CASE /\ ~(sock[c].state = "up" /\ Open(c)) /\ link' = link
           /\ sock' = [sock EXCEPT ![c].state = "dead"]
  <2>1. /\ DOMAIN sock' = Clients /\ SockTypes(c)'
        /\ sock'[c].state = "dead" /\ sock'[c].n = sock[c].n
        /\ \A d \in Clients \ {c} : sock'[d] = sock[d]
    BY <1>6 DEF IInv, ClientTypes, SockTypes, SockStates
  <2>2. \A d \in Clients \ {c} : Open(d)' = Open(d)
    BY <1>6, <2>1 DEF Open, Holds
  <2>3. Held(c)'
    BY <1>1, <2>1, GoneHeld DEF IInv
  <2>4. \A d \in Clients \ {c} : Held(d)'
    BY <1>1, <1>3, <2>1, <2>2, Apart DEF IInv
  <2>5. Linked' /\ Alone'
    <3>1. ASSUME NEW t \in Slots, link[t].state = "accepted", link[t].owner = c
          PROVE  link[t].n # sock[c].n
      BY <1>6, <3>1 DEF IInv, Linked, Open, Holds
    <3> QED BY <1>3, <1>6, <2>1, <3>1 DEF IInv, Linked, Alone, Standing
  <2>6. ClientTypes' /\ LinkTypes'
    BY <1>1, <1>6, <2>1 DEF IInv, ClientTypes, FormTypes, OldTypes, SockTypes, LinkTypes
  <2> QED BY <1>2, <1>3, <2>3, <2>4, <2>5, <2>6 DEF IInv
<1> QED BY <1>4, <1>5, <1>6 DEF Send

----------------------------------------------------------------------------
(* The theorems.                                                           *)

LEMMA Invariant == Spec => []IInv
<1>1. Init => IInv
  <2> SUFFICES ASSUME Init PROVE IInv
    OBVIOUS
  <2> USE DEF Init, ClientInit
  <2>1. ClientTypes
    BY EmptySeq DEF ClientTypes, FormTypes, OldTypes, NoSocket, FormPCs, Statuses, SockTypes, SockStates, ReaderPCs
  <2>2. RequestTypes
    BY EmptySeq DEF RequestTypes, SenderPCs, EmptyQueue
  <2>3. LinkTypes
    BY EmptySeq DEF LinkTypes, FreeSlot, LinkStates
  <2>4. ServerTypes
    BY DEF Server!Init, Server!INVALID, Server!RoomNumbers, ServerTypes, Conns, AllIDs, RoomNumbers
  <2>5. Server!RoomsAgree /\ Server!UsersAgree
    BY SystemAssumption
    DEF Server!Init, Server!INVALID, Server!RoomNumbers, Server!RoomsAgree, Server!UsersAgree
  <2>6. Linked /\ Alone
    BY DEF Linked, Alone, Standing, StatusOf, FreeSlot, Server!Init
  <2>7. ASSUME NEW c \in Clients PROVE Held(c)
    <3>1. /\ form[c].pc = "idle" /\ form[c].connect = TRUE /\ sock[c].state = "none" /\ sock[c].n = 0
          /\ reader[c].pc = "top" /\ reader[c].n = 0 /\ reader[c].got = << >> /\ recvQ[c] = << >>
          /\ old[c].n = 0
      BY DEF NoSocket
    <3>2. \A i \in 1..Len(<< >>) : FALSE
      OBVIOUS
    <3> QED BY <3>1, <3>2 DEF Held, StillOpen, Notices, Shown, Behind, Followable
  <2> QED BY <2>1, <2>2, <2>3, <2>4, <2>5, <2>6, <2>7 DEF IInv, ServerInv
<1>2. IInv /\ [Next]_vars => IInv'
  <2> SUFFICES ASSUME IInv, [Next]_vars PROVE IInv'
    OBVIOUS
  <2>1. ASSUME NEW c \in Clients, ClientStep(c), NoHandler PROVE IInv'
    <3>1. CASE UserStep(c)
      BY <2>1, <3>1, ConnectsAnew, Cleared, Sends, Departs DEF UserStep
    <3>2. CASE FormStep(c)
      BY <2>1, <3>2, Departs, Ticks, Cleared, Joins DEF FormStep
    <3>3. CASE ReaderStep(c)
      <4>1. CASE ReceiveThrows(c)
        BY <2>1, <4>1, Crashes DEF ReceiveThrows
      <4> QED BY <2>1, <3>3, <4>1, ReaderLoops, Receives, ReceivesOld, ReceiveFails, QueuesReceived DEF ReaderStep
    <3>4. CASE SenderStep(c)
      <4>1. CASE DequeueThrows(c) \/ SendThrows(c)
        BY <2>1, <4>1, Crashes DEF DequeueThrows, SendThrows
      <4> QED BY <2>1, <3>4, <4>1, Sends, SendsRequest DEF SenderStep
    <3> QED BY <2>1, <3>1, <3>2, <3>3, <3>4, Collects DEF ClientStep
  <2>2. ASSUME NEW s \in Slots, ServerStep(s) PROVE IInv'
    BY <2>2, HandlesPacket, HandlesConnection, Resets, HandlesClose, Closes DEF ServerStep
  <2>3. ASSUME NEW s \in Elsewhere, HandleElsewhere(s) PROVE IInv'
    BY <2>3, HandlesElsewhere
  <2>4. CASE UNCHANGED vars
    <3>1. /\ UNCHANGED <<form, sock, old, reader, sender, recvQ, sendQ, down, link>>
          /\ UNCHANGED <<UserState, UserID, RoomNumber, Users, Rooms, closing>>
      BY <2>4 DEF vars, clientVars, tables
    <3>2. ServerInv'
      BY <3>1 DEF IInv, ServerInv, ServerTypes, Server!RoomsAgree, Server!UsersAgree
    <3>3. \A d \in Clients : Held(d)'
      BY <3>1, Apart DEF IInv, Open, Holds
    <3>4. ClientTypes' /\ RequestTypes' /\ LinkTypes' /\ Linked' /\ Alone'
      BY <3>1, LinksKept DEF IInv, ClientTypes, FormTypes, OldTypes, RequestTypes
    <3> QED BY <3>2, <3>3, <3>4 DEF IInv
  <2> QED BY <2>1, <2>2, <2>3, <2>4 DEF Next
<1> QED BY <1>1, <1>2, PTL DEF Spec

\* The status a client shows is the one the server has it in, whenever nothing
\* of the client's is under way and no packet of an earlier connection was
\* handled in this one.
THEOREM Agreement == Spec => []Agreed
<1>1. IInv => Agreed
  <2> SUFFICES ASSUME IInv, NEW c \in Clients, sock[c].state = "up", Open(c), Settled(c),
                      ~form[c].mixed
               PROVE  form[c].status = StatusOf[UserState[sock[c].slot]]
    BY DEF Agreed
  <2>1. ~form[c].connect /\ Standing(sock[c].slot) = StatusOf[UserState[sock[c].slot]]
    BY DEF IInv, Held, Shown, Settled, Standing
  <2>2. PICK a, b, e \in Statuses :
          /\ ChainOf(sock[c].n, << >>, form[c].status, a)
          /\ IF reader[c].n = sock[c].n THEN Chain(<< >>, a, b) ELSE a = b
          /\ Chain(<< >>, b, e) /\ e = Standing(sock[c].slot)
    BY <2>1 DEF IInv, Held, Followable, OnTheWay, Settled
  <2>3. form[c].status \in Statuses
    BY ClientTypesOf DEF IInv
  <2>4. form[c].status = a /\ a = b /\ b = e
    BY <2>2, <2>3, ChainEmpty, ChainOfEmpty
  <2> QED BY <2>1, <2>2, <2>4
<1> QED BY <1>1, Invariant, PTL

\* A notice of what is said in a room is handled while the form shows the room.
THEOREM NoticesInRoom == Spec => []NotifiedInRoom
<1>1. IInv => NotifiedInRoom
  <2> SUFFICES ASSUME IInv, NEW c \in Clients, recvQ[c] # << >>, ~form[c].connect,
                      Head(recvQ[c]).kind = "notify", Head(recvQ[c]).n = sock[c].n,
                      ~form[c].mixed
               PROVE  form[c].status = "ROOM"
    BY DEF NotifiedInRoom
  <2>1. PICK a \in Statuses : ChainOf(sock[c].n, recvQ[c], form[c].status, a)
    BY DEF IInv, Held, Followable, OnTheWay
  <2>2. form[c].status \in Statuses /\ recvQ[c] \in Seq(Queued)
    BY ClientTypesOf DEF IInv
  <2>3. PICK b \in Statuses : Step(Head(recvQ[c]), form[c].status, b)
    BY <2>1, <2>2, ChainOfHead
  <2> QED BY <2>3 DEF Step
<1> QED BY <1>1, Invariant, PTL

\* While the form waits for its threads to end, none is in a receive that nothing
\* ends, but for the client whose user connected again after a notice of an
\* earlier connection came late, and whose receiver is in a socket that the form
\* does not know any more.
THEOREM NobodyBlocked == Spec => []Unblocked
<1>1. IInv => Unblocked
  BY DEF IInv, Held, Shown, Behind, Unblocked, FormAt, Receiving, ReceivingOld
<1> QED BY <1>1, Invariant, PTL
=============================================================================
