------------------------------ MODULE RecvRing ------------------------------
(***************************************************************************)
(* The receive ring of one connection and how DoRecv cuts the stream into  *)
(* packets.  WSARecv always has RecvSize bytes of the ring at m_pCurMark.  *)
(* DoRecv posts a message for each whole packet, pointing into the ring,   *)
(* and PostRecv moves the mark, and the rest of a packet at a wrap.  A     *)
(* logic thread copies the packets out later.  SetUsedBufferSize is never  *)
(* called on this ring: its used size is always 0, ReleaseBuffer leaves it *)
(* so and ForwardMark never finds the ring full, however much of it waits  *)
(* to be copied.                                                           *)
(*                                                                         *)
(* A byte is the number of its packet and its place there, which is all    *)
(* the length field and the copy can tell apart.  A packet of length 0     *)
(* stands for all wrong ones, a length field and no more.  Session models  *)
(* how the connection ends after one.  A packet may be as long as the ring *)
(* (IOCPServer.cpp:695): where PostRecv would move a rest onto itself, or  *)
(* WSARecv would have less than RecvSize bytes of the ring behind it, what *)
(* the code does is undefined, and nothing more is modelled.               *)
(***************************************************************************)
EXTENDS Naturals, Sequences

CONSTANTS
  RingSize,     \* m_RingBufferSize
  RecvSize,     \* m_RecvBufSize
  Lengths,      \* lengths of packets that are right
  FirstBytes,   \* a receive that begins a packet yields at least so much of it
  MaxPackets    \* bound on the packets sent

LengthField == 2    \* PACKET_SIZE_LENGTH

ASSUME RecvAssumption ==
  /\ RingSize \in Nat /\ RecvSize \in Nat \ {0}
  /\ 2 * RecvSize <= RingSize
  /\ Lengths \subseteq LengthField..RingSize
  /\ FirstBytes \in 1..RecvSize
  /\ MaxPackets \in Nat

VARIABLES
  sent,         \* the lengths of the packets sent, 0 of a wrong one
  wire,         \* the bytes sent and not received
  ring,         \* the byte at each offset of the ring
  cur,          \* m_pCurMark: where WSARecv writes
  remain,       \* OverlappedExRemainByte, then remainByte
  next,         \* pNext
  pc,           \* where the worker is, or that WSARecv is pending
  msgs,         \* OP_RECV_PACKET messages, queued on m_hLogicIOCP
  held,         \* the message a logic thread has dequeued, if any
  copied,       \* how many packets were copied out
  out,          \* the packet copied last
  uncopied,     \* how many bytes were received and not copied out
  crowded       \* a receive was posted while too much waited to be copied

vars == <<sent, wire, ring, cur, remain, next, pc, msgs, held, copied, out, uncopied,
          crowded>>

Offsets == 0..(RingSize - 1)
Begin == 0
End == RingSize - 1
NoByte == <<0, 0>>
Nothing == [at |-> 0, len |-> 0]

Bytes(n, len) == [i \in 1..len |-> <<n, i>>]

Init ==
  /\ sent = << >> /\ wire = << >>
  /\ ring = [o \in Offsets |-> NoByte]
  /\ cur = Begin /\ remain = 0 /\ next = Begin
  /\ pc = "recv"
  /\ msgs = << >> /\ held = Nothing
  /\ copied = 0 /\ out = << >>
  /\ uncopied = 0 /\ crowded = FALSE

Size(len) == IF len = 0 THEN LengthField ELSE len

ClientSends(len) ==
  LET n == Len(sent) + 1 IN
  /\ n <= MaxPackets
  /\ sent' = Append(sent, len)
  /\ wire' = wire \o Bytes(n, Size(len))
  /\ UNCHANGED <<ring, cur, remain, next, pc, msgs, held, copied, out, uncopied, crowded>>

\* WSARecv completes with k bytes, after those that remained before m_pCurMark.
Receive(k) ==
  /\ pc = "recv"
  /\ k <= RecvSize /\ k <= Len(wire)
  /\ remain = 0 => k >= FirstBytes
  /\ ring' = [o \in Offsets |-> IF o \in cur..(cur + k - 1) THEN wire[o - cur + 1] ELSE ring[o]]
  /\ wire' = SubSeq(wire, k + 1, Len(wire))
  /\ next' = cur - remain
  /\ remain' = remain + k
  /\ pc' = "first"
  /\ uncopied' = uncopied + k
  /\ UNCHANGED <<sent, cur, msgs, held, copied, out, crowded>>

Splitting == pc \in {"first", "split"}

\* What the length field at an offset says; other bytes say a wrong one.
LengthAt(o) ==
  LET n == ring[o][1]
  IN IF n \in DOMAIN sent /\ ring[o] = <<n, 1>> /\ ring[o + 1] = <<n, 2>> THEN sent[n] ELSE 0

Right(len) == len > 0 /\ len <= RingSize

\* "Arrived Wrong Packet": also when the first piece is less than its length.
Wrong ==
  /\ Splitting
  /\ \/ pc = "first" /\ remain < LengthField
     \/ remain >= LengthField /\ ~Right(LengthAt(next))
  /\ pc' = "closed"
  /\ UNCHANGED <<sent, wire, ring, cur, remain, next, msgs, held, copied, out, uncopied, crowded>>

\* Mutant: a packet that ends with the receive waits for a byte more.
WholeLonger == remain >= LengthField /\ Right(LengthAt(next)) /\ LengthAt(next) < remain

Whole == remain >= LengthField /\ Right(LengthAt(next)) /\ LengthAt(next) <= remain

\* Mutant: the packet is taken to be where the receive began.
PostAtMark ==
  /\ Splitting /\ Whole
  /\ msgs' = Append(msgs, [at |-> cur, len |-> LengthAt(next)])
  /\ next' = next + LengthAt(next)
  /\ remain' = remain - LengthAt(next)
  /\ pc' = "split"
  /\ UNCHANGED <<sent, wire, ring, cur, held, copied, out, uncopied, crowded>>

\* AllocMsg and PostLogicMsg of a whole packet.
Post ==
  /\ Splitting /\ Whole
  /\ msgs' = Append(msgs, [at |-> next, len |-> LengthAt(next)])
  /\ next' = next + LengthAt(next)
  /\ remain' = remain - LengthAt(next)
  /\ pc' = "split"
  /\ UNCHANGED <<sent, wire, ring, cur, held, copied, out, uncopied, crowded>>

\* No message, or PostLogicMsg fails: DoRecv returns without a PostRecv.
PostFails ==
  /\ Splitting /\ Whole
  /\ pc' = "stalled"
  /\ UNCHANGED <<sent, wire, ring, cur, remain, next, msgs, held, copied, out, uncopied, crowded>>

\* What remains is no whole packet yet.
Incomplete ==
  \/ pc = "split" /\ remain < LengthField
  \/ remain >= LengthField /\ Right(LengthAt(next)) /\ ~Whole

SplitDone ==
  /\ Splitting /\ Incomplete
  /\ pc' = "post"
  /\ UNCHANGED <<sent, wire, ring, cur, remain, next, msgs, held, copied, out, uncopied, crowded>>

\* PostRecv's moveMark: how much the last WSARecv received.
MoveMark == remain + next - cur

\* The messages not copied yet, the one held first.
Waiting == (IF held = Nothing THEN << >> ELSE <<held>>) \o msgs

\* With what waits, another two receives and the longest rest of a packet, the
\* ring is fuller than full: a wrap may come round to what waits.
Tight ==
  /\ Waiting # << >>
  /\ \E len \in Lengths \cup {LengthField} : uncopied + 2 * RecvSize + len - 1 > RingSize

\* The next WSARecv, where the mark is, fits in the ring.
Posts(fits) ==
  /\ pc' = IF fits THEN "recv" ELSE "undefined"
  /\ crowded' = (crowded \/ Tight)
  /\ UNCHANGED <<sent, wire, remain, next, msgs, held, copied, out, uncopied>>

\* The rest of a packet is moved to the beginning.
MoveRest ==
  /\ ring' = [o \in Offsets |-> IF o < remain THEN ring[next + o] ELSE ring[o]]
  /\ cur' = Begin + remain

\* It does not overlap itself and leaves room for a receive.
RestFits == remain <= next /\ remain + RecvSize <= RingSize

Ahead == cur' = cur + MoveMark /\ UNCHANGED ring

\* Mutant: room for what was received is enough, none is kept for what will be.
PostRecvTight ==
  /\ pc = "post"
  /\ \/ End - cur >= MoveMark /\ Ahead /\ Posts(cur' + RecvSize <= RingSize)
     \/ End - cur < MoveMark /\ MoveRest /\ Posts(RestFits)

\* Mutant: the rest is not moved along at a wrap.
PostRecvForgets ==
  /\ pc = "post"
  /\ \/ End - cur >= RecvSize + MoveMark /\ Ahead /\ Posts(TRUE)
     \/ End - cur < RecvSize + MoveMark /\ cur' = Begin + remain /\ UNCHANGED ring /\ Posts(RestFits)

\* Mutant: every receive begins at the beginning of the ring.
PostRecvRewinds ==
  /\ pc = "post"
  /\ MoveRest /\ Posts(RestFits)

\* PostRecv: ForwardMark, where the next WSARecv fits, or at the beginning
\* after the rest of the packet.
PostRecv ==
  /\ pc = "post"
  /\ \/ End - cur >= RecvSize + MoveMark /\ Ahead /\ Posts(TRUE)
     \/ End - cur < RecvSize + MoveMark /\ MoveRest /\ Posts(RestFits)

\* ProcessNetworkMessages dequeues, DoPostRecvPacket copies.
Dequeue ==
  /\ held = Nothing /\ msgs # << >>
  /\ held' = Head(msgs)
  /\ msgs' = Tail(msgs)
  /\ UNCHANGED <<sent, wire, ring, cur, remain, next, pc, copied, out, uncopied, crowded>>

Copy ==
  /\ held # Nothing
  /\ out' = [i \in 1..held.len |-> ring[held.at + i - 1]]
  /\ copied' = copied + 1
  /\ held' = Nothing
  /\ uncopied' = uncopied - held.len
  /\ UNCHANGED <<sent, wire, ring, cur, remain, next, pc, msgs, crowded>>

Kernel == \E k \in 1..RecvSize : Receive(k)
Worker == Wrong \/ Post \/ PostFails \/ SplitDone \/ PostRecv
Logic == Dequeue \/ Copy

Next == (\E len \in Lengths \cup {0} : ClientSends(len)) \/ Kernel \/ Worker \/ Logic

Spec == Init /\ [][Next]_vars

\* What was sent arrives, and the threads run; clients owe nothing.
Fairness == WF_vars(Kernel) /\ WF_vars(Worker) /\ WF_vars(Logic)

FairSpec == Spec /\ Fairness

----------------------------------------------------------------------------
(* Properties.                                                             *)

ByteType == {NoByte} \cup ((1..MaxPackets) \X (1..RingSize))
MsgType == [at: Offsets, len: 0..RingSize]

\* The longest rest of a packet leaves room at the beginning of the ring for a
\* receive, and the end of the ring for itself.
PacketsFit == \A len \in Lengths \cup {LengthField} : 2 * (len - 1) + RecvSize <= RingSize

\* Type invariant: what WSARecv may write lies in the ring, if packets fit it.
TypeOK ==
  /\ sent \in Seq(Lengths \cup {0})
  /\ wire \in Seq(ByteType)
  /\ ring \in [Offsets -> ByteType]
  /\ cur \in Offsets
  /\ remain \in 0..RingSize /\ next \in 0..RingSize
  /\ pc \in {"recv", "first", "split", "post", "closed", "stalled", "undefined"}
  /\ pc = "recv" => cur + RecvSize <= RingSize
  /\ PacketsFit => pc # "undefined"
  /\ msgs \in Seq(MsgType) /\ held \in MsgType
  /\ copied \in 0..MaxPackets
  /\ out \in Seq(ByteType)
  /\ crowded \in BOOLEAN

\* Bytes that WSARecv may write now, or the rest it was moved to.
Writable == cur..(cur + RecvSize - 1)

\* A packet posted stays as it was received until the application has copied
\* it, and WSARecv never has its bytes to write to.
Undamaged ==
  \A i \in DOMAIN Waiting :
    LET m == Waiting[i]
    IN /\ \A j \in 1..m.len : ring[m.at + j - 1] = <<copied + i, j>>
       /\ pc = "recv" => (m.at..(m.at + m.len - 1)) \cap Writable = {}

\* Nothing but the pace of the logic thread keeps the ring from coming round
\* too soon: as long as no receive was posted with more waiting than leaves room
\* for two receives and a rest, what was posted is undamaged.
Intact == crowded \/ Undamaged

\* However the stream is cut, no right packet is taken for a wrong one: "the
\* data has not been received yet" is only a reason to wait for more.  The
\* connection is closed for the first wrong packet, once all before are posted.
Framed ==
  pc = "closed" =>
    LET n == copied + Len(Waiting) + 1
    IN n \in DOMAIN sent /\ sent[n] = 0 /\ \A m \in 1..(n - 1) : sent[m] # 0

\* The packets sent before any wrong one.
Rightful == {n \in DOMAIN sent : \A m \in 1..n : sent[m] # 0}

\* The application is handed the packets the client sent before any wrong one,
\* whole, once each and in order, until the ring was crowded.
Channel == INSTANCE PacketChannel WITH
  Packets <- {Bytes(n, len) : n \in 1..MaxPackets, len \in Lengths},
  line <- [i \in {n - copied : n \in Rightful \ (1..copied)} |-> Bytes(copied + i, sent[copied + i])],
  out <- out, lossy <- crowded

Implements == Channel!Spec

\* Every right packet is handed over, without another one being sent (clients
\* that keep within MaxPackets stop), unless one before could not be posted:
\* then the connection receives no more.
HandedOver == []<>(pc = "stalled" \/ \A n \in Rightful : n <= copied)
=============================================================================
