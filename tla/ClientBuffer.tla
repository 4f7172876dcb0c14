---------------------------- MODULE ClientBuffer ----------------------------
(***************************************************************************)
(* How the client cuts what it receives into packets: the loop of          *)
(* NetworkReadProcess over PacketBufferManager, on one connection.  Only   *)
(* the thread that receives uses the buffer.  A byte is the number of its  *)
(* packet and its place there, as in RecvRing.                             *)
(*                                                                         *)
(* The program has a buffer of 80960 bytes, packets of 1024 at most and    *)
(* receives of up to 4096: a receive longer than what is left is dropped.  *)
(* The bytes that follow it are then read as if they were the next ones.   *)
(* What sizes they say depends on their values: that is not modelled.      *)
(***************************************************************************)
EXTENDS Naturals, Sequences

CONSTANTS
  BufferSize, HeaderSize, MaxPacketSize,   \* the arguments of Init
  ReadSize,      \* what one Receive returns at most
  PacketSizes,   \* sizes of the packets the server sends
  MaxPosted      \* bound on the packets sent

\* What Init asks for; ToInt16 reads two bytes of a header.
ASSUME BufferAssumption ==
  /\ BufferSize \in Nat /\ HeaderSize \in Nat \ {0, 1} /\ MaxPacketSize \in Nat \ {0}
  /\ BufferSize >= 2 * MaxPacketSize
  /\ ReadSize \in Nat \ {0}
  /\ PacketSizes \subseteq HeaderSize..MaxPacketSize
  /\ MaxPosted \in Nat

VARIABLES
  posted,     \* the sizes of the packets sent
  stream,     \* the bytes sent and not received
  chunk,      \* recvData
  data,       \* PacketData
  readPos, writePos,
  phase,      \* where the thread is in its loop
  queued,     \* how many packets it has queued
  packet,     \* the one queued last
  dropped     \* Write had no room for a receive

bufferVars ==
  <<posted, stream, chunk, data, readPos, writePos, phase, queued, packet, dropped>>

Positions == 0..(BufferSize - 1)
Packet(n) == [i \in 1..posted[n] |-> <<n, i>>]

BufferInit ==
  /\ posted = << >> /\ stream = << >> /\ chunk = << >>
  /\ data = [p \in Positions |-> <<0, 0>>]
  /\ readPos = 0 /\ writePos = 0
  /\ phase = "receive"
  /\ queued = 0 /\ packet = << >>
  /\ dropped = FALSE

ServerSends(size) ==
  LET n == Len(posted) + 1 IN
  /\ n <= MaxPosted
  /\ posted' = Append(posted, size)
  /\ stream' = stream \o [i \in 1..size |-> <<n, i>>]
  /\ UNCHANGED <<chunk, data, readPos, writePos, phase, queued, packet, dropped>>

Receives(k) ==
  /\ phase = "receive"
  /\ k <= ReadSize /\ k <= Len(stream)
  /\ chunk' = SubSeq(stream, 1, k)
  /\ stream' = SubSeq(stream, k + 1, Len(stream))
  /\ phase' = "write"
  /\ UNCHANGED <<posted, data, readPos, writePos, queued, packet, dropped>>

\* Mutant: the last of the bytes not read is left behind.
RelocateShort(d, from, to) ==
  /\ data' = [p \in Positions |-> IF p < to - from - 1 THEN d[from + p] ELSE d[p]]
  /\ readPos' = 0 /\ writePos' = to - from

\* BufferRelocate: what lies from one position to another goes to the front.
Relocate(d, from, to) ==
  /\ data' = [p \in Positions |-> IF p < to - from THEN d[from + p] ELSE d[p]]
  /\ readPos' = 0 /\ writePos' = to - from

\* Mutant: the buffer is relocated only when it is full.
NextFreeByte(end) == BufferSize - end >= 1
NextFree(end) == BufferSize - end >= MaxPacketSize

Written == [p \in Positions |->
  IF p \in writePos..(writePos + Len(chunk) - 1) THEN chunk[p - writePos + 1] ELSE data[p]]

\* The caller ignores that Write returns false.
Write ==
  /\ phase = "write"
  /\ LET end == writePos + Len(chunk) IN
     \/ /\ end > BufferSize
        /\ phase' = "lost" /\ dropped' = TRUE
        /\ UNCHANGED <<chunk, data, readPos, writePos>>
     \/ /\ end <= BufferSize
        /\ phase' = "read" /\ chunk' = << >>
        /\ \/ NextFree(end) /\ data' = Written /\ writePos' = end /\ readPos' = readPos
           \/ ~NextFree(end) /\ Relocate(Written, readPos, end)
        /\ UNCHANGED dropped
  /\ UNCHANGED <<posted, stream, queued, packet>>

Unread == writePos - readPos

\* ToInt16 at ReadPos; other bytes than a packet's first ones say 0.
SizeRead ==
  LET n == data[readPos][1]
  IN IF n \in DOMAIN posted /\ data[readPos] = <<n, 1>> /\ data[readPos + 1] = <<n, 2>>
     THEN posted[n] ELSE 0

\* Mutant: a header and no more is taken for less than a packet.
ReadableLonger == Unread > HeaderSize /\ SizeRead \in 1..Unread
Readable == Unread >= HeaderSize /\ SizeRead \in 1..Unread

\* Read returns a packet, which is copied and queued.
Read ==
  /\ phase = "read" /\ Readable
  /\ packet' = SubSeq([i \in 1..BufferSize |-> data[i - 1]], readPos + 1, readPos + SizeRead)
  /\ readPos' = readPos + SizeRead
  /\ queued' = queued + 1
  /\ UNCHANGED <<posted, stream, chunk, data, writePos, phase, dropped>>

NothingToRead ==
  /\ phase = "read" /\ ~Readable
  /\ phase' = "receive"
  /\ UNCHANGED <<posted, stream, chunk, data, readPos, writePos, queued, packet, dropped>>

Reader == (\E k \in 1..ReadSize : Receives(k)) \/ Write \/ Read \/ NothingToRead

BufferNext == Reader \/ \E size \in PacketSizes : ServerSends(size)

BufferSpec == BufferInit /\ [][BufferNext]_bufferVars

\* The thread runs, and what was sent arrives.
BufferFairness == WF_bufferVars(Reader)

----------------------------------------------------------------------------
(* Properties.                                                             *)

\* The UI is handed the packets the server sent, whole, once each and in their
\* order, wherever the stream is cut and the buffer relocated, until a receive
\* was dropped.
Stream == INSTANCE PacketChannel WITH
  Packets <- {[i \in 1..size |-> <<n, i>>] : n \in 1..MaxPosted, size \in PacketSizes},
  line <- [i \in 1..(Len(posted) - queued) |-> Packet(queued + i)],
  out <- packet, lossy <- dropped

ClientImplements == Stream!Spec

\* No packet is waited for in vain (a server that keeps within MaxPosted stops):
\* what a receive ends with is read as soon as it is whole.
ClientReads == []<>(dropped \/ queued = Len(posted))

\* The buffer holds two receives besides the rest of a packet, as it does in
\* the program: a relocation leaves room for the longest receive.
TwoReceives == BufferSize >= 2 * ReadSize + MaxPacketSize - 1

\* Then the room that NextFree keeps is enough for what is no longer than a
\* packet, also for bytes that are unread since several receives.
DroppedIsLong == TwoReceives => (dropped => Len(chunk) > MaxPacketSize)
=============================================================================
