------------------------------ MODULE SendRing ------------------------------
(***************************************************************************)
(* The send ring of one connection: RingBuffer as SendPacket, PostSend and *)
(* DoSend use it.  Handlers reserve room with ForwardMark, copy a packet   *)
(* into it and count it with SetUsedBufferSize; whoever claims IsSendable  *)
(* takes a stretch of it with GetBuffer and hands that to WSASend, whose   *)
(* completion releases it.  The ring is offsets: what a byte is does not   *)
(* matter, where it lies and whether it was copied does.  Session models   *)
(* what closing the socket leads to; here sends fail from then on.         *)
(***************************************************************************)
EXTENDS Integers, Sequences, FiniteSets

CONSTANTS
  Handlers,     \* threads that call SendPacket
  Workers,      \* threads that run DoSend
  RingSize,     \* m_RingBufferSize
  SendSize,     \* m_SendBufSize: WSASend is given no more than this
  MaxPacket     \* the longest packet

ASSUME RingAssumption ==
  /\ Handlers \cap Workers = {}
  /\ IsFiniteSet(Handlers)
  /\ SendSize \in Nat \ {0}
  /\ MaxPacket \in Nat \ {0}
  /\ RingSize \in Nat /\ MaxPacket < RingSize

VARIABLES
  used,         \* m_UsedBufferSize
  cur,          \* m_pCurMark, as an offset: where the next packet goes
  got,          \* m_pGettedBufferMark: where the next stretch to send begins
  last,         \* m_pLastMoveMark: where the stretch before the wrap ends
  sendable,     \* IsSendable
  open,         \* the socket is open and the client is there
  wire,         \* what WSASend has: the offset and length, 0 when nothing
  pending,      \* where each byte not released lies, in the order of the packets
  th,           \* where each thread is, and the length of its packet
  crowded       \* history: a packet did not fit before the oldest byte of pending

vars == <<used, cur, got, last, sendable, open, wire, pending, th, crowded>>

Threads == Handlers \cup Workers
Begin == 0
End == RingSize - 1
NoSend == [at |-> 0, len |-> 0]

LesserOf(a, b) == IF a < b THEN a ELSE b

Init ==
  /\ used = 0
  /\ cur = Begin
  /\ got = Begin
  /\ last = End
  /\ sendable = TRUE
  /\ open = TRUE
  /\ wire = NoSend
  /\ pending = << >>
  /\ th = [t \in Threads |-> [pc |-> "idle", len |-> 0]]
  /\ crowded = FALSE

At(t, pc) == th[t].pc = pc
Goto(t, pc) == th' = [th EXCEPT ![t].pc = pc]

\* The bytes of a packet reserved by h at an offset, not copied yet.
Reserved(h, at, len) == [i \in 1..len |-> [at |-> at + i - 1, by |-> h, copied |-> FALSE]]

\* Mutant: the size of the ring is taken for the offset of its last byte.
ForwardMarkPastEnd(h, len) ==
  IF RingSize - cur >= len
  THEN /\ cur' = cur + len
       /\ pending' = pending \o Reserved(h, cur, len)
       /\ UNCHANGED last
  ELSE /\ last' = cur
       /\ cur' = Begin + len
       /\ pending' = pending \o Reserved(h, Begin, len)

\* Mutant: the end of the stretch before the wrap is not kept.
ForwardMarkForgets(h, len) ==
  IF End - cur >= len
  THEN /\ cur' = cur + len
       /\ pending' = pending \o Reserved(h, cur, len)
       /\ UNCHANGED last
  ELSE /\ cur' = Begin + len
       /\ pending' = pending \o Reserved(h, Begin, len)
       /\ UNCHANGED last

\* ForwardMark, where the packet fits: at the mark, or at the beginning.
ForwardMark(h, len) ==
  IF End - cur >= len
  THEN /\ cur' = cur + len
       /\ pending' = pending \o Reserved(h, cur, len)
       /\ UNCHANGED last
  ELSE /\ last' = cur
       /\ cur' = Begin + len
       /\ pending' = pending \o Reserved(h, Begin, len)

\* PrepareSendPacket where the ring has room by the sizes, and the sizes are all
\* ForwardMark compares.  The marks leave less: behind a wrap, what is not sent
\* and the packet have to lie below the end of the stretch before it.
Prepare(h) ==
  /\ At(h, "idle")
  /\ \E len \in 1..MaxPacket :
       /\ used + len <= RingSize
       /\ ForwardMark(h, len)
       /\ th' = [th EXCEPT ![h] = [pc |-> "commit", len |-> len]]
       /\ crowded' = (crowded \/ Len(pending) + len > last')
  /\ UNCHANGED <<used, got, sendable, open, wire>>

\* PrepareSendPacket where it has none: "RingSendBuffer Full", and the
\* connection is closed.
Full(h) ==
  /\ At(h, "idle")
  /\ \E len \in 1..MaxPacket : used + len > RingSize
  /\ open' = FALSE
  /\ UNCHANGED <<used, cur, got, last, sendable, wire, pending, th, crowded>>

\* The client hangs up, or the connection is closed on another account.
HangUp ==
  /\ open' = FALSE
  /\ UNCHANGED <<used, cur, got, last, sendable, wire, pending, th, crowded>>

\* Mutant: one byte too few is counted.
CommitLess(h) ==
  /\ At(h, "commit")
  /\ used' = used + th[h].len - 1
  /\ pending' = [i \in DOMAIN pending |->
                   IF pending[i].by = h THEN [pending[i] EXCEPT !.copied = TRUE] ELSE pending[i]]
  /\ th' = [th EXCEPT ![h] = [pc |-> "claim", len |-> 0]]
  /\ UNCHANGED <<cur, got, last, sendable, open, wire, crowded>>

\* CopyMemory, then SetUsedBufferSize of PostSend: others see the second.
Commit(h) ==
  /\ At(h, "commit")
  /\ used' = used + th[h].len
  /\ pending' = [i \in DOMAIN pending |->
                   IF pending[i].by = h THEN [pending[i] EXCEPT !.copied = TRUE] ELSE pending[i]]
  /\ th' = [th EXCEPT ![h] = [pc |-> "claim", len |-> 0]]
  /\ UNCHANGED <<cur, got, last, sendable, open, wire, crowded>>

\* Mutant: IsSendable is cleared without a test.
ClaimUntested(t) ==
  /\ At(t, "claim")
  /\ sendable' = FALSE
  /\ Goto(t, "take")
  /\ UNCHANGED <<used, cur, got, last, open, wire, pending, crowded>>

\* PostSend goes on with the test-and-set of IsSendable.
Claim(t) ==
  /\ At(t, "claim")
  /\ IF sendable
     THEN sendable' = FALSE /\ Goto(t, "take")
     ELSE Goto(t, "idle") /\ UNCHANGED sendable
  /\ UNCHANGED <<used, cur, got, last, open, wire, pending, crowded>>

\* Mutant: the end of the stretch before the wrap is kept when it is passed.
TakeKeepsLast(t) ==
  LET wrapped == last = got
      from == IF wrapped THEN Begin ELSE got
      to == IF wrapped THEN End ELSE last
      len == LesserOf(LesserOf(used, SendSize), to - from)
  IN /\ At(t, "take")
     /\ UNCHANGED last
     /\ IF used = 0
        THEN got' = from /\ Goto(t, "unclaim") /\ UNCHANGED <<open, wire>>
        ELSE /\ got' = from + len
             /\ Goto(t, "idle")
             /\ IF open /\ len > 0
                THEN wire' = [at |-> from, len |-> len] /\ UNCHANGED open
                ELSE open' = FALSE /\ UNCHANGED wire
     /\ UNCHANGED <<used, cur, sendable, pending, crowded>>

\* GetBuffer, which begins again at the end of the stretch before the wrap, and
\* WSASend.  A length below 0, which two wraps leave, is one of 4 GB to WSASend:
\* it fails as on a closed socket, the connection is closed, and IsSendable
\* stays clear.
Take(t) ==
  LET wrapped == last = got
      from == IF wrapped THEN Begin ELSE got
      to == IF wrapped THEN End ELSE last
      len == LesserOf(LesserOf(used, SendSize), to - from)
  IN /\ At(t, "take")
     /\ last' = to
     /\ IF used = 0
        THEN got' = from /\ Goto(t, "unclaim") /\ UNCHANGED <<open, wire>>
        ELSE /\ got' = from + len
             /\ Goto(t, "idle")
             /\ IF open /\ len > 0
                THEN wire' = [at |-> from, len |-> len] /\ UNCHANGED open
                ELSE open' = FALSE /\ UNCHANGED wire
     /\ UNCHANGED <<used, cur, sendable, pending, crowded>>

Unclaim(t) ==
  /\ At(t, "unclaim")
  /\ sendable' = TRUE
  /\ Goto(t, "idle")
  /\ UNCHANGED <<used, cur, got, last, open, wire, pending, crowded>>

\* DoSend, once the whole stretch was sent; ReleaseBuffer.  A part sent only
\* sends the rest of the same stretch.
Release(w) ==
  /\ At(w, "idle")
  /\ wire.len > 0
  /\ used' = IF wire.len > used THEN 0 ELSE used - wire.len
  /\ pending' = SubSeq(pending, wire.len + 1, Len(pending))
  /\ wire' = NoSend
  /\ Goto(w, "setSendable")
  /\ UNCHANGED <<cur, got, last, sendable, open, crowded>>

SetSendable(w) ==
  /\ At(w, "setSendable")
  /\ sendable' = TRUE
  /\ Goto(w, "claim")
  /\ UNCHANGED <<used, cur, got, last, open, wire, pending, crowded>>

\* The send is completed with an error after the close: nothing is released, and
\* IsSendable stays clear.
SendFails(w) ==
  /\ At(w, "idle")
  /\ wire.len > 0
  /\ ~open
  /\ wire' = NoSend
  /\ UNCHANGED <<used, cur, got, last, sendable, open, pending, th, crowded>>

Next ==
  \/ \E h \in Handlers : Prepare(h) \/ Full(h) \/ Commit(h)
  \/ \E w \in Workers : Release(w) \/ SetSendable(w) \/ SendFails(w)
  \/ \E t \in Threads : Claim(t) \/ Take(t) \/ Unclaim(t)
  \/ HangUp

Spec == Init /\ [][Next]_vars

----------------------------------------------------------------------------
(* Properties.                                                             *)

Offsets == Begin..End

\* Type invariant: no mark leaves the ring, and the used size is never negative.
TypeOK ==
  /\ used \in Nat
  /\ cur \in Offsets /\ got \in Offsets /\ last \in Offsets
  /\ sendable \in BOOLEAN /\ open \in BOOLEAN /\ crowded \in BOOLEAN
  /\ wire \in [at: Offsets, len: 0..SendSize]
  /\ pending \in Seq([at: Offsets, by: Handlers, copied: BOOLEAN])
  /\ th \in [Threads -> [pc: {"idle", "commit", "claim", "take", "unclaim", "setSendable"},
                         len: 0..MaxPacket]]

Apart == \A i, j \in DOMAIN pending : i < j => pending[i].at # pending[j].at

\* No packet is written over bytes that were not sent yet, nor over bytes
\* WSASend is reading, until one is reserved that does not fit before the
\* oldest of them: the wrap, the release and the two marks make no other way.
NoOverwrite == open /\ ~crowded => Apart

\* WSASend is given the bytes that come next, in the order of the packets,
\* across every wrap and however handlers and workers interleave.
InOrder ==
  open /\ ~crowded =>
    /\ wire.len <= Len(pending)
    /\ \A i \in 1..wire.len : pending[i].at = wire.at + i - 1

\* WSASend is given no byte that a handler is still copying, where the handlers
\* run one at a time.
SentCopied == \A i \in DOMAIN pending : i <= wire.len => pending[i].copied

Claims(t) == At(t, "take") \/ At(t, "unclaim") \/ At(t, "setSendable")

\* The sending side has one owner: while IsSendable is clear, one thread or one
\* WSASend of at least a byte (a send of none would be taken for the end of the
\* connection), and no one while it is set.  A close leaves it without one.
OneSender ==
  /\ \A s, t \in Threads : Claims(s) /\ Claims(t) => s = t
  /\ sendable => wire.len = 0 /\ ~\E t \in Threads : Claims(t)
  /\ open /\ ~sendable => wire.len > 0 \/ \E t \in Threads : Claims(t)
  /\ wire.len > 0 => ~\E t \in Threads : Claims(t)

\* The bytes of the packets reserved and not counted yet.
InHand == {p \in Handlers \X (1..MaxPacket) : At(p[1], "commit") /\ p[2] <= th[p[1]].len}

\* m_UsedBufferSize never drifts: with what the handlers have in hand it is the
\* number of bytes not released, however many handlers there are.
UsedExact == used + Cardinality(InHand) = Len(pending)

\* Bytes in the ring are being sent, or a thread is about to look: "to check
\* whether packets remain".
NothingUnsent == open /\ used > 0 /\ sendable => \E t \in Threads : At(t, "claim")
=============================================================================
