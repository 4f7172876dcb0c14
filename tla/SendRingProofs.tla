--------------------------- MODULE SendRingProofs ---------------------------
(***************************************************************************)
(* Proofs about SendRing, for a ring, sends and packets of any size and    *)
(* any number of handlers and workers, whatever they send.                 *)
(***************************************************************************)
EXTENDS SendRing, TLAPS, FiniteSetTheorems, SequenceTheorems

----------------------------------------------------------------------------
(* The inductive invariant.                                                *)

\* Where the bytes not released begin.
Start == IF wire.len > 0 THEN wire.at ELSE got

\* The marks have not passed the end: the bytes lie between Start and cur.
Straight ==
  /\ last = End
  /\ Start <= got /\ got <= cur
  /\ Len(pending) = cur - Start
  /\ \A i \in DOMAIN pending : pending[i].at = Start + i - 1

\* cur has wrapped and got has not: the bytes lie from Start to last, and then
\* from the beginning to cur.
Wrapped ==
  /\ Start <= got /\ got <= last /\ cur <= Start
  /\ Len(pending) = (last - Start) + cur
  /\ \A i \in DOMAIN pending :
       pending[i].at = IF i <= last - Start THEN Start + i - 1 ELSE i - (last - Start) - 1

\* All was sent up to the last offset, and only got has gone back.
Spent == last = End /\ cur = End /\ got = Begin /\ wire.len = 0 /\ pending = << >>

\* The bytes lie like that until a packet did not fit or the socket was closed.
Shape == open /\ ~crowded => Straight \/ Wrapped \/ Spent

\* The stretch WSASend has ends at got, and is counted.
OnWire ==
  /\ wire.len > 0 => got = wire.at + wire.len
  /\ wire.len <= used

\* The bytes counted and those the handlers have in hand are the ones not
\* released; workers reserve nothing.
Counted ==
  /\ UsedExact
  /\ \A w \in Workers : ~At(w, "commit")

IInv == TypeOK /\ OneSender /\ Shape /\ OnWire /\ Counted

----------------------------------------------------------------------------
(* The types, and what a change of the sequence of bytes does.             *)

Byte == [at: Offsets, by: Handlers, copied: BOOLEAN]
PCs == {"idle", "commit", "claim", "take", "unclaim", "setSendable"}

LEMMA Typed ==
  ASSUME TypeOK
  PROVE  /\ used \in Nat /\ open \in BOOLEAN /\ crowded \in BOOLEAN
         /\ cur \in Nat /\ got \in Nat /\ last \in Nat
         /\ cur <= End /\ got <= End /\ last <= End /\ End = RingSize - 1 /\ End \in Nat /\ End > 0
         /\ wire \in [at: Offsets, len: 0..SendSize] /\ wire.at \in Nat /\ wire.len \in Nat
         /\ pending \in Seq(Byte) /\ Len(pending) \in Nat /\ DOMAIN pending = 1..Len(pending)
         /\ th \in [Threads -> [pc: PCs, len: 0..MaxPacket]]
         /\ Start \in Nat
  BY RingAssumption DEF TypeOK, Offsets, Begin, End, Byte, PCs, Start

LEMMA ReservedFacts ==
  ASSUME NEW h \in Handlers, NEW len \in Nat, NEW at \in Nat, at + len <= End
  PROVE  /\ Reserved(h, at, len) \in Seq(Byte)
         /\ Len(Reserved(h, at, len)) = len
         /\ \A i \in 1..len : Reserved(h, at, len)[i] = [at |-> at + i - 1, by |-> h, copied |-> FALSE]
<1>0. End \in Int
  BY RingAssumption DEF End
<1>1. \A i \in 1..len : [at |-> at + i - 1, by |-> h, copied |-> FALSE] \in Byte
  BY <1>0 DEF Byte, Offsets, Begin
<1>2. Reserved(h, at, len) \in [1..len -> Byte]
  BY <1>1 DEF Reserved
<1>3. Reserved(h, at, len) \in Seq(Byte)
  BY <1>2, SeqDef
<1>4. DOMAIN Reserved(h, at, len) = 1..len
  BY DEF Reserved
<1>5. Len(Reserved(h, at, len)) = len
  BY <1>3, <1>4, LenProperties
<1> QED BY <1>3, <1>5 DEF Reserved

LEMMA ReservedAfter ==
  ASSUME TypeOK, NEW h \in Handlers, NEW len \in Nat, NEW at \in Nat, at + len <= End,
         pending' = pending \o Reserved(h, at, len)
  PROVE  /\ pending' \in Seq(Byte)
         /\ Len(pending') = Len(pending) + len
         /\ DOMAIN pending' = 1..(Len(pending) + len)
         /\ \A i \in 1..Len(pending) : pending'[i] = pending[i]
         /\ \A i \in (Len(pending) + 1)..(Len(pending) + len) :
              /\ pending'[i].at = at + (i - Len(pending)) - 1
              /\ pending'[i].by = h /\ pending'[i].copied = FALSE
<1> DEFINE r == Reserved(h, at, len)
<1>1. pending \in Seq(Byte) /\ Len(pending) \in Nat
  BY Typed
<1>2. /\ r \in Seq(Byte) /\ Len(r) = len
      /\ \A i \in 1..len : r[i] = [at |-> at + i - 1, by |-> h, copied |-> FALSE]
  BY ReservedFacts
<1> HIDE DEF r
<1>3. /\ pending \o r \in Seq(Byte) /\ Len(pending \o r) = Len(pending) + len
      /\ \A i \in 1..(Len(pending) + len) :
           (pending \o r)[i] = IF i <= Len(pending) THEN pending[i] ELSE r[i - Len(pending)]
  BY <1>1, <1>2, ConcatProperties
<1>4. pending' = pending \o r
  BY DEF r
<1>5. DOMAIN pending' = 1..(Len(pending) + len)
  BY <1>3, <1>4, LenProperties
<1>6. \A i \in (Len(pending) + 1)..(Len(pending) + len) :
        i - Len(pending) \in 1..len /\ pending'[i] = r[i - Len(pending)]
  BY <1>1, <1>3, <1>4
<1>7. \A i \in 1..Len(pending) : pending'[i] = pending[i]
  BY <1>1, <1>3, <1>4
<1> QED BY <1>2, <1>3, <1>4, <1>5, <1>6, <1>7

LEMMA ReleasedAfter ==
  ASSUME TypeOK, NEW n \in Nat, n <= Len(pending),
         pending' = SubSeq(pending, n + 1, Len(pending))
  PROVE  /\ pending' \in Seq(Byte)
         /\ Len(pending') = Len(pending) - n
         /\ DOMAIN pending' = 1..(Len(pending) - n)
         /\ \A i \in 1..(Len(pending) - n) : pending'[i] = pending[n + i]
<1>1. pending \in Seq(Byte) /\ Len(pending) \in Nat
  BY Typed
<1>2. \A i \in (n + 1)..Len(pending) : pending[i] \in Byte
  BY <1>1
<1>3. /\ pending' \in Seq(Byte)
      /\ Len(pending') = IF n + 1 <= Len(pending) THEN Len(pending) - (n + 1) + 1 ELSE 0
      /\ \A i \in 1..(Len(pending) - (n + 1) + 1) : pending'[i] = pending[n + 1 + i - 1]
  BY <1>1, <1>2, SubSeqProperties
<1>4. Len(pending') = Len(pending) - n
  BY <1>1, <1>3
<1>5. \A i \in 1..(Len(pending) - n) : n + 1 + i - 1 = n + i
  OBVIOUS
<1> QED BY <1>1, <1>3, <1>4, <1>5, LenProperties

----------------------------------------------------------------------------
(* The bytes in the hands of the handlers.                                 *)

LEMMA InHandFinite == ASSUME TypeOK PROVE IsFiniteSet(InHand) /\ Cardinality(InHand) \in Nat
<1>1. IsFiniteSet(Handlers) /\ IsFiniteSet(1..MaxPacket)
  BY RingAssumption, FS_Interval
<1>2. IsFiniteSet(Handlers \X (1..MaxPacket))
  BY <1>1, FS_Product
<1>3. InHand \in SUBSET (Handlers \X (1..MaxPacket))
  BY DEF InHand
<1>4. IsFiniteSet(InHand)
  BY <1>2, <1>3, FS_Subset
<1> QED BY <1>4, FS_CardinalityType

LEMMA OnePacket ==
  ASSUME NEW h, NEW len \in Nat
  PROVE  IsFiniteSet({h} \X (1..len)) /\ Cardinality({h} \X (1..len)) = len
<1>1. IsFiniteSet({h}) /\ Cardinality({h}) = 1
  BY FS_Singleton
<1>2. IsFiniteSet(1..len) /\ Cardinality(1..len) = len
  BY FS_Interval
<1> DEFINE hand == {h}
           places == 1..len
<1>3. IsFiniteSet(hand \X places) /\ Cardinality(hand \X places) = Cardinality(hand) * Cardinality(places)
  <2> HIDE DEF hand, places
  <2>1. IsFiniteSet(hand) /\ IsFiniteSet(places)
    BY <1>1, <1>2 DEF hand, places
  <2> QED BY ONLY <2>1, FS_Product, Zenon
<1>4. Cardinality(hand) * Cardinality(places) = len
  BY <1>1, <1>2
<1> QED BY Zenon, <1>3, <1>4

\* A handler takes a packet in hand.
LEMMA InHandMore ==
  ASSUME TypeOK, NEW h \in Handlers, NEW len \in 1..MaxPacket, ~At(h, "commit"),
         th' = [th EXCEPT ![h] = [pc |-> "commit", len |-> len]]
  PROVE  Cardinality(InHand') = Cardinality(InHand) + len
<1>0. th \in [Threads -> [pc: PCs, len: 0..MaxPacket]] /\ h \in Threads /\ MaxPacket \in Nat
  BY Typed, RingAssumption DEF Threads
<1>1. th'[h] = [pc |-> "commit", len |-> len] /\ \A t \in Threads \ {h} : th'[t] = th[t]
  BY <1>0
<1> DEFINE hand == {h} \X (1..len)
<1>2. InHand' = InHand \cup hand
  BY <1>0, <1>1 DEF InHand, At, Threads
<1>3. InHand \cap hand = {}
  BY DEF InHand
<1>4. IsFiniteSet(InHand) /\ Cardinality(InHand) \in Nat
  BY InHandFinite
<1>5. len \in Nat
  BY <1>0
<1>6. IsFiniteSet(hand) /\ Cardinality(hand) = len
  BY Zenon, <1>5, OnePacket
<1> HIDE DEF hand
<1>7. Cardinality(InHand \cap hand) = 0
  BY <1>3, FS_EmptySet
<1>8. Cardinality(InHand \cup hand) = Cardinality(InHand) + Cardinality(hand) - Cardinality(InHand \cap hand)
  BY ONLY <1>4, <1>6, FS_Union, Zenon
<1>9. Cardinality(InHand \cup hand) = Cardinality(InHand) + len
  BY <1>4, <1>5, <1>6, <1>7, <1>8
<1> QED BY <1>2, <1>9

\* A handler counts the packet it has in hand.
LEMMA InHandLess ==
  ASSUME TypeOK, NEW h \in Handlers, At(h, "commit"),
         th' = [th EXCEPT ![h] = [pc |-> "claim", len |-> 0]]
  PROVE  Cardinality(InHand') = Cardinality(InHand) - th[h].len
<1>0. th \in [Threads -> [pc: PCs, len: 0..MaxPacket]] /\ h \in Threads /\ MaxPacket \in Nat
  BY Typed, RingAssumption DEF Threads
<1>1. th'[h] = [pc |-> "claim", len |-> 0] /\ \A t \in Threads \ {h} : th'[t] = th[t]
  BY <1>0
<1> DEFINE hand == {h} \X (1..th[h].len)
<1>2. InHand' = InHand \ hand
  BY <1>0, <1>1 DEF InHand, At, Threads
<1>3. th[h].len \in 0..MaxPacket
  BY <1>0
<1>4. InHand \cap hand = hand
  BY <1>0, <1>3 DEF InHand
<1>5. IsFiniteSet(InHand) /\ Cardinality(InHand) \in Nat
  BY InHandFinite
<1>6. th[h].len \in Nat
  BY <1>0
<1>7. Cardinality(hand) = th[h].len
  BY Zenon, <1>6, OnePacket
<1> HIDE DEF hand
<1>8. Cardinality(InHand \ hand) = Cardinality(InHand) - Cardinality(InHand \cap hand)
  BY ONLY <1>5, FS_Difference, Zenon
<1> QED BY <1>2, <1>4, <1>7, <1>8

\* Other steps leave what is in hand.
LEMMA InHandSame ==
  ASSUME \A u \in Threads : (At(u, "commit")' <=> At(u, "commit")) /\ th'[u].len = th[u].len
  PROVE  InHand' = InHand
  BY DEF InHand, Threads

----------------------------------------------------------------------------
(* Every step keeps the invariant.                                         *)

LEMMA InitIInv == Init => IInv
<1> SUFFICES ASSUME Init PROVE IInv
  OBVIOUS
<1>1. TypeOK
  <2>1. NoSend \in [at: Offsets, len: 0..SendSize] /\ Begin \in Offsets /\ End \in Offsets
    BY RingAssumption DEF NoSend, Begin, End, Offsets
  <2>2. [t \in Threads |-> [pc |-> "idle", len |-> 0]] \in
          [Threads -> [pc: {"idle", "commit", "claim", "take", "unclaim", "setSendable"}, len: 0..MaxPacket]]
    BY RingAssumption
  <2> QED BY <2>1, <2>2, EmptySeq DEF Init, TypeOK
<1>2. OneSender /\ OnWire /\ (\A w \in Workers : ~At(w, "commit"))
  BY RingAssumption DEF Init, OneSender, OnWire, Claims, At, Threads, NoSend
<1>3. Shape
  BY RingAssumption, EmptySeq DEF Init, Shape, Straight, Start, NoSend, Begin, End
<1>4. UsedExact
  <2>1. InHand = {}
    BY DEF Init, InHand, At, Threads
  <2>2. Cardinality(InHand) = 0 /\ Len(pending) = 0 /\ used = 0
    BY <2>1, FS_EmptySet, EmptySeq DEF Init
  <2> QED BY <2>2 DEF UsedExact
<1> QED BY <1>1, <1>2, <1>3, <1>4 DEF IInv, Counted

\* A handler reserves room: behind the mark, or at the beginning if that is
\* free again; if it is not, the packet is one that does not fit.
LEMMA PrepareKeeps ==
  ASSUME IInv, NEW h \in Handlers, Prepare(h)
  PROVE  IInv'
<1> USE RingAssumption
<1>0. /\ used \in Nat /\ cur \in Nat /\ got \in Nat /\ last \in Nat
      /\ cur <= End /\ got <= End /\ last <= End /\ End = RingSize - 1 /\ End \in Nat
      /\ wire.at \in Nat /\ wire.len \in Nat
      /\ pending \in Seq(Byte) /\ Len(pending) \in Nat /\ DOMAIN pending = 1..Len(pending)
      /\ th \in [Threads -> [pc: PCs, len: 0..MaxPacket]]
      /\ Start \in Nat /\ h \in Threads
  BY Typed DEF IInv, Threads
<1>1. PICK len \in 1..MaxPacket :
        /\ ForwardMark(h, len)
        /\ th' = [th EXCEPT ![h] = [pc |-> "commit", len |-> len]]
        /\ crowded' = (crowded \/ Len(pending) + len > last')
  BY DEF Prepare
<1>2. UNCHANGED <<used, got, sendable, open, wire>> /\ th[h].pc = "idle"
  BY DEF Prepare, At
<1>3. Start' = Start
  BY <1>2 DEF Start
<1>4. len \in Nat /\ len >= 1 /\ len <= MaxPacket /\ MaxPacket \in Nat /\ RingSize \in Nat
  BY <1>1
<1>6. th'[h] = [pc |-> "commit", len |-> len] /\ \A t \in Threads \ {h} : th'[t] = th[t]
  BY <1>0, <1>1
<1>7. OneSender'
  <2>1. \A t \in Threads : Claims(t)' <=> Claims(t)
    BY <1>2, <1>6 DEF Claims, At
  <2> QED BY <1>2, <2>1 DEF IInv, OneSender
<1>8. OnWire'
  BY <1>2 DEF IInv, OnWire
\* Either way the bytes are added at some offset.
<1> DEFINE at == IF End - cur >= len THEN cur ELSE Begin
<1>9. /\ pending' = pending \o Reserved(h, at, len)
      /\ cur' = at + len
      /\ End - cur >= len => at = cur /\ last' = last
      /\ ~(End - cur >= len) => at = 0 /\ last' = cur
  BY <1>1 DEF ForwardMark, Begin
<1>10. at \in Nat /\ at + len <= End
  <2>1. cur \in Nat /\ End \in Nat /\ len \in Nat /\ len <= End
    BY <1>0, <1>4
  <2> QED BY <2>1 DEF Begin
<1> HIDE DEF at
<1>11. /\ pending' \in Seq(Byte)
       /\ Len(pending') = Len(pending) + len
       /\ DOMAIN pending' = 1..(Len(pending) + len)
       /\ \A i \in 1..Len(pending) : pending'[i] = pending[i]
       /\ \A i \in (Len(pending) + 1)..(Len(pending) + len) :
            /\ pending'[i].at = at + (i - Len(pending)) - 1
            /\ pending'[i].by = h /\ pending'[i].copied = FALSE
  BY <1>4, <1>9, <1>10, ReservedAfter DEF IInv
<1>15. \A i \in DOMAIN pending' :
         \/ i \in 1..Len(pending) /\ i \in DOMAIN pending /\ pending'[i] = pending[i]
         \/ /\ i \in (Len(pending) + 1)..(Len(pending) + len)
            /\ pending'[i].at = at + (i - Len(pending)) - 1
            /\ pending'[i].by = h /\ pending'[i].copied = FALSE
  BY SMTT(30), <1>0, <1>4, <1>11
<1>12. TypeOK'
  <2>1. cur' \in Offsets /\ last' \in Offsets
    BY <1>0, <1>4, <1>9, <1>10 DEF Offsets, Begin
  <2>2. th' \in [Threads -> [pc: PCs, len: 0..MaxPacket]]
    BY <1>0, <1>1, <1>4 DEF PCs
  <2>3. crowded' \in BOOLEAN
    BY <1>0, <1>1
  <2> QED BY <1>2, <1>11, <2>1, <2>2, <2>3 DEF IInv, TypeOK, Byte, PCs, Offsets
<1>13. Counted'
  <2>1. Cardinality(InHand') = Cardinality(InHand) + len
    BY <1>1, <1>2, InHandMore DEF IInv, At
  <2>2. UsedExact'
    <3>1. used + Cardinality(InHand) = Len(pending)
      BY DEF IInv, Counted, UsedExact
    <3>2. Cardinality(InHand) \in Nat
      BY InHandFinite DEF IInv
    <3>3. used + (Cardinality(InHand) + len) = Len(pending) + len
      <4> DEFINE k == Cardinality(InHand)
                 n == Len(pending)
      <4>1. k \in Nat /\ n \in Nat /\ used \in Nat /\ len \in Nat /\ used + k = n
        BY <1>0, <1>4, <3>1, <3>2
      <4> HIDE DEF k, n
      <4>2. used + (k + len) = n + len
        BY ONLY <4>1
      <4> QED BY <4>2 DEF k, n
    <3>4. used' = used /\ Len(pending') = Len(pending) + len
      BY <1>2, <1>11
    <3> QED BY Zenon, <2>1, <3>3, <3>4 DEF UsedExact
  <2>3. \A w \in Workers : ~At(w, "commit")'
    <3>1. \A w \in Workers : w \in Threads \ {h}
      BY DEF Threads
    <3> QED BY <1>6, <3>1 DEF IInv, Counted, At
  <2> QED BY <2>2, <2>3 DEF Counted
<1>14. Shape'
  <2> SUFFICES ASSUME open, ~crowded, Len(pending) + len <= last' PROVE Straight' \/ Wrapped' \/ Spent'
    <3>1. last' \in Nat /\ Len(pending) + len \in Nat
      BY <1>0, <1>4, <1>9
    <3>2. Len(pending) + len <= last' <=> ~(Len(pending) + len > last')
      BY <3>1
    <3> QED BY Zenon, <1>1, <1>2, <3>2 DEF Shape
  <2>1. CASE Straight /\ End - cur >= len
    <3>1. at = cur /\ last' = last /\ cur' = cur + len
      BY <1>0, <1>4, <1>9, <2>1
    <3>2. \A i \in DOMAIN pending' : pending'[i].at = Start + i - 1
      <4>1. cur \in Nat /\ Start \in Nat /\ Len(pending) = cur - Start
        BY <1>0, <2>1 DEF Straight
      <4>2. \A i \in DOMAIN pending : pending[i].at = Start + i - 1
        BY <2>1 DEF Straight
      <4>3. SUFFICES ASSUME NEW i \in DOMAIN pending' PROVE pending'[i].at = Start + i - 1
        OBVIOUS
      <4>4. CASE i \in DOMAIN pending /\ pending'[i] = pending[i]
        BY <4>2, <4>4
      <4>5. CASE /\ i \in (Len(pending) + 1)..(Len(pending) + len)
                 /\ pending'[i].at = at + (i - Len(pending)) - 1
        <5>1. i \in Int /\ i - Len(pending) = i - (cur - Start)
          BY <1>0, <1>4, <4>1, <4>5
        <5>2. cur + (i - (cur - Start)) - 1 = Start + i - 1
          BY <4>1, <5>1
        <5> QED BY <3>1, <4>5, <5>1, <5>2
      <4> QED BY <1>15, <4>4, <4>5
    <3> QED BY SMTT(30), <1>0, <1>2, <1>3, <1>4, <1>11, <2>1, <3>1, <3>2 DEF Straight
  <2>2. CASE Straight /\ End - cur < len
    <3>1. at = 0 /\ last' = cur /\ cur' = len
      BY <1>0, <1>4, <1>9, <2>2 DEF Begin
    <3>2. Len(pending) = cur - Start /\ got <= cur /\ Start <= got
      BY <2>2 DEF Straight
    <3>3. len <= Start
      <4>1. (cur - Start) + len <= cur /\ cur \in Nat /\ Start \in Nat /\ len \in Nat
        BY <1>0, <1>4, <3>1, <3>2
      <4> QED BY <4>1
    <3>4. \A i \in DOMAIN pending' : pending'[i].at =
            IF i <= cur - Start THEN Start + i - 1 ELSE i - (cur - Start) - 1
      <4>1. cur \in Nat /\ Start \in Nat
        BY <1>0
      <4>2. \A i \in DOMAIN pending : pending[i].at = Start + i - 1
        BY <2>2 DEF Straight
      <4> QED BY SMTT(30), <1>15, <3>1, <3>2, <4>1, <4>2
    <3> QED BY <1>0, <1>2, <1>3, <1>4, <1>11, <3>1, <3>2, <3>3, <3>4 DEF Wrapped
  <2>3. CASE Wrapped
    <3>1. /\ Len(pending) = (last - Start) + cur /\ Start <= got /\ got <= last /\ cur <= Start
      BY <2>3 DEF Wrapped
    <3>2. cur + len <= Start
      <4>1. /\ cur \in Nat /\ Start \in Nat /\ last \in Nat /\ len \in Nat /\ len >= 1
            /\ last' = last \/ last' = cur
        BY <1>0, <1>4, <1>9
      <4>2. Start <= last
        BY <1>0, <3>1
      <4>3. (last - Start) + cur + len <= last'
        BY <3>1
      <4>4. last' # cur
        BY <4>1, <4>2, <4>3
      <4> QED BY <4>1, <4>3, <4>4
    <3>3. at = cur /\ last' = last /\ cur' = cur + len
      BY <1>0, <1>4, <1>9, <3>1, <3>2
    <3>4. \A i \in DOMAIN pending' : pending'[i].at =
            IF i <= last - Start THEN Start + i - 1 ELSE i - (last - Start) - 1
      <4>1. cur \in Nat /\ Start \in Nat /\ last \in Nat /\ Start <= last
        BY <1>0, <3>1
      <4>2. \A i \in DOMAIN pending : pending[i].at =
              IF i <= last - Start THEN Start + i - 1 ELSE i - (last - Start) - 1
        BY <2>3 DEF Wrapped
      <4>3. ASSUME NEW i \in (Len(pending) + 1)..(Len(pending) + len)
            PROVE  i > last - Start /\ cur + (i - Len(pending)) - 1 = i - (last - Start) - 1
        BY <1>0, <3>1, <4>1
      <4>4. \A i \in 1..Len(pending) : i \in DOMAIN pending
        BY <1>0
      <4>5. ASSUME NEW i \in DOMAIN pending'
            PROVE  pending'[i].at =
                     IF i <= last - Start THEN Start + i - 1 ELSE i - (last - Start) - 1
        <5>1. CASE i \in 1..Len(pending) /\ pending'[i] = pending[i]
          BY <4>2, <4>4, <5>1
        <5>2. CASE /\ i \in (Len(pending) + 1)..(Len(pending) + len)
                   /\ pending'[i].at = at + (i - Len(pending)) - 1
          <6>1. i > last - Start /\ pending'[i].at = i - (last - Start) - 1
            BY <3>3, <4>3, <5>2
          <6>2. ~(i <= last - Start)
            BY <1>0, <4>1, <5>2, <6>1
          <6> QED BY <6>1, <6>2
        <5> QED BY <1>15, <5>1, <5>2
      <4> QED BY <4>5
    <3> QED BY <1>0, <1>2, <1>3, <1>4, <1>11, <3>1, <3>2, <3>3, <3>4 DEF Wrapped
  <2>4. CASE Spent
    <3>1. at = 0 /\ last' = End /\ cur' = len /\ Start = 0 /\ Len(pending) = 0 /\ got = 0
      BY <1>0, <1>4, <1>9, <2>4, EmptySeq DEF Spent, Begin, Start
    <3>2. \A i \in DOMAIN pending' : pending'[i].at = Start + i - 1
      BY <1>15, <3>1
    <3>3. last' = End' /\ got' = got
      BY <1>2, <3>1 DEF End
    <3> QED BY <1>0, <1>3, <1>4, <1>11, <3>1, <3>2, <3>3 DEF Straight
  <2> QED BY <1>0, <1>4, <2>1, <2>2, <2>3, <2>4 DEF IInv, Shape
<1> QED BY <1>7, <1>8, <1>12, <1>13, <1>14 DEF IInv

\* A handler counts its packet.
LEMMA CommitKeeps ==
  ASSUME IInv, NEW h \in Handlers, Commit(h)
  PROVE  IInv'
<1> USE RingAssumption
<1>0. /\ used \in Nat /\ wire.len \in Nat
      /\ pending \in Seq(Byte) /\ Len(pending) \in Nat /\ DOMAIN pending = 1..Len(pending)
      /\ th \in [Threads -> [pc: PCs, len: 0..MaxPacket]] /\ h \in Threads
  BY Typed DEF IInv, Threads
<1>1. /\ used' = used + th[h].len
      /\ pending' = [i \in DOMAIN pending |->
                       IF pending[i].by = h THEN [pending[i] EXCEPT !.copied = TRUE] ELSE pending[i]]
      /\ th' = [th EXCEPT ![h] = [pc |-> "claim", len |-> 0]]
      /\ UNCHANGED <<cur, got, last, sendable, open, wire, crowded>> /\ th[h].pc = "commit"
  BY DEF Commit, At
<1>2. th[h].len \in Nat
  BY <1>0
<1>3. \A i \in DOMAIN pending : pending[i] \in Byte
  BY <1>0
<1>4. /\ pending' \in [1..Len(pending) -> Byte]
      /\ \A i \in 1..Len(pending) : pending'[i].at = pending[i].at
  <2>1. \A i \in 1..Len(pending) : LET b == [pending[i] EXCEPT !.copied = TRUE] IN
          b \in Byte /\ b.at = pending[i].at
    BY <1>0, <1>3 DEF Byte
  <2> QED BY <1>0, <1>1, <1>3, <2>1
<1>5. /\ pending' \in Seq(Byte) /\ DOMAIN pending' = 1..Len(pending) /\ Len(pending') = Len(pending)
  <2>1. pending' \in Seq(Byte)
    BY <1>0, <1>4, SeqDef
  <2>2. DOMAIN pending' = 1..Len(pending)
    BY <1>4
  <2> QED BY <1>0, <2>1, <2>2, LenProperties
<1>6. th'[h] = [pc |-> "claim", len |-> 0] /\ \A t \in Threads \ {h} : th'[t] = th[t]
  BY <1>0, <1>1
<1>7. OneSender'
  <2>1. \A t \in Threads : Claims(t)' <=> Claims(t)
    BY <1>1, <1>6 DEF Claims, At
  <2> QED BY <1>1, <2>1 DEF IInv, OneSender
<1>8. OnWire'
  BY <1>0, <1>1, <1>2 DEF IInv, OnWire
<1>9. TypeOK'
  <2>1. th' \in [Threads -> [pc: PCs, len: 0..MaxPacket]]
    BY <1>0, <1>1 DEF PCs
  <2>2. used' \in Nat
    BY <1>0, <1>1, <1>2
  <2> QED BY <1>1, <1>5, <2>1, <2>2 DEF IInv, TypeOK, Byte, PCs, Offsets
<1>10. Counted'
  <2>1. Cardinality(InHand') = Cardinality(InHand) - th[h].len
    BY <1>1, InHandLess DEF IInv, At
  <2>2. UsedExact'
    <3>1. used + Cardinality(InHand) = Len(pending)
      BY DEF IInv, Counted, UsedExact
    <3>2. Cardinality(InHand) \in Nat
      BY InHandFinite DEF IInv
    <3>3. (used + th[h].len) + (Cardinality(InHand) - th[h].len) = Len(pending)
      BY <1>0, <1>2, <3>1, <3>2
    <3> QED BY <1>1, <1>5, <2>1, <3>3 DEF UsedExact
  <2>3. \A w \in Workers : ~At(w, "commit")'
    BY <1>6 DEF IInv, Counted, At, Threads
  <2> QED BY <2>2, <2>3 DEF Counted
<1>11. Shape'
  <2>1. Start' = Start /\ End' = End
    BY <1>1 DEF Start, End
  <2>2. ASSUME Straight PROVE Straight'
    BY <1>0, <1>1, <1>4, <1>5, <2>1, <2>2 DEF Straight
  <2>3. ASSUME Wrapped PROVE Wrapped'
    BY <1>0, <1>1, <1>4, <1>5, <2>1, <2>3 DEF Wrapped
  <2>4. ASSUME Spent PROVE Spent'
    <3>1. Len(pending') = 0
      BY <1>5, <2>4, EmptySeq DEF Spent
    <3>2. pending' = << >>
      BY <1>5, <3>1, EmptySeq
    <3> QED BY <1>1, <2>1, <2>4, <3>2 DEF Spent
  <2>5. (open' <=> open) /\ (crowded' <=> crowded)
    BY <1>1
  <2> QED BY Zenon, <2>2, <2>3, <2>4, <2>5 DEF IInv, Shape
<1> QED BY <1>7, <1>8, <1>9, <1>10, <1>11 DEF IInv

\* A step in the hand-over of the sender's role alone.
LEMMA HandKeeps ==
  ASSUME IInv, NEW t \in Threads, NEW pc \in PCs \ {"commit"}, Goto(t, pc), th[t].pc # "commit",
         UNCHANGED <<used, cur, got, last, open, wire, pending, crowded>>, sendable' \in BOOLEAN
  PROVE  /\ TypeOK' /\ Shape' /\ OnWire' /\ Counted'
         /\ th'[t].pc = pc /\ \A u \in Threads \ {t} : th'[u] = th[u]
<1>0. th \in [Threads -> [pc: PCs, len: 0..MaxPacket]]
  BY Typed DEF IInv
<1>1. /\ th' \in [Threads -> [pc: PCs, len: 0..MaxPacket]]
      /\ th'[t].pc = pc /\ th'[t].len = th[t].len /\ \A u \in Threads \ {t} : th'[u] = th[u]
  BY <1>0 DEF Goto
<1>2. TypeOK'
  BY <1>1 DEF IInv, TypeOK, PCs, Offsets, End
<1>3. Shape' /\ OnWire'
  BY DEF IInv, Shape, Straight, Wrapped, Spent, Start, OnWire, End
<1>4. \A u \in Threads : (At(u, "commit")' <=> At(u, "commit")) /\ th'[u].len = th[u].len
  BY <1>1 DEF At
<1>5. Counted'
  BY <1>4, InHandSame DEF IInv, Counted, UsedExact, Threads
<1> QED BY <1>1, <1>2, <1>3, <1>5

LEMMA ClaimKeeps ==
  ASSUME IInv, NEW t \in Threads, Claim(t)
  PROVE  IInv'
<1>1. CASE sendable
  <2>1. /\ Goto(t, "take") /\ sendable' = FALSE /\ th[t].pc = "claim"
        /\ UNCHANGED <<used, cur, got, last, open, wire, pending, crowded>>
    BY <1>1 DEF Claim, At
  <2>2. /\ TypeOK' /\ Shape' /\ OnWire' /\ Counted'
        /\ th'[t].pc = "take" /\ \A u \in Threads \ {t} : th'[u] = th[u]
    BY <2>1, HandKeeps DEF PCs
  <2>3. OneSender'
    BY <1>1, <2>1, <2>2 DEF IInv, OneSender, Claims, At
  <2> QED BY <2>2, <2>3 DEF IInv
<1>2. CASE ~sendable
  <2>1. /\ Goto(t, "idle") /\ sendable' = sendable /\ th[t].pc = "claim"
        /\ UNCHANGED <<used, cur, got, last, open, wire, pending, crowded>>
    BY <1>2 DEF Claim, At
  <2>2. /\ TypeOK' /\ Shape' /\ OnWire' /\ Counted'
        /\ th'[t].pc = "idle" /\ \A u \in Threads \ {t} : th'[u] = th[u]
    BY <2>1, HandKeeps DEF PCs, IInv, TypeOK
  <2>3. \A u \in Threads : Claims(u)' <=> Claims(u)
    BY <2>1, <2>2 DEF Claims, At
  <2>4. OneSender'
    BY <2>1, <2>3 DEF IInv, OneSender
  <2> QED BY <2>2, <2>4 DEF IInv
<1> QED BY <1>1, <1>2

LEMMA UnclaimKeeps ==
  ASSUME IInv, NEW t \in Threads, Unclaim(t) \/ SetSendable(t)
  PROVE  IInv'
<1>1. PICK pc \in {"idle", "claim"} :
        /\ Goto(t, pc) /\ sendable' = TRUE /\ th[t].pc \in {"unclaim", "setSendable"}
        /\ UNCHANGED <<used, cur, got, last, open, wire, pending, crowded>>
  BY DEF Unclaim, SetSendable, At
<1>2. /\ TypeOK' /\ Shape' /\ OnWire' /\ Counted'
      /\ th'[t].pc = pc /\ \A u \in Threads \ {t} : th'[u] = th[u]
  BY <1>1, HandKeeps DEF PCs
<1>3. Claims(t) /\ wire.len \in Nat
  BY <1>1, Typed DEF Claims, At, IInv
<1>4. wire'.len = 0 /\ \A u \in Threads : ~Claims(u)'
  BY <1>1, <1>2, <1>3 DEF IInv, OneSender, Claims, At
<1>5. OneSender'
  BY <1>1, <1>4 DEF OneSender
<1> QED BY <1>2, <1>5 DEF IInv

LEMMA Shifted ==
  ASSUME NEW s \in Nat, NEW k \in Nat, NEW i \in Nat, NEW g, NEW l \in Nat, g = s + k
  PROVE  /\ s + (k + i) - 1 = g + i - 1
         /\ k + i <= l - s <=> i <= l - g
         /\ (k + i) - (l - s) - 1 = i - (l - g) - 1
  OBVIOUS

LEMMA CountedFew == ASSUME IInv PROVE used <= Len(pending)
<1>1. used + Cardinality(InHand) = Len(pending) /\ Cardinality(InHand) \in Nat /\ used \in Nat
  BY InHandFinite, Typed DEF IInv, Counted, UsedExact
<1> QED BY <1>1

\* DoSend: the bytes sent are the first ones.
LEMMA ReleaseKeeps ==
  ASSUME IInv, NEW w \in Workers, Release(w)
  PROVE  IInv'
<1>0. /\ used \in Nat /\ cur \in Nat /\ got \in Nat /\ last \in Nat /\ End \in Nat
      /\ wire.at \in Nat /\ wire.len \in Nat
      /\ pending \in Seq(Byte) /\ Len(pending) \in Nat /\ DOMAIN pending = 1..Len(pending)
      /\ th \in [Threads -> [pc: PCs, len: 0..MaxPacket]]
      /\ Start \in Nat /\ w \in Threads
  BY Typed DEF IInv, Threads
<1>1. /\ th[w].pc = "idle" /\ wire.len > 0 /\ wire' = NoSend /\ Goto(w, "setSendable")
      /\ used' = (IF wire.len > used THEN 0 ELSE used - wire.len)
      /\ pending' = SubSeq(pending, wire.len + 1, Len(pending))
      /\ UNCHANGED <<cur, got, last, sendable, open, crowded>>
  BY DEF Release, At
<1>2. wire.len <= used /\ used <= Len(pending) /\ got = wire.at + wire.len /\ Start = wire.at
  BY <1>1, CountedFew DEF IInv, OnWire, Start
<1>3. used' = used - wire.len /\ wire'.len = 0 /\ Start' = got /\ got = Start + wire.len
  BY <1>0, <1>1, <1>2 DEF NoSend, Start
<1>4. /\ pending' \in Seq(Byte)
      /\ Len(pending') = Len(pending) - wire.len
      /\ DOMAIN pending' = 1..(Len(pending) - wire.len)
      /\ \A i \in 1..(Len(pending) - wire.len) : pending'[i] = pending[wire.len + i]
  <2>1. wire.len <= Len(pending)
    BY <1>0, <1>2
  <2> QED BY <1>0, <1>1, <2>1, ReleasedAfter DEF IInv
<1>5. /\ th' \in [Threads -> [pc: PCs, len: 0..MaxPacket]]
      /\ th'[w].pc = "setSendable" /\ th'[w].len = th[w].len
      /\ \A u \in Threads \ {w} : th'[u] = th[u]
  BY <1>0, <1>1 DEF Goto, PCs
<1>6. TypeOK'
  <2>1. used' \in Nat
    BY <1>0, <1>2, <1>3
  <2>2. wire' \in [at: Offsets, len: 0..SendSize]
    BY <1>1, RingAssumption DEF NoSend, Offsets, Begin, End
  <2> QED BY <1>1, <1>4, <1>5, <2>1, <2>2 DEF IInv, TypeOK, Byte, PCs, Offsets, End
<1>7. OneSender'
  <2>1. ~sendable /\ \A u \in Threads : ~Claims(u)
    BY <1>1 DEF IInv, OneSender
  <2>2. ~sendable' /\ Claims(w)' /\ \A u \in Threads \ {w} : ~Claims(u)'
    BY <1>1, <1>5, <2>1 DEF Claims, At
  <2> QED BY <1>0, <1>3, <2>2 DEF OneSender
<1>8. OnWire'
  BY <1>0, <1>2, <1>3 DEF OnWire
<1>12. /\ used \in Nat /\ cur \in Nat /\ got \in Nat /\ last \in Nat /\ wire.len \in Nat
       /\ Len(pending) \in Nat /\ Start \in Nat
  BY <1>0
\* Byte i was byte wire.len + i.
<1>9. ASSUME NEW i \in DOMAIN pending'
      PROVE  wire.len + i \in DOMAIN pending /\ pending'[i] = pending[wire.len + i] /\ i \in Nat /\ i >= 1
  BY <1>0, <1>4
<1>10. Counted'
  <2>1. \A u \in Threads : (At(u, "commit")' <=> At(u, "commit")) /\ th'[u].len = th[u].len
    BY <1>1, <1>5 DEF At
  <2>2. InHand' = InHand
    BY <2>1, InHandSame
  <2>3. UsedExact'
    <3>1. used + Cardinality(InHand) = Len(pending) /\ Cardinality(InHand) \in Nat
      BY InHandFinite DEF IInv, Counted, UsedExact
    <3>2. (used - wire.len) + Cardinality(InHand) = Len(pending) - wire.len
      BY <1>0, <3>1
    <3> QED BY <1>3, <1>4, <2>2, <3>2 DEF UsedExact
  <2>4. \A u \in Workers : ~At(u, "commit")'
    BY <2>1 DEF IInv, Counted, Threads
  <2> QED BY <2>3, <2>4 DEF Counted
<1>11. Shape'
  <2> SUFFICES ASSUME open, ~crowded PROVE Straight' \/ Wrapped' \/ Spent'
    BY <1>1 DEF Shape
  <2>1. CASE Straight
    <3>1. /\ last = End /\ got <= cur /\ Len(pending) = cur - Start
          /\ \A i \in DOMAIN pending : pending[i].at = Start + i - 1
      BY <2>1 DEF Straight
    <3>2. \A i \in DOMAIN pending' : pending'[i].at = got + i - 1
      <4>1. \A i \in DOMAIN pending' : pending'[i].at = Start + (wire.len + i) - 1
        BY <1>9, <3>1
      <4>2. \A i \in DOMAIN pending' : Start + (wire.len + i) - 1 = got + i - 1
        <5>1. ASSUME NEW i \in DOMAIN pending' PROVE Start + (wire.len + i) - 1 = got + i - 1
          <6>1. i \in Nat
            BY <1>9
          <6>2. Start \in Nat /\ wire.len \in Nat /\ got \in Nat
            BY <1>12
          <6>3. got = Start + wire.len
            BY <1>3
          <6> QED BY <6>1, <6>2, <6>3
        <5> QED BY <5>1
      <4> QED BY <4>1, <4>2
    <3>3. Len(pending') = cur - got /\ got <= got
      BY SMTT(30), <1>0, <1>3, <1>4, <3>1
    <3> QED BY <1>1, <1>3, <3>1, <3>2, <3>3 DEF Straight, End
  <2>2. CASE Wrapped
    <3>1. /\ got <= last /\ cur <= Start
          /\ Len(pending) = (last - Start) + cur
          /\ \A i \in DOMAIN pending :
               pending[i].at = IF i <= last - Start THEN Start + i - 1 ELSE i - (last - Start) - 1
      BY <2>2 DEF Wrapped
    <3>2. ASSUME NEW i \in DOMAIN pending'
          PROVE  pending'[i].at = IF i <= last - got THEN got + i - 1 ELSE i - (last - got) - 1
      <4>1. pending'[i].at = IF wire.len + i <= last - Start THEN Start + (wire.len + i) - 1
                             ELSE (wire.len + i) - (last - Start) - 1
        BY <1>9, <3>1
      <4>2. i \in Nat
        BY <1>9
      <4>3. /\ wire.len + i <= last - Start <=> i <= last - got
            /\ Start + (wire.len + i) - 1 = got + i - 1
            /\ (wire.len + i) - (last - Start) - 1 = i - (last - got) - 1
        <5>1. Start \in Nat /\ wire.len \in Nat /\ last \in Nat
          BY <1>12
        <5>2. got = Start + wire.len
          BY <1>3
        <5> QED BY <4>2, <5>1, <5>2, Shifted
      <4> QED BY <4>1, <4>3
    <3>3. Len(pending') = (last - got) + cur /\ cur <= got /\ got <= got
      BY SMTT(30), <1>3, <1>4, <1>12, <3>1
    <3> QED BY <1>1, <1>3, <3>1, <3>2, <3>3 DEF Wrapped
  <2>3. CASE Spent
    BY <1>1, <2>3 DEF Spent
  <2> QED BY <2>1, <2>2, <2>3 DEF IInv, Shape
<1> QED BY <1>6, <1>7, <1>8, <1>10, <1>11 DEF IInv

\* GetBuffer: at least a byte is taken if one is counted, of those that come
\* next, and not beyond the end of the stretch they lie in.
LEMMA TakeKeeps ==
  ASSUME IInv, NEW t \in Threads, Take(t)
  PROVE  IInv'
<1> DEFINE wrapped == last = got
           from == IF wrapped THEN Begin ELSE got
           to == IF wrapped THEN End ELSE last
           len == LesserOf(LesserOf(used, SendSize), to - from)
<1>0. /\ used \in Nat /\ cur \in Nat /\ got \in Nat /\ last \in Nat /\ End \in Nat /\ End > 0
      /\ cur <= End /\ got <= End /\ last <= End
      /\ wire.len \in Nat /\ Len(pending) \in Nat /\ SendSize \in Nat /\ SendSize > 0
  BY Typed, RingAssumption DEF IInv
<1>1. /\ th[t].pc = "take" /\ last' = to /\ UNCHANGED <<used, cur, sendable, pending, crowded>>
      /\ used = 0 => got' = from /\ Goto(t, "unclaim") /\ wire' = wire /\ open' = open
      /\ used # 0 => got' = from + len /\ Goto(t, "idle")
      /\ used # 0 /\ open /\ len > 0 => wire' = [at |-> from, len |-> len] /\ open' = open
      /\ used # 0 /\ ~(open /\ len > 0) => wire' = wire /\ open' = FALSE
  BY DEF Take, At
<1>2. th \in [Threads -> [pc: PCs, len: 0..MaxPacket]]
  BY Typed DEF IInv
<1>3. Claims(t) /\ ~sendable /\ wire.len = 0 /\ \A u \in Threads \ {t} : ~Claims(u)
  BY <1>0, <1>1 DEF IInv, OneSender, Claims, At
<1>4. Start = got /\ used <= Len(pending)
  BY <1>0, <1>3, CountedFew DEF Start
<1>5. PICK pc \in {"idle", "unclaim"} :
        /\ Goto(t, pc)
        /\ used = 0 <=> pc = "unclaim"
  BY <1>1
<1>6. /\ th' \in [Threads -> [pc: PCs, len: 0..MaxPacket]]
      /\ th'[t].pc = pc /\ th'[t].len = th[t].len
      /\ \A u \in Threads \ {t} : th'[u] = th[u]
  BY <1>2, <1>5 DEF Goto, PCs
<1>7. Counted'
  <2>1. \A u \in Threads : (At(u, "commit")' <=> At(u, "commit")) /\ th'[u].len = th[u].len
    BY <1>1, <1>6 DEF At
  <2>2. InHand' = InHand
    BY <2>1, InHandSame
  <2> QED BY <1>1, <2>1, <2>2 DEF IInv, Counted, UsedExact, Threads
\* The bytes that come next lie from `from' on.  After a packet that did not
\* fit there may be none between the marks.
<1>8. /\ from \in Nat /\ to \in Nat /\ from <= End /\ to <= End
      /\ len \in Int /\ len <= to - from /\ len <= used /\ len <= SendSize
      /\ used > 0 => len > 0 \/ len = to - from
      /\ open /\ ~crowded => from <= to /\ (used > 0 => from < to)
  <2>1. from \in Nat /\ to \in Nat /\ from <= End /\ to <= End
    BY <1>0 DEF Begin
  <2>2. open /\ ~crowded => from <= to /\ (used > 0 => from < to)
    <3> SUFFICES ASSUME open, ~crowded PROVE from <= to /\ (used > 0 => from < to)
      OBVIOUS
    <3> QED BY <1>0, <1>4 DEF Begin, IInv, Shape, Straight, Wrapped, Spent
  <2> HIDE DEF from, to
  <2> QED BY <1>0, <2>1, <2>2 DEF LesserOf
<1> HIDE DEF len
<1>16. open' /\ ~crowded' => open /\ ~crowded /\ (used > 0 => len > 0)
  <2>1. used > 0 => used # 0
    BY <1>0
  <2>2. crowded' = crowded /\ open \in BOOLEAN
    BY Zenon, <1>1 DEF IInv, TypeOK
  <2>3. CASE used = 0
    <3>1. open' = open /\ ~(used > 0)
      BY <1>0, <1>1, <2>3
    <3> QED BY Zenon, <2>2, <3>1
  <2>4. CASE used # 0 /\ open /\ len > 0
    BY Zenon, <2>2, <2>4
  <2>5. CASE used # 0 /\ ~(open /\ len > 0)
    BY Zenon, <1>1, <2>5
  <2> QED BY <2>3, <2>4, <2>5
<1>9. OnWire'
  BY <1>0, <1>1, <1>3, <1>8 DEF OnWire
<1>10. OneSender'
  <2>1. CASE used = 0
    <3>1. pc = "unclaim" /\ wire'.len = 0 /\ sendable' = sendable
      BY <1>1, <1>3, <1>5, <2>1
    <3>2. \A u \in Threads : Claims(u)' <=> u = t
      BY <1>3, <1>6, <3>1 DEF Claims, At
    <3> QED BY <1>3, <3>1, <3>2 DEF OneSender
  <2>2. CASE used > 0
    <3>1. pc = "idle" /\ sendable' = sendable /\ (wire'.len > 0 \/ ~open')
      BY <1>1, <1>5, <1>8, <2>2
    <3>2. \A u \in Threads : ~Claims(u)'
      BY <1>3, <1>6, <3>1 DEF Claims, At
    <3> QED BY <1>3, <3>1, <3>2 DEF OneSender
  <2> QED BY <1>0, <2>1, <2>2
<1>12. /\ got' \in Nat /\ got' <= End /\ (used = 0 => got' = from) /\ (used > 0 => got' = from + len)
       /\ open /\ ~crowded /\ (used > 0 => len > 0) => from <= got' /\ got' <= to
  <2>1. CASE used = 0
    BY <1>0, <1>1, <1>8, <2>1
  <2>2. CASE used > 0
    <3>1. got' = from + len
      BY <1>1, <2>2
    <3> QED BY <1>0, <1>8, <2>2, <3>1
  <2> QED BY <1>0, <2>1, <2>2
<1>13. TypeOK'
  <2>1. got' \in Offsets /\ last' \in Offsets
    BY <1>0, <1>1, <1>8, <1>12 DEF Offsets, Begin
  <2>2. wire' \in [at: Offsets, len: 0..SendSize]
    <3>1. from \in Offsets
      BY <1>0, <1>8 DEF Offsets, Begin
    <3>2. len > 0 => len \in 0..SendSize
      BY <1>0, <1>8
    <3> QED BY <1>0, <1>1, <3>1, <3>2 DEF IInv, TypeOK
  <2>3. open' \in BOOLEAN /\ crowded' \in BOOLEAN
    BY <1>1 DEF IInv, TypeOK
  <2> QED BY <1>1, <1>6, <2>1, <2>2, <2>3 DEF IInv, TypeOK, PCs, Offsets, End
<1>14. End' = End
  BY DEF End
<1>15. Shape'
  <2> SUFFICES ASSUME open', ~crowded' PROVE Straight' \/ Wrapped' \/ Spent'
    BY DEF Shape
  <2>0. /\ Straight \/ Wrapped \/ Spent
        /\ from <= to /\ from <= got' /\ got' <= to
        /\ used > 0 => len \in Nat /\ len > 0 /\ len <= used
    BY <1>0, <1>8, <1>12, <1>16 DEF IInv, Shape
  <2>6. Start' = from
    <3>1. CASE used = 0
      BY <1>0, <1>1, <1>3, <2>0, <3>1 DEF Start
    <3>2. CASE used > 0
      <4>1. used # 0 /\ open /\ len > 0
        BY <1>0, <1>16, <3>2
      <4>2. wire' = [at |-> from, len |-> len]
        BY <1>1, <4>1
      <4> QED BY <2>0, <3>2, <4>2 DEF Start
    <3> QED BY <1>0, <3>1, <3>2
  <2>1. CASE Straight /\ last # got
    <3>1. from = got /\ to = End /\ last = End
      BY <2>1 DEF Straight
    <3>2. used <= cur - got
      BY <1>4, <2>1 DEF Straight
    <3>3. got' <= cur
      BY <1>0, <1>8, <1>12, <2>0, <2>1, <3>1, <3>2 DEF Straight
    <3> QED BY <1>1, <1>4, <2>6, <1>12, <1>14, <2>0, <2>1, <3>1, <3>3 DEF Straight
  <2>2. CASE Straight /\ last = got
    <3>1. Len(pending) = 0 /\ cur = End /\ from = 0 /\ to = End
      BY <1>0, <1>4, <2>2 DEF Straight, Begin
    <3>2. used = 0 /\ pending = << >>
      BY <1>0, <1>4, <3>1, EmptySeq, Typed DEF IInv
    <3> QED BY <1>1, <1>3, <1>12, <1>14, <2>0, <3>1, <3>2 DEF Spent, Begin
  <2>3. CASE Wrapped /\ last # got
    <3>1. from = got /\ to = last
      BY <2>3
    <3> QED BY <1>1, <1>4, <2>6, <1>12, <2>0, <2>3, <3>1 DEF Wrapped
  <2>4. CASE Wrapped /\ last = got
    <3>1. from = 0 /\ to = End /\ Len(pending) = cur
      BY <1>0, <1>4, <2>4 DEF Wrapped, Begin
    <3>2. got' <= cur
      BY <1>0, <1>4, <1>8, <1>12, <2>0, <3>1
    <3>3. \A i \in DOMAIN pending : pending[i].at = 0 + i - 1
      <4>1. \A i \in DOMAIN pending : pending[i].at =
              IF i <= last - got THEN got + i - 1 ELSE i - (last - got) - 1
        BY <1>4, <2>4 DEF Wrapped
      <4>2. \A i \in DOMAIN pending : i \in Nat /\ i >= 1
        BY Typed DEF IInv
      <4>3. last - got = 0
        BY <1>0, <2>4
      <4> QED BY <4>1, <4>2, <4>3
    <3> QED BY <1>0, <1>1, <2>6, <1>12, <1>14, <2>0, <3>1, <3>2, <3>3 DEF Straight
  <2>5. CASE Spent
    <3>1. from = 0 /\ to = End /\ used = 0
      BY <1>0, <1>4, <2>5, EmptySeq DEF Spent, Begin
    <3> QED BY <1>1, <1>3, <1>12, <1>14, <2>0, <2>5, <3>1 DEF Spent, Begin
  <2> QED BY <2>0, <2>1, <2>2, <2>3, <2>4, <2>5
<1> QED BY <1>7, <1>9, <1>10, <1>13, <1>15 DEF IInv

\* The close, and the send that it fails.
LEMMA CloseKeeps ==
  ASSUME IInv, HangUp \/ (\E h \in Handlers : Full(h)) \/ (\E w \in Workers : SendFails(w))
  PROVE  IInv'
<1>1. CASE HangUp \/ \E h \in Handlers : Full(h)
  <2>1. open' = FALSE /\ UNCHANGED <<used, cur, got, last, sendable, wire, pending, th, crowded>>
    BY <1>1 DEF HangUp, Full
  <2>2. TypeOK' /\ Shape' /\ OnWire'
    BY <2>1 DEF IInv, TypeOK, Shape, OnWire, Offsets, End
  <2>3. OneSender'
    BY <2>1 DEF IInv, OneSender, Claims, At
  <2>4. Counted'
    BY <2>1 DEF IInv, Counted, UsedExact, InHand, At
  <2> QED BY <2>2, <2>3, <2>4 DEF IInv
<1>2. ASSUME NEW w \in Workers, SendFails(w) PROVE IInv'
  <2>1. /\ wire' = NoSend /\ ~open /\ wire.len > 0 /\ NoSend.len = 0
        /\ UNCHANGED <<used, cur, got, last, sendable, open, pending, th, crowded>>
    BY <1>2 DEF SendFails, NoSend
  <2>2. TypeOK'
    <3>1. NoSend \in [at: Offsets, len: 0..SendSize]
      BY RingAssumption DEF NoSend, Offsets, Begin, End
    <3> QED BY <2>1, <3>1 DEF IInv, TypeOK, Offsets, End
  <2>3. Shape' /\ OnWire'
    BY <2>1, Typed DEF IInv, Shape, OnWire
  <2>4. OneSender'
    BY <2>1 DEF IInv, OneSender, Claims, At
  <2>5. Counted'
    BY <2>1 DEF IInv, Counted, UsedExact, InHand, At
  <2> QED BY <2>2, <2>3, <2>4, <2>5 DEF IInv
<1> QED BY <1>1, <1>2

LEMMA NextIInv == IInv /\ [Next]_vars => IInv'
<1> SUFFICES ASSUME IInv, [Next]_vars PROVE IInv'
  OBVIOUS
<1>1. CASE UNCHANGED vars
  <2>1. TypeOK' /\ OneSender' /\ OnWire' /\ Counted'
    BY <1>1 DEF vars, IInv, TypeOK, OneSender, OnWire, Counted, UsedExact, InHand, Claims, At, Offsets, End
  <2>2. Shape'
    BY <1>1 DEF vars, IInv, Shape, Straight, Wrapped, Spent, Start, End
  <2> QED BY <2>1, <2>2 DEF IInv
<1>2. ASSUME NEW h \in Handlers, Prepare(h) \/ Commit(h) PROVE IInv'
  BY <1>2, PrepareKeeps, CommitKeeps
<1>3. ASSUME NEW w \in Workers, Release(w) \/ SetSendable(w) PROVE IInv'
  BY <1>3, ReleaseKeeps, UnclaimKeeps DEF Threads
<1>4. ASSUME NEW t \in Threads, Claim(t) \/ Take(t) \/ Unclaim(t) PROVE IInv'
  BY <1>4, ClaimKeeps, TakeKeeps, UnclaimKeeps
<1>5. CASE HangUp \/ (\E h \in Handlers : Full(h)) \/ (\E w \in Workers : SendFails(w))
  BY <1>5, CloseKeeps
<1> QED BY <1>1, <1>2, <1>3, <1>4, <1>5 DEF Next

LEMMA Invariant == Spec => []IInv
  BY InitIInv, NextIInv, PTL DEF Spec

----------------------------------------------------------------------------
(* What the invariant says of the ring.                                    *)

\* No mark leaves the ring and the used size is never negative, also where
\* packets did not fit.
THEOREM TypeCorrect == Spec => []TypeOK
<1>1. IInv => TypeOK
  BY DEF IInv
<1> QED BY <1>1, Invariant, PTL

\* The sender's role has one owner, and a send is never of no byte, however
\* handlers and workers interleave and whenever the connection is closed.
THEOREM SenderAlone == Spec => []OneSender
<1>1. IInv => OneSender
  BY DEF IInv
<1> QED BY <1>1, Invariant, PTL

\* Two bytes never lie at one offset: the stretch behind the wrap stays below
\* the one before it.
LEMMA ApartInShape == IInv => NoOverwrite
<1> SUFFICES ASSUME IInv, open, ~crowded,
                    NEW i \in DOMAIN pending, NEW j \in DOMAIN pending, i < j
             PROVE  pending[i].at # pending[j].at
  BY DEF NoOverwrite, Apart
<1>1. i \in Nat /\ j \in Nat /\ i >= 1 /\ i <= Len(pending) /\ j <= Len(pending)
  BY Typed DEF IInv
<1>2. Start \in Nat /\ cur \in Nat /\ last \in Nat /\ Len(pending) \in Nat
  BY Typed DEF IInv
<1>3. CASE Straight
  BY <1>1, <1>2, <1>3 DEF Straight
<1>4. CASE Wrapped
  <2>1. /\ pending[i].at = IF i <= last - Start THEN Start + i - 1 ELSE i - (last - Start) - 1
        /\ pending[j].at = IF j <= last - Start THEN Start + j - 1 ELSE j - (last - Start) - 1
        /\ cur <= Start /\ Len(pending) = (last - Start) + cur
    BY <1>4 DEF Wrapped
  <2> QED BY <1>1, <1>2, <2>1
<1>5. CASE Spent
  BY <1>1, <1>5, EmptySeq DEF Spent
<1> QED BY <1>3, <1>4, <1>5 DEF IInv, Shape

\* No packet is written over bytes not sent, for every size of the ring, of the
\* sends and of the packets, until a packet does not fit before the oldest byte:
\* nothing but that loses bytes.
THEOREM NeverOverwritten == Spec => []NoOverwrite
  BY ApartInShape, Invariant, PTL

LEMMA WireInShape == IInv => InOrder
<1> SUFFICES ASSUME IInv, open, ~crowded
             PROVE  wire.len <= Len(pending) /\ \A i \in 1..wire.len : pending[i].at = wire.at + i - 1
  BY DEF InOrder
<1>0. /\ wire.len \in Nat /\ wire.at \in Nat /\ used \in Nat /\ Start \in Nat /\ last \in Nat
      /\ Len(pending) \in Nat /\ DOMAIN pending = 1..Len(pending)
  BY Typed DEF IInv
<1>1. wire.len <= used /\ used <= Len(pending)
  BY CountedFew DEF IInv, OnWire
<1>2. ASSUME NEW i \in 1..wire.len
      PROVE  pending[i].at = wire.at + i - 1
  <2>1. i \in DOMAIN pending /\ i <= used /\ i \in Nat /\ i <= wire.len /\ wire.len > 0
    BY <1>0, <1>1
  <2>3. Start = wire.at /\ got = wire.at + wire.len
    BY <2>1 DEF Start, IInv, OnWire
  <2>4. CASE Straight
    BY <2>1, <2>3, <2>4 DEF Straight
  <2>5. CASE Wrapped
    <3>1. pending[i].at = IF i <= last - Start THEN Start + i - 1 ELSE i - (last - Start) - 1
      BY <2>1, <2>5 DEF Wrapped
    <3>2. got <= last
      BY <2>5 DEF Wrapped
    <3>3. i <= last - Start
      BY <1>0, <2>1, <2>3, <3>2
    <3> QED BY <2>3, <3>1, <3>3
  <2>6. CASE Spent
    BY <2>1, <2>6 DEF Spent
  <2> QED BY <2>4, <2>5, <2>6 DEF IInv, Shape
<1> QED BY <1>0, <1>1, <1>2

\* WSASend is given the bytes that come next, across every wrap and however
\* handlers and workers interleave, until a packet does not fit.
THEOREM SentInOrder == Spec => []InOrder
  BY WireInShape, Invariant, PTL

\* m_UsedBufferSize never drifts, for any number of handlers and workers, also
\* where packets did not fit and after a close.
THEOREM CountExact == Spec => []UsedExact
<1>1. IInv => UsedExact
  BY DEF IInv, Counted
<1> QED BY <1>1, Invariant, PTL

----------------------------------------------------------------------------
(* Handlers one at a time.                                                 *)

\* Then the bytes counted are the first ones, and they are the ones copied.
CopiedFirst == \A i \in DOMAIN pending : pending[i].copied <=> i <= used

LEMMA NoneInHand ==
  ASSUME IInv, \A h \in Handlers : ~At(h, "commit")
  PROVE  used = Len(pending)
<1>1. InHand = {}
  BY DEF InHand
<1>2. Cardinality(InHand) = 0
  BY <1>1, FS_EmptySet
<1> QED BY <1>2, Typed DEF IInv, Counted, UsedExact

LEMMA CopiedKept ==
  ASSUME \A g, h \in Handlers : g = h, IInv, IInv', CopiedFirst, [Next]_vars
  PROVE  CopiedFirst'
<1>0. /\ used \in Nat /\ wire.len \in Nat /\ pending \in Seq(Byte)
      /\ Len(pending) \in Nat /\ DOMAIN pending = 1..Len(pending)
      /\ th \in [Threads -> [pc: PCs, len: 0..MaxPacket]]
  BY Typed DEF IInv
<1>1. ASSUME NEW h \in Handlers, Prepare(h) PROVE CopiedFirst'
  <2>1. PICK len \in 1..MaxPacket : ForwardMark(h, len)
    BY <1>1 DEF Prepare
  <2>2. \A g \in Handlers : ~At(g, "commit")
    BY <1>1 DEF Prepare, At
  <2>3. used = Len(pending) /\ used' = used
    BY <1>1, <2>2, NoneInHand DEF Prepare
  <2> DEFINE at == IF End - cur >= len THEN cur ELSE Begin
  <2>4. pending' = pending \o Reserved(h, at, len)
    BY <2>1 DEF ForwardMark
  <2>5. at \in Nat /\ at + len <= End /\ len \in Nat
    <3>1. cur \in Nat /\ End \in Nat /\ len \in Nat /\ len <= End
      BY Typed, RingAssumption DEF IInv, End
    <3> QED BY <3>1 DEF Begin
  <2> HIDE DEF at
  <2>6. /\ DOMAIN pending' = 1..(Len(pending) + len)
        /\ \A i \in 1..Len(pending) : pending'[i] = pending[i]
        /\ \A i \in (Len(pending) + 1)..(Len(pending) + len) : pending'[i].copied = FALSE
    BY <2>4, <2>5, ReservedAfter DEF IInv
  <2>7. ASSUME NEW i \in DOMAIN pending' PROVE pending'[i].copied <=> i <= used'
    <3>1. CASE i <= Len(pending)
      <4>1. i \in DOMAIN pending /\ pending'[i] = pending[i]
        BY <1>0, <2>5, <2>6, <3>1
      <4> QED BY <2>3, <4>1 DEF CopiedFirst
    <3>2. CASE ~(i <= Len(pending))
      BY <1>0, <2>3, <2>5, <2>6, <3>2
    <3> QED BY <3>1, <3>2
  <2> QED BY <2>7 DEF CopiedFirst
<1>2. ASSUME NEW h \in Handlers, Commit(h) PROVE CopiedFirst'
  <2>1. /\ pending' = [i \in DOMAIN pending |->
                         IF pending[i].by = h THEN [pending[i] EXCEPT !.copied = TRUE] ELSE pending[i]]
        /\ th' = [th EXCEPT ![h] = [pc |-> "claim", len |-> 0]]
    BY <1>2 DEF Commit
  <2>2. \A i \in DOMAIN pending : pending[i] \in Byte /\ pending[i].by = h
    <3>1. \A i \in DOMAIN pending : pending[i] \in Byte
      BY <1>0
    <3>2. \A b \in Byte : b.by \in Handlers
      BY DEF Byte
    <3>3. \A g \in Handlers : g = h
      BY Zenon
    <3> QED BY <3>1, <3>2, <3>3
  <2>3. \A i \in DOMAIN pending' : pending'[i].copied = TRUE
    BY <2>1, <2>2 DEF Byte
  <2>4. InHand' = {}
    <3>1. h \in Threads
      BY DEF Threads
    <3>2. th'[h].pc = "claim"
      BY <1>0, <2>1, <3>1
    <3> QED BY <3>2 DEF InHand, At
  <2>5. used' = Len(pending')
    <3>1. Cardinality(InHand') = 0
      BY <2>4, FS_EmptySet
    <3>2. used' + Cardinality(InHand') = Len(pending')
      BY DEF IInv, Counted, UsedExact
    <3>3. used' \in Nat
      BY DEF IInv, TypeOK
    <3> QED BY <3>1, <3>2, <3>3
  <2>6. DOMAIN pending' = 1..Len(pending') /\ Len(pending') \in Nat
    <3>1. pending' \in Seq(Byte)
      BY DEF IInv, TypeOK, Byte
    <3> QED BY <3>1, LenProperties
  <2> QED BY <2>3, <2>5, <2>6 DEF CopiedFirst
<1>3. ASSUME NEW w \in Workers, Release(w) PROVE CopiedFirst'
  <2>1. pending' = SubSeq(pending, wire.len + 1, Len(pending)) /\ wire.len <= used /\ used' = used - wire.len
    BY <1>0, <1>3 DEF Release, IInv, OnWire
  <2>2. /\ DOMAIN pending' = 1..(Len(pending) - wire.len)
        /\ \A i \in 1..(Len(pending) - wire.len) : pending'[i] = pending[wire.len + i]
    <3>1. wire.len <= Len(pending)
      BY <1>0, <2>1, CountedFew
    <3> QED BY <1>0, <2>1, <3>1, ReleasedAfter DEF IInv
  <2>3. ASSUME NEW i \in DOMAIN pending' PROVE pending'[i].copied <=> i <= used'
    <3>1. wire.len + i \in DOMAIN pending /\ pending'[i] = pending[wire.len + i] /\ i \in Nat
      BY <1>0, <2>2
    <3>2. wire.len + i <= used <=> i <= used - wire.len
      BY <1>0, <3>1
    <3> QED BY <2>1, <3>1, <3>2 DEF CopiedFirst
  <2> QED BY <2>3 DEF CopiedFirst
<1>4. CASE UNCHANGED <<used, pending>>
  BY <1>4 DEF CopiedFirst
<1> QED BY <1>1, <1>2, <1>3, <1>4
        DEF Next, vars, Full, HangUp, SendFails, SetSendable, Claim, Take, Unclaim

LEMMA CopiedOnWire == IInv /\ CopiedFirst => SentCopied
<1> SUFFICES ASSUME IInv, CopiedFirst, NEW i \in DOMAIN pending, i <= wire.len
             PROVE  pending[i].copied
  BY DEF SentCopied
<1>1. i \in Nat /\ used \in Nat /\ wire.len \in Nat /\ wire.len <= used
  BY Typed DEF IInv, OnWire
<1> QED BY <1>1 DEF CopiedFirst

\* WSASend is given no byte a handler is still copying, where the handlers run
\* one at a time; with two it may be.
THEOREM SentWhenCopied ==
  ASSUME \A g, h \in Handlers : g = h
  PROVE  Spec => []SentCopied
<1>1. Init => CopiedFirst
  BY EmptySeq DEF Init, CopiedFirst
<1>2. IInv /\ IInv' /\ CopiedFirst /\ [Next]_vars => CopiedFirst'
  BY CopiedKept
<1> QED BY <1>1, <1>2, CopiedOnWire, Invariant, PTL DEF Spec
=============================================================================
