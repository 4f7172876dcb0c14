--------------------------- MODULE RecvRingProofs ---------------------------
(***************************************************************************)
(* Proofs about RecvRing for any sizes that satisfy RecvAssumption and any *)
(* number of packets.  However the stream is cut, DoRecv keeps to the      *)
(* bounds of the packets; until a receive is posted with too much waiting, *)
(* a packet posted stays in the ring as it was received until it is        *)
(* copied, and the application is handed what was sent.  The lemmas about  *)
(* sequences and about streams made of packets are ClientBufferProofs'.    *)
(***************************************************************************)
EXTENDS RecvRing, ClientBufferProofs

\* The bytes that were sent and are not in a packet posted, in their order:
\* those received, from Start on, and those on the wire.
Start == IF pc \in {"recv", "undefined"} THEN cur - remain ELSE next
Unposted == remain + Len(wire)
UnpostedByte(p) == IF p <= remain THEN ring[Start + p - 1] ELSE wire[p - remain]
UnpostedBytes == [p \in 1..Unposted |-> UnpostedByte(p)]

Sizes == [n \in 1..Len(sent) |-> Size(sent[n])]
Posted == copied + Len(Waiting)

Types ==
  /\ sent \in Seq(Lengths \cup {0}) /\ Len(sent) <= MaxPackets
  /\ wire \in Seq(ByteType) /\ ring \in [Offsets -> ByteType]
  /\ pc \in {"recv", "first", "split", "post", "closed", "stalled", "undefined"}
  /\ msgs \in Seq(MsgType) /\ held \in MsgType
  /\ copied \in Nat /\ out \in Seq(ByteType)

\* What was received lies in the ring, with room for the next receive, also at
\* the beginning, behind what remains of a packet that leaves it.
Places ==
  /\ cur \in Offsets
  /\ pc # "undefined" => cur + RecvSize <= RingSize
  /\ PacketsFit => pc # "undefined"
  /\ remain \in Nat /\ next \in 0..RingSize
  /\ Start \in Nat /\ Start + remain <= RingSize
  /\ pc \in {"first", "split", "post"} => next + remain \in cur..(cur + RecvSize)
  /\ pc = "post" => \E len \in Lengths \cup {LengthField} : remain < len

\* The messages are those of the first packets sent, all of them right.
Messages ==
  /\ Posted \in 0..Len(sent)
  /\ \A n \in 1..Posted : sent[n] # 0
  /\ \A i \in 1..Len(Waiting) :
       Waiting[i].len = sent[copied + i] /\ Waiting[i].at + Waiting[i].len <= RingSize

\* The packets that count are the first ones.
Prefix == \E m \in 0..Len(sent) : Rightful = 1..m

\* If the first piece of a packet has its length, only a wrong packet is taken
\* for one.
Closing ==
  FirstBytes >= LengthField =>
    /\ pc = "first" => remain >= LengthField
    /\ pc = "closed" => Posted + 1 \in 1..Len(sent) /\ sent[Posted + 1] = 0

Framing == FramedBy(UnpostedBytes, Unposted, Posted, Sizes)

RingInv == Types /\ Places /\ Messages /\ Prefix /\ Closing /\ Framing

----------------------------------------------------------------------------
(* What the operators of the model return.                                 *)

\* The sizes of packets are numbers, none of them less than a length field.
LEMMA LengthFacts ==
  /\ RingSize \in Nat /\ RecvSize \in Nat \ {0} /\ 2 * RecvSize <= RingSize
  /\ \A len \in Lengths : len \in Nat /\ 2 <= len /\ len <= RingSize
  /\ \A len \in Lengths \cup {0} :
       /\ Size(len) \in Nat /\ 2 <= Size(len) /\ Size(len) <= RingSize
       /\ Right(len) <=> len # 0
       /\ len # 0 => Size(len) = len
BY RecvAssumption DEF Size, Right, LengthField

LEMMA SizesFacts ==
  ASSUME Types
  PROVE  /\ Sizes \in Seq(Nat \ {0}) /\ Len(Sizes) = Len(sent) /\ Len(sent) \in Nat
         /\ \A n \in 1..Len(sent) : sent[n] \in Lengths \cup {0} /\ Sizes[n] = Size(sent[n])
<1>1. /\ sent \in Seq(Lengths \cup {0}) /\ Len(sent) \in Nat
      /\ \A n \in 1..Len(sent) : sent[n] \in Lengths \cup {0}
  BY DEF Types
<1>2. Sizes \in [1..Len(sent) -> Nat \ {0}]
  BY <1>1, LengthFacts DEF Sizes
<1>3. Sizes \in Seq(Nat \ {0}) /\ Len(Sizes) = Len(sent)
  BY <1>1, <1>2, FunctionSeq
<1>4. \A n \in 1..Len(sent) : Sizes[n] = Size(sent[n])
  BY DEF Sizes
<1> QED BY <1>1, <1>3, <1>4

\* The messages not copied, the one held first.
LEMMA HeldFirst ==
  ASSUME NEW S, NEW h \in S, NEW m \in Seq(S), NEW w, NEW none,
         w = (IF h = none THEN << >> ELSE <<h>>) \o m
  PROVE  /\ w \in Seq(S) /\ DOMAIN w = 1..Len(w) /\ Len(m) \in Nat
         /\ h = none => w = m
         /\ h # none => /\ Len(w) = Len(m) + 1 /\ w[1] = h
                        /\ \A i \in 1..Len(m) : w[i + 1] = m[i]
<1>1. Len(m) \in Nat
  OBVIOUS
<1>2. CASE h = none
  <2>1. w = m
    BY <1>2, ConcatEmptySeq
  <2> QED BY <1>1, <1>2, <2>1
<1>3. CASE h # none
  <2> DEFINE first == <<h>>
  <2>1. first \in Seq(S) /\ Len(first) = 1 /\ first[1] = h
    OBVIOUS
  <2> HIDE DEF first
  <2>2. w = first \o m
    BY <1>3 DEF first
  <2>3. /\ w \in Seq(S) /\ Len(w) = 1 + Len(m)
        /\ \A i \in 1..(1 + Len(m)) : w[i] = IF i <= 1 THEN first[i] ELSE m[i - 1]
    BY SMTT(30), <2>1, <2>2, ConcatProperties
  <2>4. 1 \in 1..(1 + Len(m)) /\ w[1] = h
    BY <1>1, <2>1, <2>3
  <2>5. \A i \in 1..Len(m) : w[i + 1] = m[i]
    <3> SUFFICES ASSUME NEW i \in 1..Len(m) PROVE w[i + 1] = m[i]
      OBVIOUS
    <3>1. i + 1 \in 1..(1 + Len(m)) /\ ~(i + 1 <= 1) /\ i + 1 - 1 = i
      BY <1>1
    <3>2. w[i + 1] = m[i + 1 - 1]
      BY <2>3, <3>1
    <3> QED BY <3>1, <3>2
  <2>6. DOMAIN w = 1..Len(w)
    BY <2>3
  <2> QED BY <1>1, <1>3, <2>3, <2>4, <2>5, <2>6
<1> QED BY <1>2, <1>3

LEMMA WaitingFacts ==
  ASSUME Types
  PROVE  /\ Waiting \in Seq(MsgType) /\ DOMAIN Waiting = 1..Len(Waiting)
         /\ Len(Waiting) \in Nat /\ Len(msgs) \in Nat
         /\ held = Nothing => Waiting = msgs
         /\ held # Nothing => /\ Len(Waiting) = Len(msgs) + 1 /\ Waiting[1] = held
                              /\ \A i \in 1..Len(msgs) : Waiting[i + 1] = msgs[i]
<1>1. held \in MsgType /\ msgs \in Seq(MsgType)
  BY DEF Types
<1>2. Waiting = (IF held = Nothing THEN << >> ELSE <<held>>) \o msgs
  BY DEF Waiting
<1>3. /\ Waiting \in Seq(MsgType) /\ DOMAIN Waiting = 1..Len(Waiting) /\ Len(msgs) \in Nat
      /\ held = Nothing => Waiting = msgs
      /\ held # Nothing => /\ Len(Waiting) = Len(msgs) + 1 /\ Waiting[1] = held
                           /\ \A i \in 1..Len(msgs) : Waiting[i + 1] = msgs[i]
  BY <1>1, <1>2, HeldFirst
<1>4. Len(Waiting) \in Nat
  BY <1>3, LenProperties
<1> QED BY <1>3, <1>4

\* A wait list is one of messages: those of the right packets have a length.
LEMMA WaitingLength ==
  ASSUME Types, Messages, NEW i \in 1..Len(Waiting)
  PROVE  /\ copied + i \in 1..Posted /\ copied + i \in 1..Len(sent)
         /\ sent[copied + i] \in Lengths
         /\ Waiting[i].at \in Nat /\ Waiting[i].len \in Lengths /\ Waiting[i] # Nothing
<1>1. Len(Waiting) \in Nat /\ copied \in Nat /\ Len(sent) \in Nat /\ Waiting[i] \in MsgType
  BY WaitingFacts, SizesFacts DEF Types
<1>2. copied + i \in 1..Posted /\ copied + i \in 1..Len(sent)
  BY <1>1 DEF Posted, Messages
<1>3. sent[copied + i] \in Lengths
  BY <1>2, SizesFacts DEF Messages
<1>4. Waiting[i].len = sent[copied + i]
  BY DEF Messages
<1>5. Waiting[i].at \in Nat
  BY <1>1 DEF MsgType, Offsets
<1>6. Waiting[i].len # 0
  BY <1>3, <1>4, LengthFacts
<1>7. Waiting[i] # Nothing
  BY <1>6 DEF Nothing
<1> QED BY <1>2, <1>3, <1>4, <1>5, <1>7

\* Where two bytes of a packet and more were received, its length is read.
LEMMA LengthIsRead ==
  ASSUME RingInv, Splitting, remain >= LengthField
  PROVE  /\ Posted + 1 \in 1..Len(sent) /\ Unposted \in Nat \ {0}
         /\ LengthAt(next) = sent[Posted + 1]
         /\ Sizes[Posted + 1] = Size(sent[Posted + 1])
<1>1. Types /\ Places /\ Framing /\ Posted \in 0..Len(sent)
  BY DEF RingInv, Messages
<1>2. remain \in Nat /\ remain >= 2 /\ Len(wire) \in Nat /\ next \in Nat /\ Start = next
  BY <1>1 DEF Types, Places, LengthField, Splitting, Start
<1>3. Unposted \in Nat \ {0} /\ Unposted >= 2
  BY <1>2 DEF Unposted
<1>4. Sizes \in Seq(Nat \ {0}) /\ Len(Sizes) = Len(sent) /\ Len(sent) \in Nat
  BY <1>1, SizesFacts
<1>5. /\ Posted + 1 \in 1..Len(Sizes)
      /\ \A j \in 1..Sizes[Posted + 1] : UnpostedBytes[j] = <<Posted + 1, j>>
  <2>1. Posted \in 0..Len(Sizes) /\ FramedBy(UnpostedBytes, Unposted, Posted, Sizes)
    BY <1>1, <1>4 DEF Framing
  <2> QED BY <2>1, <1>3, <1>4, FirstPacket
<1>6. /\ Posted + 1 \in 1..Len(sent) /\ Sizes[Posted + 1] = Size(sent[Posted + 1])
      /\ sent[Posted + 1] \in Lengths \cup {0}
  BY <1>1, <1>4, <1>5, SizesFacts
<1>7. 1 \in 1..Sizes[Posted + 1] /\ 2 \in 1..Sizes[Posted + 1]
  BY <1>6, LengthFacts
<1>8. UnpostedBytes[1] = ring[next] /\ UnpostedBytes[2] = ring[next + 1]
  <2>1. 1 \in 1..Unposted /\ 2 \in 1..Unposted /\ next + 1 - 1 = next /\ next + 2 - 1 = next + 1
    BY <1>2, <1>3
  <2> QED BY <1>2, <2>1 DEF UnpostedBytes, UnpostedByte
<1>9. ring[next] = <<Posted + 1, 1>> /\ ring[next + 1] = <<Posted + 1, 2>>
  BY <1>5, <1>7, <1>8
<1>10. LengthAt(next) = sent[Posted + 1]
  <2>1. DOMAIN sent = 1..Len(sent)
    BY <1>1, LenProperties DEF Types
  <2> QED BY <1>6, <1>9, <2>1 DEF LengthAt
<1> QED BY <1>3, <1>6, <1>10

\* A whole packet: its bytes are in the ring, behind Start.
LEMMA WholePacket ==
  ASSUME RingInv, Splitting, Whole
  PROVE  /\ Posted + 1 \in 1..Len(sent) /\ Unposted \in Nat \ {0}
         /\ LengthAt(next) = sent[Posted + 1] /\ sent[Posted + 1] \in Lengths
         /\ Sizes[Posted + 1] = sent[Posted + 1] /\ sent[Posted + 1] <= remain
         /\ \A j \in 1..sent[Posted + 1] : ring[next + j - 1] = <<Posted + 1, j>>
<1> DEFINE len == sent[Posted + 1]
<1>1. Types /\ Places /\ Framing /\ Posted \in 0..Len(sent)
  BY DEF RingInv, Messages
<1>2. /\ Posted + 1 \in 1..Len(sent) /\ Unposted \in Nat \ {0}
      /\ LengthAt(next) = len /\ Sizes[Posted + 1] = Size(len)
  BY LengthIsRead DEF Whole
<1>3. len \in Lengths \cup {0} /\ Sizes \in Seq(Nat \ {0}) /\ Len(Sizes) = Len(sent)
  BY <1>1, <1>2, SizesFacts
<1> HIDE DEF len
<1>4. len \in Lengths /\ Size(len) = len /\ len \in Nat /\ len <= remain
  BY <1>2, <1>3, LengthFacts DEF Whole
<1>5. \A j \in 1..len : UnpostedBytes[j] = <<Posted + 1, j>>
  <2>1. \A j \in 1..Sizes[Posted + 1] : UnpostedBytes[j] = <<Posted + 1, j>>
    BY <1>1, <1>2, <1>3, FirstPacket DEF Framing
  <2> QED BY <2>1, <1>2, <1>4
<1>6. \A j \in 1..len : UnpostedBytes[j] = ring[next + j - 1]
  <2>1. remain \in Nat /\ Len(wire) \in Nat /\ Start = next
    BY <1>1 DEF Types, Places, Splitting, Start
  <2>2. \A j \in 1..len : j \in 1..Unposted /\ j <= remain
    BY <2>1, <1>4 DEF Unposted
  <2> QED BY <2>1, <2>2 DEF UnpostedBytes, UnpostedByte
<1> QED BY <1>2, <1>4, <1>5, <1>6 DEF len

\* Bytes that are moved and not posted stay where they are in the stream.
LEMMA SameStream ==
  ASSUME Framing, Unposted' = Unposted, Posted' = Posted, UNCHANGED sent,
         \A p \in 1..Unposted : UnpostedByte(p)' = UnpostedByte(p)
  PROVE  Framing'
<1>1. UnpostedBytes' = UnpostedBytes /\ Sizes' = Sizes
  BY DEF UnpostedBytes, Sizes
<1> QED BY <1>1 DEF Framing

\* No message is posted, taken or sent.
LEMMA SameMessages ==
  ASSUME Messages, Prefix, UNCHANGED <<sent, msgs, held, copied>>
  PROVE  Messages' /\ Prefix' /\ Posted' = Posted /\ Waiting' = Waiting
<1>1. Waiting' = Waiting
  BY DEF Waiting
<1>2. Posted' = Posted
  BY <1>1 DEF Posted
<1>3. Rightful' = Rightful
  BY DEF Rightful
<1> QED BY <1>1, <1>2, <1>3 DEF Messages, Prefix

----------------------------------------------------------------------------
(* Steps.                                                                  *)

LEMMA InitRing == Init => RingInv
<1> SUFFICES ASSUME Init PROVE RingInv
  OBVIOUS
<1>1. Types
  BY LengthFacts, RecvAssumption DEF Init, Types, ByteType, MsgType, Nothing, Offsets, NoByte
<1>2. Places
  BY LengthFacts DEF Init, Places, Start, Begin, Offsets
<1>3. Waiting = << >> /\ Len(Waiting) = 0 /\ Len(sent) = 0
  <2>1. msgs = << >> /\ held = Nothing /\ sent = << >>
    BY DEF Init
  <2> QED BY <2>1, <1>1, WaitingFacts
<1>4. Posted = 0 /\ copied = 0
  BY <1>3 DEF Init, Posted
<1>5. Messages
  BY <1>3, <1>4 DEF Messages
<1>6. Prefix
  <2>1. DOMAIN sent = {}
    BY DEF Init
  <2>2. Rightful = 1..0
    BY <2>1 DEF Rightful
  <2> QED BY <1>3, <2>2 DEF Prefix
<1>7. Closing
  BY DEF Init, Closing
<1>8. Framing
  <2>1. Unposted = 0
    BY DEF Init, Unposted
  <2>2. Len(Sizes) = 0
    BY <1>1, <1>3, SizesFacts
  <2> QED BY <2>1, <2>2, <1>4 DEF Framing, FramedBy, FirstAndLast, OfPackets, AllThere, InTurn
<1> QED BY <1>1, <1>2, <1>5, <1>6, <1>7, <1>8 DEF RingInv

\* A packet sent counts if it is right and none before was wrong.
LEMMA RightfulGrows ==
  ASSUME Types, NEW m \in 0..Len(sent), Rightful = 1..m,
         NEW len \in Lengths \cup {0}, sent' = Append(sent, len)
  PROVE  Rightful' = IF m = Len(sent) /\ len # 0 THEN 1..(Len(sent) + 1) ELSE Rightful
<1> DEFINE n == Len(sent) + 1
<1>1. Len(sent) \in Nat /\ n \in Nat /\ DOMAIN sent = 1..Len(sent)
  BY SizesFacts, LenProperties DEF Types
<1>2. /\ Len(sent') = n /\ sent'[n] = len /\ DOMAIN sent' = 1..n
      /\ \A k \in 1..Len(sent) : sent'[k] = sent[k]
  <2>1. sent \in Seq(Lengths \cup {0})
    BY DEF Types
  <2> QED BY <2>1, AppendProperties, LenProperties
<1>3. 1..n = 1..Len(sent) \cup {n}
  BY <1>1
<1>4. \A k \in 1..Len(sent) : k \in Rightful' <=> k \in Rightful
  <2> SUFFICES ASSUME NEW k \in 1..Len(sent) PROVE k \in Rightful' <=> k \in Rightful
    OBVIOUS
  <2>1. \A l \in 1..k : l \in 1..Len(sent)
    BY <1>1
  <2>2. \A l \in 1..k : sent'[l] = sent[l]
    BY <2>1, <1>2
  <2> QED BY <2>2, <1>1, <1>2, <1>3 DEF Rightful
<1>5. Rightful' \subseteq 1..n /\ Rightful \subseteq 1..Len(sent)
  BY <1>1, <1>2 DEF Rightful
<1>6. CASE m = Len(sent) /\ len # 0
  <2>1. \A l \in 1..Len(sent) : sent[l] # 0
    <3>1. \A l \in 1..Len(sent) : l \in Rightful
      BY <1>6
    <3> QED BY <3>1, <1>1 DEF Rightful
  <2>2. \A l \in 1..n : sent'[l] # 0
    BY <2>1, <1>2, <1>3, <1>6
  <2>3. n \in Rightful'
    BY <2>2, <1>1, <1>2 DEF Rightful
  <2>4. Rightful' = 1..n
    BY <2>3, <1>3, <1>4, <1>5, <1>6
  <2> QED BY <2>4, <1>6
<1>7. CASE ~(m = Len(sent) /\ len # 0)
  <2>1. n \notin Rightful'
    <3>1. CASE len = 0
      BY <3>1, <1>1, <1>2 DEF Rightful
    <3>2. CASE m # Len(sent)
      <4>1. m + 1 \in 1..Len(sent) /\ m + 1 \notin Rightful
        <5>1. Len(sent) \in Nat
          BY <1>1
        <5>2. m + 1 \in 1..Len(sent) /\ m + 1 \notin 1..m
          BY <3>2, <5>1
        <5> QED BY <5>2
      <4>2. PICK l \in 1..(m + 1) : sent[l] = 0
        BY <4>1, <1>1 DEF Rightful
      <4>3. l \in 1..Len(sent) /\ l \in 1..n
        BY <4>1, <1>1
      <4> QED BY <4>2, <4>3, <1>2 DEF Rightful
    <3> QED BY <3>1, <3>2, <1>7
  <2>2. Rightful' = Rightful
    BY <2>1, <1>3, <1>4, <1>5
  <2> QED BY <2>2, <1>7
<1> QED BY <1>6, <1>7

\* The client sends a packet.
LEMMA ClientSendsRing ==
  ASSUME RingInv, NEW len \in Lengths \cup {0}, ClientSends(len)
  PROVE  RingInv'
<1> DEFINE n == Len(sent) + 1
           size == Size(len)
           bytes == Bytes(n, size)
<1>1. Types /\ Places /\ Messages /\ Prefix /\ Closing /\ Framing
  BY DEF RingInv
<1>2. /\ n \in 1..MaxPackets /\ Len(sent) \in Nat
      /\ size \in Nat /\ 2 <= size /\ size <= RingSize /\ RingSize \in Nat
      /\ sent' = Append(sent, len) /\ wire' = wire \o bytes
      /\ UNCHANGED <<ring, cur, remain, next, pc, msgs, held, copied, out>>
  BY <1>1, LengthFacts, SizesFacts, RecvAssumption DEF ClientSends
<1>3. bytes \in Seq(ByteType) /\ Len(bytes) = size /\ \A i \in 1..size : bytes[i] = <<n, i>>
  <2>1. \A i \in 1..size : i \in 1..RingSize
    BY <1>2
  <2>2. \A i \in 1..size : <<n, i>> \in ByteType
    BY <1>2, <2>1 DEF ByteType
  <2>3. bytes \in [1..size -> ByteType]
    BY <2>2 DEF Bytes
  <2>4. \A i \in 1..size : bytes[i] = <<n, i>>
    BY DEF Bytes
  <2> HIDE DEF bytes, size
  <2> QED BY <2>3, <2>4, <1>2, FunctionSeq
<1> HIDE DEF bytes, size
<1>4. /\ wire' \in Seq(ByteType) /\ Len(wire') = Len(wire) + size /\ Len(wire) \in Nat
      /\ \A p \in 1..Len(wire) : wire'[p] = wire[p]
      /\ \A i \in 1..size : wire'[Len(wire) + i] = <<n, i>>
  <2>1. wire \in Seq(ByteType) /\ Len(wire) \in Nat
    BY <1>1 DEF Types
  <2>2. wire' \in Seq(ByteType) /\ Len(wire') = Len(wire) + size
    BY <2>1, <1>2, <1>3, ConcatProperties
  <2>3. \A p \in 1..(Len(wire) + Len(bytes)) :
          wire'[p] = IF p <= Len(wire) THEN wire[p] ELSE bytes[p - Len(wire)]
    BY <2>1, <1>2, <1>3, ConcatProperties
  <2>4. \A p \in 1..Len(wire) : wire'[p] = wire[p]
    BY <2>1, <2>3, <1>2, <1>3
  <2>5. ASSUME NEW i \in 1..size PROVE wire'[Len(wire) + i] = <<n, i>>
    <3>1. /\ Len(wire) + i \in 1..(Len(wire) + Len(bytes))
          /\ ~(Len(wire) + i <= Len(wire)) /\ Len(wire) + i - Len(wire) = i
      BY <1>2, <1>3, <2>1
    <3>2. bytes[i] = <<n, i>>
      BY <1>3
    <3> HIDE DEF n
    <3> QED BY <3>1, <3>2, <2>3
  <2> QED BY <2>1, <2>2, <2>4, <2>5
<1>5. /\ sent' \in Seq(Lengths \cup {0}) /\ Len(sent') = n /\ sent'[n] = len
      /\ \A m \in 1..Len(sent) : sent'[m] = sent[m]
  <2>1. sent \in Seq(Lengths \cup {0})
    BY <1>1 DEF Types
  <2> QED BY <2>1, <1>2, AppendProperties
<1>6. Types'
  BY <1>1, <1>2, <1>4, <1>5, RecvAssumption DEF Types
<1>7. Places'
  <2>1. Start' = Start
    BY <1>2 DEF Start
  <2> QED BY <1>1, <1>2, <2>1 DEF Places, PacketsFit
<1>8. Waiting' = Waiting /\ Posted' = Posted
  <2>1. Waiting' = Waiting
    BY <1>2 DEF Waiting
  <2> QED BY <1>2, <2>1 DEF Posted
<1>9. Messages'
  <2>1. Posted \in 0..Len(sent) /\ Posted \in 0..n
    BY <1>1, <1>2 DEF Messages
  <2>2. \A m \in 1..Posted : m \in 1..Len(sent)
    BY <1>2, <2>1
  <2>3. \A m \in 1..Posted : sent'[m] # 0
    BY <1>1, <1>5, <2>2 DEF Messages
  <2>4. \A i \in 1..Len(Waiting) : sent'[copied + i] = sent[copied + i]
    BY <1>1, <1>5, WaitingLength
  <2> HIDE DEF n
  <2> QED BY <1>1, <1>2, <1>5, <1>8, <2>1, <2>3, <2>4 DEF Messages
<1>10. Prefix'
  <2>1. PICK m \in 0..Len(sent) : Rightful = 1..m
    BY <1>1 DEF Prefix
  <2>2. Rightful' = IF m = Len(sent) /\ len # 0 THEN 1..n ELSE Rightful
    BY <1>1, <1>2, <2>1, RightfulGrows
  <2>3. m \in 0..n /\ n \in 0..n
    BY <1>2, <2>1
  <2> QED BY <1>5, <2>1, <2>2, <2>3 DEF Prefix
<1>11. Closing'
  <2>1. ASSUME FirstBytes >= LengthField, pc = "closed"
        PROVE  Posted + 1 \in 1..n /\ sent'[Posted + 1] = 0
    <3>1. Posted + 1 \in 1..Len(sent) /\ sent[Posted + 1] = 0
      BY <1>1, <2>1 DEF Closing
    <3> QED BY <3>1, <1>2, <1>5
  <2> HIDE DEF n
  <2> QED BY <1>1, <1>2, <1>5, <1>8, <2>1 DEF Closing
<1>12. Framing'
  <2>1. remain \in Nat /\ Unposted \in Nat
    BY <1>1, <1>4 DEF Places, Unposted
  <2>2. Unposted' = Unposted + size
    BY <2>1, <1>2, <1>4 DEF Unposted
  <2>3. Sizes' = Append(Sizes, size)
    <3>1. Sizes \in Seq(Nat \ {0}) /\ Len(Sizes) = Len(sent)
      BY <1>1, SizesFacts
    <3>2. Append(Sizes, size) = [i \in 1..n |-> IF i <= Len(sent) THEN Sizes[i] ELSE size]
      BY <3>1, AppendIs
    <3>3. \A i \in 1..n : Size(sent'[i]) = IF i <= Len(sent) THEN Sizes[i] ELSE size
      <4>1. \A i \in 1..n : i \in 1..Len(sent) \/ (i = n /\ ~(i <= Len(sent)))
        BY <1>2
      <4>2. \A i \in 1..Len(sent) : Sizes[i] = Size(sent[i])
        BY DEF Sizes
      <4> QED BY <4>1, <4>2, <1>5, <1>2 DEF size
    <3> QED BY <3>2, <3>3, <1>5 DEF Sizes
  <2>4. Start' = Start
    BY <1>2 DEF Start
  <2>5. \A p \in 1..Unposted : UnpostedByte(p)' = UnpostedByte(p)
    BY <2>1, <2>4, <1>2, <1>4 DEF UnpostedByte, Unposted
  <2>6. \A p \in 1..Unposted : UnpostedBytes'[p] = UnpostedBytes[p]
    <3>1. \A p \in 1..Unposted : p \in 1..Unposted'
      BY <1>2, <2>1, <2>2
    <3> QED BY <3>1, <2>5 DEF UnpostedBytes
  <2>7. \A i \in 1..size : UnpostedBytes'[Unposted + i] = <<n, i>>
    <3> SUFFICES ASSUME NEW i \in 1..size PROVE UnpostedBytes'[Unposted + i] = <<n, i>>
      OBVIOUS
    <3>1. PICK p \in 1..Unposted' : p = Unposted + i
      BY <2>1, <2>2, <1>2
    <3>2. UnpostedBytes'[p] = UnpostedByte(p)'
      BY DEF UnpostedBytes
    <3>3. ~(p <= remain) /\ p - remain = Len(wire) + i
      BY <3>1, <2>1, <1>1, <1>2, <1>4 DEF Unposted, Places
    <3>4. UnpostedByte(p)' = wire'[Len(wire) + i]
      BY <3>3, <1>2 DEF UnpostedByte
    <3>5. wire'[Len(wire) + i] = <<n, i>>
      BY <1>4
    <3> QED BY <3>1, <3>2, <3>4, <3>5
  <2>8. Sizes \in Seq(Nat \ {0}) /\ Posted \in 0..Len(Sizes) /\ n = Len(Sizes) + 1
    BY <1>1, SizesFacts DEF Messages
  <2>9. size \in Nat \ {0}
    BY <1>2
  <2>10. FramedBy(UnpostedBytes', Unposted + size, Posted, Append(Sizes, size))
    <3>1. FramedBy(UnpostedBytes, Unposted, Posted, Sizes)
      BY <1>1 DEF Framing
    <3>2. \A i \in 1..size : UnpostedBytes'[Unposted + i] = <<Len(Sizes) + 1, i>>
      BY <2>7, <2>8
    <3> QED BY <3>1, <3>2, <2>1, <2>6, <2>8, <2>9, AddPacket
  <2> QED BY <2>2, <2>3, <2>10, <1>8 DEF Framing
<1> QED BY <1>6, <1>7, <1>9, <1>10, <1>11, <1>12 DEF RingInv

\* WSARecv completes.
LEMMA ReceiveRing ==
  ASSUME RingInv, NEW k \in 1..RecvSize, Receive(k)
  PROVE  RingInv'
<1>1. Types /\ Places /\ Messages /\ Prefix /\ Closing /\ Framing
  BY DEF RingInv
<1>2. /\ pc = "recv" /\ pc' = "first" /\ k \in Nat \ {0} /\ k <= RecvSize /\ k <= Len(wire)
      /\ cur \in Nat /\ remain \in Nat /\ Start = cur - remain /\ Start \in Nat
      /\ cur + RecvSize <= RingSize /\ RingSize \in Nat /\ RecvSize \in Nat
      /\ wire \in Seq(ByteType) /\ Len(wire) \in Nat
  BY <1>1, LengthFacts DEF Receive, Places, Types, Start, Offsets
<1>3. /\ next' = cur - remain /\ remain' = remain + k
      /\ wire' = SubSeq(wire, k + 1, Len(wire))
      /\ UNCHANGED <<sent, cur, msgs, held, copied, out>>
  BY DEF Receive
<1>4. \A o \in Offsets : ring'[o] = IF o \in cur..(cur + k - 1) THEN wire[o - cur + 1] ELSE ring[o]
  BY DEF Receive
<1>5. /\ wire' \in Seq(ByteType) /\ Len(wire') = Len(wire) - k
      /\ \A p \in 1..(Len(wire) - k) : wire'[p] = wire[p + k]
  BY <1>2, <1>3, SubSeqProperties
<1>6. ring' \in [Offsets -> ByteType]
  <2>1. \A o \in cur..(cur + k - 1) : o - cur + 1 \in 1..Len(wire)
    BY <1>2
  <2>2. \A o \in cur..(cur + k - 1) : wire[o - cur + 1] \in ByteType
    BY <2>1, <1>2, ElementOfSeq
  <2>3. ring \in [Offsets -> ByteType]
    BY <1>1 DEF Types
  <2> QED BY <2>2, <2>3 DEF Receive
<1>7. Types'
  BY <1>1, <1>2, <1>3, <1>5, <1>6 DEF Types
<1>8. Start' = Start
  BY <1>2, <1>3 DEF Start
<1>9. Places'
  BY <1>1, <1>2, <1>3, <1>8 DEF Places, PacketsFit
<1>10. Messages' /\ Prefix' /\ Posted' = Posted
  BY <1>1, <1>3, SameMessages
<1>11. Closing'
  <2>1. FirstBytes >= LengthField => remain + k >= LengthField
    <3>1. remain = 0 => k >= FirstBytes
      BY DEF Receive
    <3>2. FirstBytes \in Nat
      BY RecvAssumption
    <3> QED BY <3>1, <3>2, <1>2 DEF LengthField
  <2> QED BY <2>1, <1>2, <1>3 DEF Closing
<1>12. Unposted' = Unposted /\ Unposted = remain + Len(wire)
  <2>1. remain' = remain + k /\ Len(wire') = Len(wire) - k
    BY <1>3, <1>5
  <2>2. remain \in Nat /\ k \in Nat /\ Len(wire) \in Nat
    BY <1>2
  <2> QED BY <2>1, <2>2 DEF Unposted
<1>13. ASSUME NEW p \in 1..Unposted PROVE UnpostedByte(p)' = UnpostedByte(p)
  <2>1. CASE p <= remain
    <3>1. p <= remain + k /\ Start + p - 1 \in Offsets /\ Start + p - 1 \notin cur..(cur + k - 1)
      BY <2>1, <1>2, <1>12 DEF Offsets
    <3>2. ring'[Start + p - 1] = ring[Start + p - 1]
      BY <3>1, <1>4
    <3> QED BY <3>1, <3>2, <2>1, <1>3, <1>8 DEF UnpostedByte
  <2>2. CASE remain < p /\ p <= remain + k
    <3>1. PICK o \in cur..(cur + k - 1) : o = Start + p - 1
      BY <2>2, <1>2, <1>12
    <3>2. o \in Offsets /\ o - cur + 1 = p - remain
      BY <3>1, <1>2, <1>12 DEF Offsets
    <3>3. ring'[o] = wire[p - remain]
      BY <3>2, <1>4
    <3>4. ~(p <= remain)
      BY <2>2, <1>2, <1>12
    <3>5. UnpostedByte(p)' = ring'[o]
      BY <3>1, <2>2, <1>3, <1>8 DEF UnpostedByte
    <3>6. UnpostedByte(p) = wire[p - remain]
      BY <3>4 DEF UnpostedByte
    <3> QED BY <3>3, <3>5, <3>6
  <2>3. CASE remain + k < p
    <3>1. ~(p <= remain) /\ ~(p <= remain + k)
      BY <2>3, <1>2, <1>12
    <3>2. PICK i \in 1..(Len(wire) - k) : i = p - (remain + k)
      BY <2>3, <1>2, <1>12
    <3>3. i + k = p - remain
      BY <3>2, <1>2, <1>12
    <3>4. UnpostedByte(p)' = wire'[i]
      BY <3>1, <3>2, <1>3 DEF UnpostedByte
    <3>5. UnpostedByte(p) = wire[i + k]
      BY <3>1, <3>3 DEF UnpostedByte
    <3> QED BY <3>4, <3>5, <1>5
  <2> QED BY <2>1, <2>2, <2>3, <1>2, <1>12
<1>14. Framing'
  BY <1>1, <1>3, <1>10, <1>12, <1>13, SameStream
<1> QED BY <1>7, <1>9, <1>10, <1>11, <1>14 DEF RingInv

\* DoRecv finds a wrong packet.
LEMMA WrongRing ==
  ASSUME RingInv, Wrong
  PROVE  RingInv'
<1>1. Types /\ Places /\ Messages /\ Prefix /\ Closing /\ Framing
  BY DEF RingInv
<1>2. /\ Splitting /\ pc' = "closed"
      /\ UNCHANGED <<sent, wire, ring, cur, remain, next, msgs, held, copied, out>>
  BY DEF Wrong
<1>3. Start' = Start
  BY <1>2 DEF Start, Splitting
<1>4. Types' /\ Places'
  BY <1>1, <1>2, <1>3 DEF Types, Places, Splitting, PacketsFit
<1>5. Messages' /\ Prefix' /\ Posted' = Posted
  BY <1>1, <1>2, SameMessages
<1>6. Closing'
  <2> SUFFICES ASSUME FirstBytes >= LengthField
               PROVE  Posted + 1 \in 1..Len(sent) /\ sent[Posted + 1] = 0
    BY <1>2, <1>5 DEF Closing
  <2>1. remain \in Nat
    BY <1>1 DEF Places
  <2>2. remain >= LengthField /\ ~Right(LengthAt(next))
    BY <1>1, <2>1 DEF Wrong, Closing, LengthField
  <2>3. Posted + 1 \in 1..Len(sent) /\ LengthAt(next) = sent[Posted + 1]
    BY <1>2, <2>2, LengthIsRead
  <2>4. sent[Posted + 1] \in Lengths \cup {0}
    BY <1>1, <2>3, SizesFacts
  <2> QED BY <2>2, <2>3, <2>4, LengthFacts
<1>7. Unposted' = Unposted /\ \A p \in 1..Unposted : UnpostedByte(p)' = UnpostedByte(p)
  BY <1>2, <1>3 DEF Unposted, UnpostedByte
<1>8. Framing'
  BY <1>1, <1>2, <1>5, <1>7, SameStream
<1> QED BY <1>4, <1>5, <1>6, <1>8 DEF RingInv

\* A message cannot be had or posted.
LEMMA PostFailsRing ==
  ASSUME RingInv, PostFails
  PROVE  RingInv'
<1>1. Types /\ Places /\ Messages /\ Prefix /\ Closing /\ Framing
  BY DEF RingInv
<1>2. /\ Splitting /\ pc' = "stalled"
      /\ UNCHANGED <<sent, wire, ring, cur, remain, next, msgs, held, copied, out>>
  BY DEF PostFails
<1>3. Start' = Start
  BY <1>2 DEF Start, Splitting
<1>4. Types' /\ Places'
  BY <1>1, <1>2, <1>3 DEF Types, Places, Splitting, PacketsFit
<1>5. Messages' /\ Prefix' /\ Posted' = Posted
  BY <1>1, <1>2, SameMessages
<1>6. Closing'
  BY <1>2 DEF Closing
<1>7. Unposted' = Unposted /\ \A p \in 1..Unposted : UnpostedByte(p)' = UnpostedByte(p)
  BY <1>2, <1>3 DEF Unposted, UnpostedByte
<1>8. Framing'
  BY <1>1, <1>2, <1>5, <1>7, SameStream
<1> QED BY <1>4, <1>5, <1>6, <1>8 DEF RingInv

\* What remains is less than a packet.
LEMMA SplitDoneRing ==
  ASSUME RingInv, SplitDone
  PROVE  RingInv'
<1>1. Types /\ Places /\ Messages /\ Prefix /\ Closing /\ Framing
  BY DEF RingInv
<1>2. /\ Splitting /\ Incomplete /\ pc' = "post"
      /\ UNCHANGED <<sent, wire, ring, cur, remain, next, msgs, held, copied, out>>
  BY DEF SplitDone
<1>3. Start' = Start
  BY <1>2 DEF Start, Splitting
<1>4. \E len \in Lengths \cup {LengthField} : remain < len
  <2>1. CASE pc = "split" /\ remain < LengthField
    BY <2>1
  <2>2. CASE remain >= LengthField /\ Right(LengthAt(next)) /\ ~Whole
    <3>1. Posted + 1 \in 1..Len(sent) /\ LengthAt(next) = sent[Posted + 1]
      BY <1>2, <2>2, LengthIsRead
    <3>2. sent[Posted + 1] \in Lengths \cup {0}
      BY <1>1, <3>1, SizesFacts
    <3>3. LengthAt(next) \in Lengths
      BY <2>2, <3>1, <3>2, LengthFacts
    <3>4. LengthAt(next) \in Nat /\ remain \in Nat
      BY <1>1, <3>3, LengthFacts DEF Places
    <3>5. ~(LengthAt(next) <= remain)
      BY <2>2 DEF Whole
    <3> QED BY <3>3, <3>4, <3>5
  <2> QED BY <1>2, <2>1, <2>2 DEF Incomplete
<1>5. Types' /\ Places'
  BY <1>1, <1>2, <1>3, <1>4 DEF Types, Places, Splitting, PacketsFit
<1>6. Messages' /\ Prefix' /\ Posted' = Posted
  BY <1>1, <1>2, SameMessages
<1>7. Closing'
  BY <1>2 DEF Closing
<1>8. Unposted' = Unposted /\ \A p \in 1..Unposted : UnpostedByte(p)' = UnpostedByte(p)
  BY <1>2, <1>3 DEF Unposted, UnpostedByte
<1>9. Framing'
  BY <1>1, <1>2, <1>6, <1>8, SameStream
<1> QED BY <1>5, <1>6, <1>7, <1>9 DEF RingInv

\* Where a message is appended, taken from the queue, or copied.
LEMMA PostWaiting ==
  ASSUME Types, NEW m \in MsgType, msgs' = Append(msgs, m), UNCHANGED <<held, copied>>
  PROVE  /\ msgs' \in Seq(MsgType) /\ Len(Waiting') = Len(Waiting) + 1 /\ Posted' = Posted + 1
         /\ Waiting'[Len(Waiting) + 1] = m
         /\ \A i \in 1..Len(Waiting) : Waiting'[i] = Waiting[i]
<1> DEFINE before == IF held = Nothing THEN << >> ELSE <<held>>
<1>1. held \in MsgType /\ msgs \in Seq(MsgType) /\ copied \in Nat
  BY DEF Types
<1>2. before \in Seq(MsgType) /\ <<m>> \in Seq(MsgType)
  BY <1>1
<1>3. Waiting = before \o msgs /\ Waiting' = before \o Append(msgs, m)
  BY DEF Waiting
<1> HIDE DEF before
<1>4. Append(msgs, m) = msgs \o <<m>> /\ Append(msgs, m) \in Seq(MsgType)
  BY <1>1, AppendIsConcat, AppendProperties
<1>5. Waiting' = Waiting \o <<m>>
  BY <1>1, <1>2, <1>3, <1>4, ConcatAssociative
<1>6. Waiting \in Seq(MsgType) /\ Len(Waiting) \in Nat
  BY WaitingFacts
<1>7. Waiting' = Append(Waiting, m)
  BY <1>5, <1>6, AppendIsConcat
<1>8. /\ Len(Waiting') = Len(Waiting) + 1 /\ Waiting'[Len(Waiting) + 1] = m
      /\ \A i \in 1..Len(Waiting) : Waiting'[i] = Waiting[i]
  BY <1>6, <1>7, AppendProperties
<1>9. Posted' = Posted + 1
  BY <1>1, <1>6, <1>8 DEF Posted
<1> QED BY <1>4, <1>8, <1>9

LEMMA DequeueWaiting ==
  ASSUME Types, Messages, Dequeue
  PROVE  /\ msgs' \in Seq(MsgType) /\ held' \in MsgType
         /\ Waiting' = Waiting /\ Posted' = Posted
<1>1. /\ held = Nothing /\ msgs # << >> /\ held' = Head(msgs) /\ msgs' = Tail(msgs)
      /\ UNCHANGED copied
  BY DEF Dequeue
<1>2. Waiting = msgs /\ msgs \in Seq(MsgType) /\ Len(msgs) \in Nat
  BY <1>1, WaitingFacts DEF Types
<1>3. held' = msgs[1] /\ held' \in MsgType /\ msgs' \in Seq(MsgType) /\ 1 \in 1..Len(msgs)
  BY <1>1, <1>2, HeadTailProperties
<1>4. held' # Nothing
  BY <1>2, <1>3, WaitingLength
<1>5. Waiting' = <<held'>> \o msgs'
  BY <1>4 DEF Waiting
<1>6. Waiting' = msgs
  BY <1>1, <1>2, <1>5
<1>7. Posted' = Posted
  BY <1>1, <1>2, <1>6 DEF Posted
<1> QED BY <1>2, <1>3, <1>6, <1>7

LEMMA CopyWaiting ==
  ASSUME Types, Messages, Copy
  PROVE  /\ 1 \in 1..Len(Waiting) /\ held = Waiting[1] /\ copied' = copied + 1
         /\ Len(Waiting') = Len(Waiting) - 1 /\ Posted' = Posted
         /\ \A i \in 1..(Len(Waiting) - 1) : Waiting'[i] = Waiting[i + 1]
<1>1. held # Nothing /\ held' = Nothing /\ copied' = copied + 1 /\ msgs' = msgs
  BY DEF Copy
<1>2. /\ Len(Waiting) = Len(msgs) + 1 /\ Len(msgs) \in Nat /\ Waiting[1] = held
      /\ \A i \in 1..Len(msgs) : Waiting[i + 1] = msgs[i]
  BY <1>1, WaitingFacts
<1>3. Waiting' = msgs
  <2>1. Waiting' = << >> \o msgs
    BY <1>1 DEF Waiting
  <2> QED BY <2>1, ConcatEmptySeq DEF Types
<1>4. Posted' = Posted
  <2>1. copied \in Nat
    BY DEF Types
  <2> QED BY <2>1, <1>1, <1>2, <1>3 DEF Posted
<1> QED BY <1>1, <1>2, <1>3, <1>4

\* DoRecv posts a whole packet.
LEMMA PostRing ==
  ASSUME RingInv, Post
  PROVE  RingInv'
<1> DEFINE len == sent[Posted + 1]
           m == [at |-> next, len |-> len]
<1>1. Types /\ Places /\ Messages /\ Prefix /\ Closing /\ Framing
  BY DEF RingInv
<1>2. /\ Splitting /\ Whole /\ pc' = "split"
      /\ UNCHANGED <<sent, wire, ring, cur, held, copied, out>>
  BY DEF Post
<1>3. /\ Posted + 1 \in 1..Len(sent) /\ Unposted \in Nat \ {0}
      /\ LengthAt(next) = len /\ len \in Lengths /\ Sizes[Posted + 1] = len /\ len <= remain
  BY <1>2, WholePacket
<1>4. msgs' = Append(msgs, m) /\ next' = next + len /\ remain' = remain - len
  BY <1>3 DEF Post
<1> HIDE DEF len
<1>5. /\ len \in Nat /\ 2 <= len /\ remain \in Nat /\ next \in Nat /\ Start = next
      /\ next + remain <= RingSize /\ RingSize \in Nat /\ Len(wire) \in Nat
      /\ Posted \in Nat /\ Len(sent) \in Nat
  <2>1. len \in Nat /\ 2 <= len /\ RingSize \in Nat
    BY <1>3, LengthFacts
  <2>2. Posted \in Nat /\ Len(sent) \in Nat /\ Len(wire) \in Nat
    BY <1>1, SizesFacts DEF Messages, Types
  <2>3. remain \in Nat /\ next \in 0..RingSize /\ Start + remain <= RingSize
    BY <1>1 DEF Places
  <2>4. Start = next
    BY <1>2 DEF Start, Splitting
  <2> QED BY <2>1, <2>2, <2>3, <2>4
<1>6. m \in MsgType /\ m.len = len /\ m.at + m.len <= RingSize
  <2>1. next \in Offsets /\ len \in 0..RingSize
    BY <1>3, <1>5 DEF Offsets
  <2> QED BY <2>1, <1>3, <1>5 DEF MsgType
<1> HIDE DEF m
<1>7. /\ msgs' \in Seq(MsgType) /\ Len(Waiting') = Len(Waiting) + 1 /\ Posted' = Posted + 1
      /\ Waiting'[Len(Waiting) + 1] = m
      /\ \A i \in 1..Len(Waiting) : Waiting'[i] = Waiting[i]
  BY <1>1, <1>2, <1>4, <1>6, PostWaiting
<1>8. Start' = next + len
  BY <1>2, <1>4 DEF Start
<1>9. Types'
  BY <1>1, <1>2, <1>7 DEF Types
<1>10. Places'
  <2>1. next + len \in 0..RingSize /\ remain - len \in Nat
        /\ next + len + (remain - len) = next + remain
    BY <1>3, <1>5
  <2>2. next + remain \in cur..(cur + RecvSize)
    BY <1>1, <1>2 DEF Places, Splitting
  <2> QED BY <2>1, <2>2, <1>1, <1>2, <1>4, <1>5, <1>8 DEF Places, Splitting, PacketsFit
<1>11. Messages'
  <2>1. Len(Waiting) \in Nat /\ copied \in Nat /\ Posted = copied + Len(Waiting)
    BY <1>1, WaitingFacts DEF Types, Posted
  <2>2. Posted + 1 \in 0..Len(sent)
    BY <1>3, <1>5
  <2>3. len # 0
    BY <1>5
  <2>4. \A n \in 1..(Posted + 1) : sent[n] # 0
    <3>1. \A n \in 1..(Posted + 1) : n \in 1..Posted \/ n = Posted + 1
      BY <1>5
    <3> QED BY <3>1, <2>3, <1>1 DEF Messages, len
  <2>5. ASSUME NEW i \in 1..(Len(Waiting) + 1)
        PROVE  Waiting'[i].len = sent[copied + i] /\ Waiting'[i].at + Waiting'[i].len <= RingSize
    <3>1. CASE i \in 1..Len(Waiting)
      BY <3>1, <1>1, <1>7 DEF Messages
    <3>2. CASE i \notin 1..Len(Waiting)
      <4>1. i = Len(Waiting) + 1 /\ copied + i = Posted + 1
        BY <3>2, <2>1
      <4> QED BY <4>1, <1>6, <1>7 DEF len
    <3> QED BY <3>1, <3>2
  <2> QED BY <2>2, <2>4, <2>5, <1>2, <1>7 DEF Messages
<1>12. Prefix'
  BY <1>1, <1>2 DEF Prefix, Rightful
<1>13. Closing'
  BY <1>2 DEF Closing
<1>14. Unposted' = Unposted - len
  BY <1>2, <1>3, <1>4, <1>5 DEF Unposted
<1>15. \A p \in 1..(Unposted - len) : UnpostedBytes'[p] = UnpostedBytes[p + len]
  <2> SUFFICES ASSUME NEW p \in 1..(Unposted - len)
               PROVE  UnpostedBytes'[p] = UnpostedBytes[p + len]
    OBVIOUS
  <2>1. p \in 1..Unposted' /\ p + len \in 1..Unposted
    BY <1>3, <1>5, <1>14
  <2>2. UnpostedBytes'[p] = UnpostedByte(p)' /\ UnpostedBytes[p + len] = UnpostedByte(p + len)
    BY <2>1 DEF UnpostedBytes
  <2>3. CASE p + len <= remain
    <3>1. p <= remain - len
      BY <2>3, <2>1, <1>5
    <3>2. next + len + p - 1 = next + (p + len) - 1
      BY <2>1, <1>5
    <3>3. UnpostedByte(p)' = ring[next + len + p - 1]
      BY <3>1, <1>2, <1>4, <1>8 DEF UnpostedByte
    <3>4. UnpostedByte(p + len) = ring[next + (p + len) - 1]
      BY <2>3, <1>5 DEF UnpostedByte
    <3> QED BY <2>2, <3>2, <3>3, <3>4
  <2>4. CASE ~(p + len <= remain)
    <3>1. PICK r \in 1..Unposted, i \in Nat : r = p + len /\ i = r - remain
      BY <2>1, <2>4, <1>5
    <3>2. ~(p <= remain - len) /\ ~(r <= remain) /\ p - (remain - len) = i
      BY <2>1, <2>4, <3>1, <1>5
    <3>3. UnpostedByte(p)' = wire[i]
      BY <3>2, <1>2, <1>4 DEF UnpostedByte
    <3>4. UnpostedByte(r) = wire[i]
      BY <3>1, <3>2 DEF UnpostedByte
    <3> QED BY <2>2, <3>1, <3>3, <3>4
  <2> QED BY <2>3, <2>4
<1>16. Framing'
  <2>1. Sizes \in Seq(Nat \ {0}) /\ Posted \in 0..Len(Sizes) /\ Sizes' = Sizes
    <3>1. Sizes' = Sizes
      BY <1>2 DEF Sizes
    <3> QED BY <3>1, <1>1, SizesFacts DEF Messages
  <2>2. FramedBy(UnpostedBytes, Unposted, Posted, Sizes)
    BY <1>1 DEF Framing
  <2>3. \A p \in 1..(Unposted - Sizes[Posted + 1]) :
          UnpostedBytes'[p] = UnpostedBytes[p + Sizes[Posted + 1]]
    BY <1>3, <1>15
  <2>4. FramedBy(UnpostedBytes', Unposted - Sizes[Posted + 1], Posted + 1, Sizes)
    BY <1>3, <2>1, <2>2, <2>3, TakePacket
  <2> QED BY <2>1, <2>4, <1>3, <1>7, <1>14 DEF Framing
<1> QED BY <1>9, <1>10, <1>11, <1>12, <1>13, <1>16 DEF RingInv

\* PostRecv, with the mark moved along or put back to the beginning.
LEMMA PostRecvRing ==
  ASSUME RingInv, PostRecv
  PROVE  /\ RingInv'
         /\ IF End - cur >= RecvSize + MoveMark
            THEN Start' = Start /\ cur' = next + remain
            ELSE Start' = 0 /\ cur' = remain
<1>1. Types /\ Places /\ Messages /\ Prefix /\ Closing /\ Framing
  BY DEF RingInv
<1>2. /\ pc = "post" /\ pc' \in {"recv", "undefined"}
      /\ UNCHANGED <<sent, wire, remain, next, msgs, held, copied, out>>
  BY DEF PostRecv, Posts
<1>3. /\ cur \in Nat /\ remain \in Nat /\ next \in Nat /\ Start = next
      /\ next + remain <= RingSize /\ next + remain \in cur..(cur + RecvSize)
      /\ MoveMark \in 0..RecvSize /\ cur + MoveMark = next + remain
  <2>1. Start = next
    BY <1>2 DEF Start
  <2> QED BY <2>1, <1>1, <1>2, LengthFacts DEF Places, MoveMark, Offsets
<1>4. RingSize \in Nat /\ RecvSize \in Nat \ {0} /\ MoveMark \in Nat
  BY <1>3, LengthFacts
<1>5. Messages' /\ Prefix' /\ Posted' = Posted
  BY <1>1, <1>2, SameMessages
<1>6. Closing'
  BY <1>2 DEF Closing
<1>7. CASE End - cur >= RecvSize + MoveMark
  <2>1. ring' = ring /\ cur' = next + remain /\ pc' = "recv"
    <3>1. ~(End - cur < RecvSize + MoveMark)
      BY <1>3, <1>4, <1>7 DEF End
    <3>2. Ahead /\ Posts(TRUE)
      BY <3>1 DEF PostRecv
    <3> QED BY <3>2, <1>3 DEF Ahead, Posts
  <2>2. Start' = Start
    BY <1>2, <1>3, <2>1 DEF Start
  <2>3. Types'
    BY <1>1, <1>2, <2>1 DEF Types
  <2>4. Places'
    <3>1. cur' + RecvSize <= RingSize
      BY <1>3, <1>4, <1>7, <2>1 DEF End
    <3>2. cur' \in Offsets
      BY <3>1, <1>3, <1>4, <2>1 DEF Offsets
    <3> QED BY <3>1, <3>2, <1>1, <1>2, <1>3, <2>1, <2>2 DEF Places
  <2>5. Unposted' = Unposted /\ \A p \in 1..Unposted : UnpostedByte(p)' = UnpostedByte(p)
    BY <1>2, <2>1, <2>2 DEF Unposted, UnpostedByte
  <2>6. Framing'
    BY <1>1, <1>2, <1>5, <2>5, SameStream
  <2> QED BY <1>5, <1>6, <1>7, <2>1, <2>2, <2>3, <2>4, <2>6 DEF RingInv
<1>8. CASE ~(End - cur >= RecvSize + MoveMark)
  <2>1. /\ ring' = [o \in Offsets |-> IF o < remain THEN ring[next + o] ELSE ring[o]]
        /\ cur' = remain /\ pc' = IF RestFits THEN "recv" ELSE "undefined"
    <3>1. MoveRest /\ Posts(RestFits)
      BY <1>8 DEF PostRecv
    <3> QED BY <3>1, <1>3 DEF MoveRest, Posts, Begin
  <2>2. Start' = 0
    BY <1>2, <1>3, <2>1 DEF Start
  <2>3. Types'
    <3>1. \A o \in Offsets : o < remain => next + o \in Offsets
      BY <1>3, <1>4 DEF Offsets
    <3>2. ring' \in [Offsets -> ByteType]
      BY <1>1, <2>1, <3>1 DEF Types
    <3> QED BY <1>1, <1>2, <3>2 DEF Types
  <2>4. Places'
    <3>1. PICK len \in Lengths \cup {LengthField} : remain < len
      BY <1>1, <1>2 DEF Places
    <3>2. len \in Nat /\ len <= RingSize
      BY <3>1, <1>4, LengthFacts DEF LengthField
    <3>3. cur' \in Offsets /\ remain <= RingSize
      BY <3>1, <3>2, <1>3, <1>4, <2>1 DEF Offsets
    <3>4. pc' # "undefined" => cur' + RecvSize <= RingSize
      BY <2>1 DEF RestFits
    <3>5. ASSUME PacketsFit PROVE pc' # "undefined"
      <4>1. 2 * (len - 1) + RecvSize <= RingSize
        BY <3>1, <3>5 DEF PacketsFit
      <4>2. next + remain + RecvSize >= RingSize
        BY <1>3, <1>4, <1>8 DEF End
      <4>3. RestFits
        BY <4>1, <4>2, <3>1, <3>2, <1>3, <1>4 DEF RestFits
      <4> QED BY <4>3, <2>1
    <3>6. remain' \in Nat /\ next' \in 0..RingSize /\ Start' \in Nat /\ Start' + remain' <= RingSize
      BY <3>3, <1>2, <1>3, <1>4, <2>2
    <3>7. PacketsFit' => PacketsFit
      BY DEF PacketsFit
    <3> QED BY <3>3, <3>4, <3>5, <3>6, <3>7, <1>2 DEF Places
  <2>5. Unposted' = Unposted
    BY <1>2 DEF Unposted
  <2>6. ASSUME NEW p \in 1..Unposted PROVE UnpostedByte(p)' = UnpostedByte(p)
    <3>1. CASE p <= remain
      <4>1. PICK o \in Offsets : o = p - 1
        BY <3>1, <1>3, <1>4 DEF Offsets
      <4>2. o < remain /\ 0 + p - 1 = o /\ next + p - 1 = next + o
        BY <3>1, <4>1, <1>3
      <4>3. ring'[o] = ring[next + o]
        BY <2>1, <4>2
      <4>4. UnpostedByte(p)' = ring'[0 + p - 1]
        BY <3>1, <1>2, <2>2 DEF UnpostedByte
      <4>5. UnpostedByte(p) = ring[next + p - 1]
        BY <3>1, <1>3 DEF UnpostedByte
      <4> QED BY <4>2, <4>3, <4>4, <4>5
    <3>2. CASE ~(p <= remain)
      BY <3>2, <1>2 DEF UnpostedByte
    <3> QED BY <3>1, <3>2
  <2>7. Framing'
    BY <1>1, <1>2, <1>5, <2>5, <2>6, SameStream
  <2> QED BY <1>5, <1>6, <1>8, <2>1, <2>2, <2>3, <2>4, <2>7 DEF RingInv
<1> QED BY <1>7, <1>8

\* A logic thread takes a message, and copies the packet.
LEMMA DequeueRing ==
  ASSUME RingInv, Dequeue
  PROVE  RingInv'
<1>1. Types /\ Places /\ Messages /\ Prefix /\ Closing /\ Framing
  BY DEF RingInv
<1>2. UNCHANGED <<sent, wire, ring, cur, remain, next, pc, copied, out>>
  BY DEF Dequeue
<1>3. /\ msgs' \in Seq(MsgType) /\ held' \in MsgType
      /\ Waiting' = Waiting /\ Posted' = Posted
  BY <1>1, DequeueWaiting
<1>4. Start' = Start
  BY <1>2 DEF Start
<1>5. Types' /\ Places'
  BY <1>1, <1>2, <1>3, <1>4 DEF Types, Places, PacketsFit
<1>6. Messages' /\ Prefix' /\ Closing'
  BY <1>1, <1>2, <1>3 DEF Messages, Prefix, Rightful, Closing
<1>7. Unposted' = Unposted /\ \A p \in 1..Unposted : UnpostedByte(p)' = UnpostedByte(p)
  BY <1>2, <1>4 DEF Unposted, UnpostedByte
<1>8. Framing'
  BY <1>1, <1>2, <1>3, <1>7, SameStream
<1> QED BY <1>5, <1>6, <1>8 DEF RingInv

LEMMA CopyRing ==
  ASSUME RingInv, Copy
  PROVE  RingInv'
<1>1. Types /\ Places /\ Messages /\ Prefix /\ Closing /\ Framing
  BY DEF RingInv
<1>2. /\ UNCHANGED <<sent, wire, ring, cur, remain, next, pc, msgs>>
      /\ held' = Nothing /\ copied' = copied + 1
      /\ out' = [i \in 1..held.len |-> ring[held.at + i - 1]]
  BY DEF Copy
<1>3. /\ 1 \in 1..Len(Waiting) /\ held = Waiting[1] /\ Posted' = Posted
      /\ Len(Waiting') = Len(Waiting) - 1 /\ Len(Waiting) \in Nat
      /\ \A i \in 1..(Len(Waiting) - 1) : Waiting'[i] = Waiting[i + 1]
  BY <1>1, CopyWaiting, WaitingFacts
<1>4. held.at \in Nat /\ held.len \in Nat /\ held.at + held.len <= RingSize
  <2>1. held.at \in Nat /\ held.len \in Lengths
    BY <1>1, <1>3, WaitingLength
  <2>2. held.at + held.len <= RingSize
    BY <1>1, <1>3 DEF Messages
  <2> QED BY <2>1, <2>2, LengthFacts
<1>5. out' \in Seq(ByteType)
  <2>1. \A i \in 1..held.len : held.at + i - 1 \in Offsets
    BY <1>4, LengthFacts DEF Offsets
  <2>2. ring \in [Offsets -> ByteType]
    BY <1>1 DEF Types
  <2>3. out' \in [1..held.len -> ByteType]
    BY <1>2, <2>1, <2>2
  <2> QED BY <2>3, <1>4, FunctionSeq
<1>6. Types'
  <2>1. Nothing \in MsgType
    BY LengthFacts DEF Nothing, MsgType, Offsets
  <2> QED BY <2>1, <1>1, <1>2, <1>5 DEF Types
<1>7. Start' = Start
  BY <1>2 DEF Start
<1>8. Places'
  BY <1>1, <1>2, <1>7 DEF Places, PacketsFit
<1>9. Messages'
  <2>1. copied \in Nat
    BY <1>1 DEF Types
  <2>2. ASSUME NEW i \in 1..(Len(Waiting) - 1)
        PROVE  /\ Waiting'[i].len = sent[copied + 1 + i]
               /\ Waiting'[i].at + Waiting'[i].len <= RingSize
    <3>1. i + 1 \in 1..Len(Waiting) /\ copied + (i + 1) = copied + 1 + i
      BY <1>3, <2>1
    <3> QED BY <3>1, <1>1, <1>3 DEF Messages
  <2> QED BY <2>2, <1>1, <1>2, <1>3 DEF Messages
<1>10. Prefix' /\ Closing'
  BY <1>1, <1>2, <1>3 DEF Prefix, Rightful, Closing
<1>11. Unposted' = Unposted /\ \A p \in 1..Unposted : UnpostedByte(p)' = UnpostedByte(p)
  BY <1>2, <1>7 DEF Unposted, UnpostedByte
<1>12. Framing'
  BY <1>1, <1>2, <1>3, <1>11, SameStream
<1> QED BY <1>6, <1>8, <1>9, <1>10, <1>12 DEF RingInv

LEMMA NextRing == RingInv /\ [Next]_vars => RingInv'
<1> SUFFICES ASSUME RingInv, [Next]_vars PROVE RingInv'
  OBVIOUS
<1>1. ASSUME NEW len \in Lengths \cup {0}, ClientSends(len) PROVE RingInv'
  BY <1>1, ClientSendsRing
<1>2. ASSUME NEW k \in 1..RecvSize, Receive(k) PROVE RingInv'
  BY <1>2, ReceiveRing
<1>3. CASE Wrong
  BY <1>3, WrongRing
<1>4. CASE Post
  BY <1>4, PostRing
<1>5. CASE PostFails
  BY <1>5, PostFailsRing
<1>6. CASE SplitDone
  BY <1>6, SplitDoneRing
<1>7. CASE PostRecv
  BY <1>7, PostRecvRing
<1>8. CASE Dequeue
  BY <1>8, DequeueRing
<1>9. CASE Copy
  BY <1>9, CopyRing
<1>10. CASE UNCHANGED vars
  <2>1. UNCHANGED <<sent, wire, ring, cur, remain, next, pc, msgs, held, copied, out>>
    BY <1>10 DEF vars
  <2>2. Types /\ Places /\ Messages /\ Prefix /\ Closing /\ Framing
    BY DEF RingInv
  <2>3. Start' = Start
    BY <2>1 DEF Start
  <2>4. Types' /\ Places'
    BY <2>1, <2>2, <2>3 DEF Types, Places, PacketsFit
  <2>5. Messages' /\ Prefix' /\ Posted' = Posted
    BY <2>1, <2>2, SameMessages
  <2>6. Closing'
    BY <2>1, <2>2, <2>5 DEF Closing
  <2>7. Unposted' = Unposted /\ \A p \in 1..Unposted : UnpostedByte(p)' = UnpostedByte(p)
    BY <2>1, <2>3 DEF Unposted, UnpostedByte
  <2>8. Framing'
    BY <2>1, <2>2, <2>5, <2>7, SameStream
  <2> QED BY <2>4, <2>5, <2>6, <2>8 DEF RingInv
<1> QED BY <1>1, <1>2, <1>3, <1>4, <1>5, <1>6, <1>7, <1>8, <1>9, <1>10
        DEF Next, Kernel, Worker, Logic

\* The invariant holds whatever the sizes are and however much waits.
THEOREM StreamKept == Spec => []RingInv
BY InitRing, NextRing, PTL DEF Spec

\* Only PostRecv finds that the ring is crowded, and it stays so.
LEMMA CrowdedStep ==
  ASSUME [Next]_vars
  PROVE  UNCHANGED crowded \/ (PostRecv /\ crowded' = (crowded \/ Tight))
<1>1. PostRecv => crowded' = (crowded \/ Tight)
  BY DEF PostRecv, Posts
<1>2. (Kernel \/ Wrong \/ Post \/ PostFails \/ SplitDone \/ Logic \/ UNCHANGED vars)
      => UNCHANGED crowded
  BY DEF Kernel, Receive, Wrong, Post, PostFails, SplitDone, Logic, Dequeue, Copy, vars
<1>3. (\E len \in Lengths \cup {0} : ClientSends(len)) => UNCHANGED crowded
  BY DEF ClientSends
<1> QED BY <1>1, <1>2, <1>3 DEF Next, Worker

LEMMA CrowdedIs == Spec => [](crowded \in BOOLEAN)
<1>1. Init => crowded \in BOOLEAN
  BY DEF Init
<1>2. crowded \in BOOLEAN /\ [Next]_vars => (crowded \in BOOLEAN)'
  BY CrowdedStep
<1> QED BY <1>1, <1>2, PTL DEF Spec

\* TypeOK: as long as packets leave room for it, WSARecv always has RecvSize
\* bytes of the ring to write to, also where PostRecv has moved the rest of a
\* packet to the beginning, and what was received never reaches beyond the end.
THEOREM TypeCorrect == Spec => []TypeOK
<1>1. RingInv /\ crowded \in BOOLEAN => TypeOK
  <2> SUFFICES ASSUME RingInv, crowded \in BOOLEAN PROVE TypeOK
    OBVIOUS
  <2>1. Types /\ Places /\ Messages
    BY DEF RingInv
  <2>2. RingSize \in Nat /\ RecvSize \in Nat \ {0} /\ MaxPackets \in Nat
    BY RecvAssumption
  <2>3. copied \in 0..MaxPackets
    <3>1. copied \in Nat /\ Len(Waiting) \in Nat /\ Len(sent) \in Nat /\ Len(sent) <= MaxPackets
      BY <2>1, WaitingFacts, SizesFacts DEF Types
    <3>2. copied + Len(Waiting) <= Len(sent)
      BY <2>1, <3>1 DEF Messages, Posted
    <3> QED BY <2>2, <3>1, <3>2
  <2>4. remain \in 0..RingSize
    BY <2>1, <2>2 DEF Places
  <2> QED BY <2>1, <2>3, <2>4 DEF Types, Places, TypeOK
<1> QED BY <1>1, StreamKept, CrowdedIs, PTL

\* Framed: if the first piece of a packet always has its length field, DoRecv
\* closes the connection for a wrong packet only, with all before it posted.
\* Without that, it takes a first piece of one byte for a wrong packet.
THEOREM ClosedForWrong ==
  ASSUME FirstBytes >= LengthField
  PROVE  Spec => []Framed
<1>1. RingInv => Framed
  <2> SUFFICES ASSUME RingInv, pc = "closed"
               PROVE  LET n == copied + Len(Waiting) + 1
                      IN n \in DOMAIN sent /\ sent[n] = 0 /\ \A m \in 1..(n - 1) : sent[m] # 0
    BY DEF Framed
  <2>1. Posted + 1 \in 1..Len(sent) /\ sent[Posted + 1] = 0
    BY DEF RingInv, Closing
  <2>2. DOMAIN sent = 1..Len(sent)
    BY LenProperties DEF RingInv, Types
  <2>3. Posted \in Nat /\ \A m \in 1..Posted : sent[m] # 0
    BY DEF RingInv, Messages
  <2>4. Posted + 1 - 1 = Posted /\ Posted = copied + Len(Waiting)
    BY <2>3 DEF Posted
  <2> QED BY <2>1, <2>2, <2>3, <2>4
<1> QED BY <1>1, StreamKept, PTL

----------------------------------------------------------------------------
(* Why nothing in the ring is overwritten before it is copied, until a     *)
(* receive is posted while the ring is Tight.  At a wrap the next receive  *)
(* goes behind less than a packet: all that waits to be copied must lie    *)
(* between its end and the rest of that packet.                            *)

\* The packets posted and not copied are in the ring as they were received.
Content ==
  \A i \in 1..Len(Waiting) : \A j \in 1..Waiting[i].len :
    ring[Waiting[i].at + j - 1] = <<copied + i, j>>

From(w, i) == w[i].at
To(w, i) == w[i].at + w[i].len

\* Messages i to j of w lie one behind the other and the last ends at end.
Pass(w, i, j, end) ==
  /\ \A k \in i..j : To(w, k) <= end
  /\ \A k, l \in i..j : k < l => To(w, k) <= From(w, l)
  /\ \A k \in i..j : k + 1 <= j => From(w, k + 1) = To(w, k)
  /\ i <= j => To(w, j) = end

\* Where the messages from i on begin, if there are any.
Oldest(w, i, end) == IF i <= Len(w) THEN From(w, i) ELSE end

\* All that waits is of one pass through the ring, or the first j messages are
\* of the pass before, which ended at b.
Straight ==
  /\ Pass(Waiting, 1, Len(Waiting), Start)
  /\ uncopied = Start - Oldest(Waiting, 1, Start) + remain

WrappedAt(j, b) ==
  /\ Pass(Waiting, 1, j, b)
  /\ Pass(Waiting, j + 1, Len(Waiting), Start)
  /\ Oldest(Waiting, j + 1, Start) = 0
  /\ uncopied = b - From(Waiting, 1) + Start + remain

\* Where a pass may end: no receive fits behind it and a rest of a packet.
Ends ==
  {b \in 0..RingSize :
     \E len \in Lengths \cup {LengthField} : b + RecvSize + len - 1 >= RingSize}

Wrapped == \E j \in 1..Len(Waiting) : \E b \in Ends : WrappedAt(j, b)

Geometry ==
  /\ uncopied \in Nat
  /\ pc = "recv" => ~Tight
  /\ Straight \/ Wrapped

LoadInv == RingInv /\ crowded \in BOOLEAN /\ (crowded \/ (Content /\ Geometry))

\* Passes: of messages that stay, that lose their first, that gain one.
LEMMA PassSame ==
  ASSUME NEW i \in Nat, NEW j \in Nat, NEW w, NEW v, NEW end,
         \A k \in i..j : v[k] = w[k], Pass(w, i, j, end)
  PROVE  Pass(v, i, j, end)
<1>1. \A k \in i..j : k + 1 <= j => k + 1 \in i..j
  OBVIOUS
<1>2. i <= j => j \in i..j
  OBVIOUS
<1> QED BY <1>1, <1>2 DEF Pass, From, To

LEMMA PassShifts ==
  ASSUME NEW i \in Nat \ {0}, NEW j \in Nat, NEW w, NEW v, NEW end,
         \A k \in i..j : v[k] = w[k + 1], Pass(w, i + 1, j + 1, end)
  PROVE  Pass(v, i, j, end)
<1>1. \A k \in i..j : k + 1 \in (i + 1)..(j + 1)
  OBVIOUS
<1>2. \A k \in i..j : To(v, k) <= end
  BY <1>1 DEF Pass, To
<1>3. ASSUME NEW k \in i..j, NEW l \in i..j, k < l PROVE To(v, k) <= From(v, l)
  <2>1. k + 1 \in (i + 1)..(j + 1) /\ l + 1 \in (i + 1)..(j + 1) /\ k + 1 < l + 1
    BY <1>3
  <2>2. To(w, k + 1) <= From(w, l + 1)
    BY <2>1 DEF Pass
  <2> QED BY <2>2 DEF To, From
<1>4. ASSUME NEW k \in i..j, k + 1 <= j PROVE From(v, k + 1) = To(v, k)
  <2>1. k + 1 \in i..j /\ k + 1 \in (i + 1)..(j + 1) /\ k + 1 + 1 <= j + 1
    BY <1>4
  <2>2. From(w, k + 1 + 1) = To(w, k + 1)
    BY <2>1 DEF Pass
  <2>3. v[k + 1] = w[k + 1 + 1] /\ v[k] = w[k + 1]
    BY <2>1
  <2> QED BY <2>2, <2>3 DEF To, From
<1>5. ASSUME i <= j PROVE To(v, j) = end
  <2>1. j \in i..j /\ To(w, j + 1) = end
    BY <1>5 DEF Pass
  <2> QED BY <2>1 DEF To
<1> QED BY <1>2, <1>3, <1>4, <1>5 DEF Pass

LEMMA PassDropsFirst ==
  ASSUME NEW j \in Nat, NEW w, NEW end, Pass(w, 1, j, end)
  PROVE  Pass(w, 2, j, end)
<1>1. \A k \in 2..j : k \in 1..j
  OBVIOUS
<1>2. 2 <= j => 1 <= j
  OBVIOUS
<1> QED BY <1>1, <1>2 DEF Pass

LEMMA PassGrows ==
  ASSUME NEW i \in Nat \ {0}, NEW n \in Nat, i <= n + 1, NEW w, NEW v,
         NEW start \in Nat, NEW len \in Nat,
         \A k \in 1..n : v[k] = w[k] /\ w[k].at \in Nat /\ w[k].len \in Nat,
         v[n + 1].at = start, v[n + 1].len = len,
         Pass(w, i, n, start)
  PROVE  Pass(v, i, n + 1, start + len)
<1>1. \A k \in i..(n + 1) : (k \in 1..n /\ k \in i..n) \/ k = n + 1
  OBVIOUS
<1>2. From(v, n + 1) = start /\ To(v, n + 1) = start + len
  BY DEF From, To
<1>3. \A k \in i..n : k \in 1..n
  OBVIOUS
<1>4. /\ \A k \in i..n : To(v, k) = To(w, k) /\ From(v, k) = From(w, k) /\ To(w, k) \in Nat
      /\ \A k \in i..n : To(w, k) <= start
  BY <1>3 DEF From, To, Pass
<1>5. \A k \in i..(n + 1) : To(v, k) <= start + len
  BY <1>1, <1>2, <1>4
<1>6. ASSUME NEW k \in i..(n + 1), NEW l \in i..(n + 1), k < l
      PROVE  To(v, k) <= From(v, l)
  <2>1. k \in i..n
    BY <1>6
  <2>2. CASE l \in i..n
    BY <1>4, <1>6, <2>1, <2>2 DEF Pass
  <2>3. CASE l = n + 1
    BY <1>2, <1>4, <2>1, <2>3
  <2> QED BY <1>1, <2>2, <2>3
<1>7. ASSUME NEW k \in i..(n + 1), k + 1 <= n + 1 PROVE From(v, k + 1) = To(v, k)
  <2>1. k \in i..n
    BY <1>7
  <2>2. CASE k = n
    <3>1. To(w, n) = start
      BY <2>1, <2>2 DEF Pass
    <3> QED BY <3>1, <2>1, <2>2, <1>2, <1>4
  <2>3. CASE k # n
    <3>1. k + 1 \in i..n /\ k + 1 <= n
      BY <2>1, <2>3
    <3>2. From(w, k + 1) = To(w, k)
      BY <3>1, <2>1 DEF Pass
    <3> QED BY <3>1, <3>2, <2>1, <1>4
  <2> QED BY <2>2, <2>3
<1> QED BY <1>2, <1>5, <1>6, <1>7 DEF Pass

\* The numbers the positions are counted in.
LEMMA Numbers ==
  ASSUME RingInv
  PROVE  /\ RingSize \in Nat /\ RecvSize \in Nat \ {0}
         /\ Start \in Nat /\ remain \in Nat
         /\ Start + remain <= RingSize /\ Len(Waiting) \in Nat
         /\ \A i \in 1..Len(Waiting) :
              /\ Waiting[i].at \in Nat /\ Waiting[i].len \in Nat /\ 2 <= Waiting[i].len
              /\ From(Waiting, i) \in Nat /\ To(Waiting, i) \in Nat
              /\ From(Waiting, i) < To(Waiting, i) /\ To(Waiting, i) <= RingSize
<1>1. Types /\ Places /\ Messages
  BY DEF RingInv
<1>2. RingSize \in Nat /\ RecvSize \in Nat \ {0}
  BY RecvAssumption
<1>3. Start \in Nat /\ remain \in Nat /\ Start + remain <= RingSize
  BY <1>1 DEF Places
<1>4. Len(Waiting) \in Nat
  BY <1>1, WaitingFacts
<1>5. ASSUME NEW i \in 1..Len(Waiting)
      PROVE  /\ Waiting[i].at \in Nat /\ Waiting[i].len \in Nat /\ 2 <= Waiting[i].len
             /\ From(Waiting, i) \in Nat /\ To(Waiting, i) \in Nat
             /\ From(Waiting, i) < To(Waiting, i) /\ To(Waiting, i) <= RingSize
  <2>1. Waiting[i].at \in Nat /\ Waiting[i].len \in Lengths
    BY <1>1, WaitingLength
  <2>2. Waiting[i].len \in Nat /\ 2 <= Waiting[i].len
    BY <2>1, LengthFacts
  <2>3. Waiting[i].at + Waiting[i].len <= RingSize
    BY <1>1 DEF Messages
  <2> QED BY <2>1, <2>2, <2>3 DEF From, To
<1> QED BY <1>2, <1>3, <1>4, <1>5

\* Steps that leave the messages, where they lie and where the rest begins.
LEMMA SameContent ==
  ASSUME Content, Waiting' = Waiting, UNCHANGED <<ring, copied>>
  PROVE  Content'
BY DEF Content

LEMMA SameGeometry ==
  ASSUME Geometry, Waiting' = Waiting, Start' = Start, UNCHANGED <<remain, uncopied>>,
         pc' = "recv" => ~Tight
  PROVE  Geometry'
<1>1. Straight => Straight'
  BY DEF Straight
<1>2. Wrapped => Wrapped'
  BY DEF Wrapped, WrappedAt, Ends
<1>3. Tight' <=> Tight
  BY DEF Tight
<1> QED BY <1>1, <1>2, <1>3 DEF Geometry

\* Where a pass may end, and what waits when the ring is not tight.
LEMMA EndsFacts ==
  ASSUME NEW b \in Ends
  PROVE  /\ b \in Nat /\ b <= RingSize
         /\ \E len \in Lengths \cup {LengthField} :
              len \in Nat /\ b + RecvSize + len - 1 >= RingSize
BY LengthFacts DEF Ends, LengthField

LEMMA NotTight ==
  ASSUME RingInv, uncopied \in Nat, ~Tight, 1 \in 1..Len(Waiting)
  PROVE  \A len \in Lengths \cup {LengthField} :
           len \in Nat /\ 2 <= len /\ uncopied + 2 * RecvSize + len - 1 <= RingSize
<1>1. Waiting # << >>
  BY Len(<< >>) = 0
<1>2. \A len \in Lengths \cup {LengthField} :
        len \in Nat /\ 2 <= len /\ ~(uncopied + 2 * RecvSize + len - 1 > RingSize)
  BY <1>1, LengthFacts DEF Tight, LengthField
<1> QED BY <1>2, LengthFacts

LEMMA SameWaiting ==
  ASSUME UNCHANGED <<msgs, held>>
  PROVE  Waiting' = Waiting
BY DEF Waiting

\* What waits is out of the way of the receive that is pending.
LEMMA OutOfTheWay ==
  ASSUME RingInv, Geometry, pc = "recv", NEW i \in 1..Len(Waiting)
  PROVE  To(Waiting, i) <= cur \/ cur + RecvSize <= From(Waiting, i)
<1> DEFINE N == Len(Waiting)
           f(k) == From(Waiting, k)
           t(k) == To(Waiting, k)
<1>1. /\ RecvSize \in Nat /\ RingSize \in Nat /\ Start \in Nat /\ remain \in Nat
      /\ uncopied \in Nat /\ N \in Nat /\ 1 \in 1..N
      /\ \A k \in 1..N : f(k) \in Nat /\ t(k) \in Nat /\ f(k) < t(k)
  BY Numbers DEF Geometry
<1>2. cur \in Nat /\ cur = Start + remain
  BY <1>1 DEF RingInv, Places, Start, Offsets
<1>3. CASE Straight
  <2>1. t(i) <= Start
    BY <1>3 DEF Straight, Pass
  <2> HIDE DEF N, f, t
  <2>2. t(i) \in Nat
    BY <1>1 DEF N
  <2> QED BY <1>1, <1>2, <2>1, <2>2 DEF t
<1>4. CASE Wrapped
  <2>1. PICK j \in 1..N, b \in Ends : WrappedAt(j, b)
    BY <1>4 DEF Wrapped
  <2>2. i \in 1..j \/ i \in (j + 1)..N
    BY <1>1
  <2>3. CASE i \in (j + 1)..N
    <3>1. t(i) <= Start
      BY <2>1, <2>3 DEF WrappedAt, Pass
    <3> HIDE DEF N, f, t
    <3>2. t(i) \in Nat
      BY <1>1 DEF N
    <3> QED BY <1>1, <1>2, <3>1, <3>2 DEF t
  <2>4. CASE i \in 1..j
    <3>1. uncopied = b - f(1) + Start + remain
      BY <2>1 DEF WrappedAt
    <3>2. f(1) <= f(i)
      <4>1. CASE i = 1
        BY <1>1, <4>1
      <4>2. CASE i # 1
        <5>1. 1 \in 1..j /\ 1 < i
          BY <2>4, <4>2
        <5>2. t(1) <= f(i)
          BY <5>1, <2>1, <2>4 DEF WrappedAt, Pass
        <5>3. f(1) \in Nat /\ t(1) \in Nat /\ f(1) < t(1) /\ f(i) \in Nat
          BY <1>1, <2>1
        <5> HIDE DEF f, t
        <5> QED BY <5>2, <5>3
      <4> QED BY <4>1, <4>2
    <3>3. f(1) \in Nat /\ f(i) \in Nat
      BY <1>1, <2>1
    <3>4. PICK len \in Lengths \cup {LengthField} :
            len \in Nat /\ b + RecvSize + len - 1 >= RingSize
      BY EndsFacts
    <3>5. b \in Nat /\ uncopied + 2 * RecvSize + len - 1 <= RingSize
      BY <1>1, NotTight, EndsFacts DEF Geometry
    <3> HIDE DEF f, t
    <3>6. PICK x \in Nat : x = f(1)
      BY <3>3
    <3>7. PICK y \in Nat : y = f(i)
      BY <3>3
    <3>8. /\ uncopied = b - x + Start + remain /\ x <= y
          /\ x \in Nat /\ y \in Nat /\ b \in Nat /\ len \in Nat /\ uncopied \in Nat
          /\ Start \in Nat /\ remain \in Nat /\ RecvSize \in Nat /\ RingSize \in Nat
          /\ b + RecvSize + len - 1 >= RingSize
          /\ uncopied + 2 * RecvSize + len - 1 <= RingSize
          /\ cur = Start + remain
      BY Zenon, <1>1, <1>2, <3>1, <3>2, <3>4, <3>5, <3>6, <3>7
    <3>9. cur + RecvSize <= y
      BY ONLY <3>8
    <3> QED BY <3>7, <3>9 DEF f
  <2> QED BY <2>2, <2>3, <2>4
<1> QED BY <1>3, <1>4 DEF Geometry

\* At a wrap where something waits all of it is of one pass, which ends far
\* enough from the beginning.
LEMMA RoomToWrap ==
  ASSUME RingInv, Geometry, ~Tight, pc = "post", ~(End - cur >= RecvSize + MoveMark),
         1 \in 1..Len(Waiting)
  PROVE  /\ Straight
         /\ next \in Ends
         /\ \A i \in 1..Len(Waiting) : remain <= From(Waiting, i)
<1> DEFINE N == Len(Waiting)
           f(k) == From(Waiting, k)
           t(k) == To(Waiting, k)
<1>1. /\ RecvSize \in Nat \ {0} /\ RingSize \in Nat
      /\ Start \in Nat /\ remain \in Nat /\ uncopied \in Nat /\ N \in Nat
      /\ \A k \in 1..N : f(k) \in Nat /\ t(k) \in Nat /\ f(k) < t(k)
  BY Numbers DEF Geometry
<1>2. /\ cur \in Nat /\ next \in 0..RingSize /\ Start = next
      /\ next + remain >= RingSize - RecvSize
  <2>1. cur \in Nat /\ next \in 0..RingSize /\ Start = next
    BY DEF RingInv, Places, Start, Offsets
  <2> QED BY <1>1, <2>1 DEF End, MoveMark
<1>3. PICK len \in Lengths \cup {LengthField} : remain < len
  BY DEF RingInv, Places
<1>4. uncopied + 2 * RecvSize + len - 1 <= RingSize /\ len \in Nat
  BY <1>1, NotTight
<1>5. next \in Ends
  <2>1. next + RecvSize + len - 1 >= RingSize
    BY <1>1, <1>2, <1>3, <1>4
  <2> QED BY <1>2, <2>1 DEF Ends
<1>6. ~Wrapped
  <2> SUFFICES ASSUME NEW j \in 1..N, NEW b \in Ends, WrappedAt(j, b)
               PROVE  FALSE
    BY DEF Wrapped
  <2>1. uncopied = b - f(1) + Start + remain /\ b \in Nat
    BY EndsFacts DEF WrappedAt
  <2>2. t(1) <= b /\ f(1) \in Nat /\ t(1) \in Nat /\ f(1) < t(1)
    <3>1. 1 \in 1..j /\ 1 \in 1..N
      BY <1>1
    <3> QED BY <3>1, <1>1 DEF WrappedAt, Pass
  <2> HIDE DEF f, t
  <2>3. PICK x \in Nat : x = f(1)
    BY <2>2
  <2>4. PICK y \in Nat : y = t(1)
    BY <2>2
  <2>5. /\ RecvSize \in Nat /\ RecvSize > 0 /\ RingSize \in Nat /\ next \in Nat
        /\ remain \in Nat /\ len \in Nat /\ b \in Nat /\ x \in Nat /\ y \in Nat
        /\ next + remain >= RingSize - RecvSize
        /\ uncopied + 2 * RecvSize + len - 1 <= RingSize /\ remain < len
        /\ uncopied = b - x + next + remain /\ y <= b /\ x < y
    BY <1>1, <1>2, <1>3, <1>4, <2>1, <2>2, <2>3, <2>4
  <2> QED BY ONLY <2>5
<1>7. Straight
  BY <1>6 DEF Geometry
<1>8. ASSUME NEW i \in 1..N PROVE remain <= f(i)
  <2>1. uncopied = Start - f(1) + remain
    <3>1. 1 <= Len(Waiting)
      BY <1>1
    <3> QED BY <3>1, <1>7 DEF Straight, Oldest
  <2>2. f(1) <= f(i)
    <3>1. CASE i = 1
      BY <1>1, <3>1
    <3>2. CASE i # 1
      <4>1. 1 \in 1..N /\ 1 < i
        BY <1>1, <3>2
      <4>2. t(1) <= f(i)
        BY <4>1, <1>7 DEF Straight, Pass
      <4>3. f(1) \in Nat /\ t(1) \in Nat /\ f(1) < t(1) /\ f(i) \in Nat
        BY <1>1, <4>1
      <4> HIDE DEF f, t
      <4> QED BY <4>2, <4>3
    <3> QED BY <3>1, <3>2
  <2>3. f(1) \in Nat /\ f(i) \in Nat
    BY <1>1
  <2> HIDE DEF f, t
  <2>4. PICK x \in Nat : x = f(1)
    BY <2>3
  <2>5. PICK y \in Nat : y = f(i)
    BY <2>3
  <2>6. /\ RecvSize \in Nat /\ RecvSize > 0 /\ RingSize \in Nat /\ Start \in Nat
        /\ remain \in Nat /\ len \in Nat /\ x \in Nat /\ y \in Nat /\ x <= y
        /\ Start + remain >= RingSize - RecvSize /\ uncopied = Start - x + remain
        /\ uncopied + 2 * RecvSize + len - 1 <= RingSize /\ remain < len
    BY <1>1, <1>2, <1>3, <1>4, <2>1, <2>2, <2>3, <2>4, <2>5
  <2>7. remain <= y
    BY ONLY <2>6
  <2> QED BY <2>5, <2>7
<1> QED BY <1>5, <1>7, <1>8

LEMMA InitLoad == Init => Content /\ Geometry
<1> SUFFICES ASSUME Init PROVE Content /\ Geometry
  OBVIOUS
<1>1. RingInv
  BY InitRing
<1>2. Len(Waiting) = 0
  BY <1>1, WaitingFacts DEF RingInv, Init
<1>3. Start = 0 /\ remain = 0 /\ uncopied = 0
  BY DEF Init, Start, Begin
<1>4. Content
  BY <1>2 DEF Content
<1>5. Straight
  <2>1. Oldest(Waiting, 1, Start) = 0
    BY <1>2, <1>3 DEF Oldest
  <2>2. Pass(Waiting, 1, 0, Start)
    BY DEF Pass
  <2> QED BY <2>1, <2>2, <1>2, <1>3 DEF Straight
<1>6. ~Tight
  <2>1. Waiting = << >>
    BY <1>1, <1>2, WaitingFacts DEF RingInv
  <2> QED BY <2>1 DEF Tight
<1> QED BY <1>3, <1>4, <1>5, <1>6 DEF Geometry

LEMMA ClientSendsLoad ==
  ASSUME RingInv, Content, Geometry, NEW len \in Lengths \cup {0}, ClientSends(len)
  PROVE  Content' /\ Geometry'
<1>1. UNCHANGED <<ring, cur, remain, next, pc, msgs, held, copied, uncopied>>
  BY DEF ClientSends
<1>2. Waiting' = Waiting /\ Start' = Start
  BY <1>1, SameWaiting DEF Start
<1>3. pc' = "recv" => ~Tight
  BY <1>1 DEF Geometry
<1> QED BY <1>1, <1>2, <1>3, SameContent, SameGeometry

LEMMA ReceiveLoad ==
  ASSUME RingInv, Content, Geometry, NEW k \in 1..RecvSize, Receive(k)
  PROVE  Content' /\ Geometry'
<1>1. RingInv /\ Content /\ Geometry
  OBVIOUS
<1>2. /\ pc = "recv" /\ pc' = "first" /\ k \in Nat /\ k <= RecvSize
      /\ next' = cur - remain /\ remain' = remain + k /\ uncopied' = uncopied + k
      /\ ring' = [o \in Offsets |-> IF o \in cur..(cur + k - 1) THEN wire[o - cur + 1] ELSE ring[o]]
      /\ UNCHANGED <<sent, cur, msgs, held, copied>>
  BY LengthFacts DEF Receive
<1>3. Waiting' = Waiting /\ Start' = Start
  BY <1>2, SameWaiting DEF Start
<1>4. Straight \/ Wrapped => (Straight \/ Wrapped)'
  <2>1. uncopied \in Nat /\ remain \in Nat /\ Start \in Nat /\ Len(Waiting) \in Nat
    BY Numbers DEF Geometry
  <2>2. CASE Straight
    <3>1. PICK o \in Nat : o = Oldest(Waiting, 1, Start)
      BY <2>1, Numbers DEF Oldest
    <3>2. uncopied' = Start - o + remain'
      BY <3>1, <2>1, <2>2, <1>2 DEF Straight
    <3>3. uncopied' = Start' - Oldest(Waiting', 1, Start') + remain'
      BY <3>1, <3>2, <1>3
    <3>4. Pass(Waiting', 1, Len(Waiting'), Start')
      BY <2>2, <1>3 DEF Straight
    <3> QED BY <3>3, <3>4 DEF Straight
  <2>3. CASE Wrapped
    <3>1. PICK j \in 1..Len(Waiting), b \in Ends : WrappedAt(j, b)
      BY <2>3 DEF Wrapped
    <3>2. b \in Nat /\ From(Waiting, 1) \in Nat
      <4>1. 1 \in 1..Len(Waiting)
        BY <2>1, <3>1
      <4> QED BY <4>1, EndsFacts, Numbers
    <3>3. uncopied' = b - From(Waiting, 1) + Start + remain'
      <4>1. uncopied = b - From(Waiting, 1) + Start + remain
        BY <3>1 DEF WrappedAt
      <4>2. ASSUME NEW x \in Nat
            PROVE  b - x + Start + remain + k = b - x + Start + (remain + k)
        BY <2>1, <3>2, <1>2
      <4> QED BY <4>1, <4>2, <3>2, <1>2
    <3>4. WrappedAt(j, b)'
      BY <3>1, <3>3, <1>3 DEF WrappedAt
    <3> QED BY <3>1, <3>4, <1>3 DEF Wrapped, Ends
  <2> QED BY <2>2, <2>3
<1>5. Geometry'
  <2>1. uncopied' \in Nat
    BY <1>2 DEF Geometry
  <2> QED BY <2>1, <1>2, <1>4 DEF Geometry
<1>6. Content'
  <2>1. \A i \in 1..Len(Waiting) : \A j \in 1..Waiting[i].len :
          ring'[Waiting[i].at + j - 1] = ring[Waiting[i].at + j - 1]
    <3> SUFFICES ASSUME NEW i \in 1..Len(Waiting), NEW j \in 1..Waiting[i].len
                 PROVE  ring'[Waiting[i].at + j - 1] = ring[Waiting[i].at + j - 1]
      OBVIOUS
    <3>1. /\ Waiting[i].at \in Nat /\ Waiting[i].len \in Nat /\ To(Waiting, i) <= RingSize
          /\ RingSize \in Nat /\ RecvSize \in Nat /\ cur \in Nat
      BY <1>1, Numbers DEF RingInv, Places, Offsets
    <3>2. \/ Waiting[i].at + Waiting[i].len <= cur
          \/ cur + RecvSize <= Waiting[i].at
      BY <1>1, <1>2, OutOfTheWay DEF From, To
    <3>3. ASSUME NEW a \in Nat, NEW l \in Nat, NEW d \in 1..l, a + l <= RingSize,
                 a + l <= cur \/ cur + RecvSize <= a
          PROVE  a + d - 1 \in Offsets /\ a + d - 1 \notin cur..(cur + k - 1)
      <4>1. k \in Nat /\ k <= RecvSize /\ RecvSize \in Nat /\ RingSize \in Nat /\ cur \in Nat
        BY <1>2, <3>1
      <4>2. a + d - 1 \in 0..(RingSize - 1)
        BY <4>1, <3>3
      <4>3. a + d - 1 < cur \/ a + d - 1 >= cur + k
        BY <4>1, <3>3
      <4>4. a + d - 1 \notin cur..(cur + k - 1)
        BY <4>1, <4>3
      <4> QED BY <4>2, <4>4 DEF Offsets
    <3>4. Waiting[i].at + j - 1 \in Offsets /\ Waiting[i].at + j - 1 \notin cur..(cur + k - 1)
      BY <3>1, <3>2, <3>3 DEF To
    <3> QED BY <1>2, <3>4
  <2> SUFFICES ASSUME NEW i \in 1..Len(Waiting), NEW j \in 1..Waiting[i].len
               PROVE  ring'[Waiting[i].at + j - 1] = <<copied + i, j>>
    BY <1>2, <1>3 DEF Content
  <2> QED BY <2>1, <1>1 DEF Content
<1> QED BY <1>5, <1>6

LEMMA PostLoad ==
  ASSUME RingInv, Content, Geometry, Post
  PROVE  Content' /\ Geometry'
<1> DEFINE len == sent[Posted + 1]
           m == [at |-> next, len |-> len]
           N == Len(Waiting)
<1>1. RingInv /\ Content /\ Geometry
  OBVIOUS
<1>2. /\ Splitting /\ Whole /\ pc' = "split"
      /\ UNCHANGED <<sent, wire, ring, cur, held, copied, uncopied>>
  BY DEF Post
<1>3. /\ LengthAt(next) = len /\ len \in Lengths /\ len <= remain
      /\ \A j \in 1..len : ring[next + j - 1] = <<Posted + 1, j>>
  BY <1>1, <1>2, WholePacket
<1>4. msgs' = Append(msgs, m) /\ next' = next + len /\ remain' = remain - len
  BY <1>3 DEF Post
<1> HIDE DEF len
<1>5. /\ len \in Nat /\ 2 <= len /\ remain \in Nat /\ Start \in Nat /\ Start = next
      /\ Start + remain <= RingSize /\ RingSize \in Nat /\ RecvSize \in Nat
      /\ uncopied \in Nat /\ N \in Nat /\ copied \in Nat
  <2>1. len \in Nat /\ 2 <= len
    BY <1>3, LengthFacts
  <2>2. Start = next
    BY <1>2 DEF Start, Splitting
  <2>3. copied \in Nat
    BY <1>1 DEF RingInv, Types
  <2>4. uncopied \in Nat
    BY DEF Geometry
  <2> QED BY <2>1, <2>2, <2>3, <2>4, <1>1, Numbers
<1>6. m \in MsgType /\ m.at = next /\ m.len = len
  <2>1. next \in Offsets /\ len \in 0..RingSize
    BY <1>3, <1>5 DEF Offsets
  <2> QED BY <2>1 DEF MsgType
<1> HIDE DEF m
<1>7. /\ Len(Waiting') = N + 1 /\ Waiting'[N + 1] = m
      /\ \A i \in 1..N : Waiting'[i] = Waiting[i]
  <2>1. Types
    BY <1>1 DEF RingInv
  <2> QED BY <2>1, <1>2, <1>4, <1>6, PostWaiting
<1>8. Start' = Start + len
  BY <1>2, <1>4, <1>5 DEF Start
<1>9. Content'
  <2> SUFFICES ASSUME NEW i \in 1..(N + 1), NEW j \in 1..Waiting'[i].len
               PROVE  ring[Waiting'[i].at + j - 1] = <<copied + i, j>>
    BY <1>2, <1>7 DEF Content
  <2>1. CASE i \in 1..N
    BY <2>1, <1>1, <1>7 DEF Content
  <2>2. CASE i \notin 1..N
    <3>1. i = N + 1 /\ copied + i = Posted + 1
      BY <2>2, <1>5 DEF Posted
    <3> QED BY <3>1, <1>3, <1>6, <1>7
  <2> QED BY <2>1, <2>2
<1>10. /\ \A k \in 1..N : /\ Waiting'[k] = Waiting[k]
                          /\ Waiting[k].at \in Nat /\ Waiting[k].len \in Nat
       /\ Waiting'[N + 1].at = Start /\ Waiting'[N + 1].len = len
  BY <1>1, <1>5, <1>6, <1>7, Numbers
<1>11. CASE Straight
  <2>1. Pass(Waiting', 1, N + 1, Start + len)
    <3>1. 1 \in Nat \ {0} /\ 1 <= N + 1
      BY <1>5
    <3>2. Pass(Waiting, 1, N, Start)
      BY <1>11 DEF Straight
    <3> QED BY <3>1, <3>2, <1>5, <1>10, PassGrows
  <2>2. Oldest(Waiting', 1, Start + len) = Oldest(Waiting, 1, Start)
    <3>1. 1 <= Len(Waiting')
      BY <1>5, <1>7
    <3>2. CASE N = 0
      <4>1. ~(1 <= Len(Waiting)) /\ N + 1 = 1
        BY <3>2
      <4> QED BY <3>1, <4>1, <1>10 DEF Oldest, From
    <3>3. CASE N # 0
      <4>1. 1 <= Len(Waiting) /\ 1 \in 1..N
        BY <3>3, <1>5
      <4> QED BY <3>1, <4>1, <1>7 DEF Oldest, From
    <3> QED BY <3>2, <3>3
  <2>3. Oldest(Waiting, 1, Start) \in Nat
    BY <1>1, <1>5, Numbers DEF Oldest
  <2>4. uncopied = Start + len - Oldest(Waiting, 1, Start) + (remain - len)
    <3>1. uncopied = Start - Oldest(Waiting, 1, Start) + remain
      BY <1>11 DEF Straight
    <3> QED BY <3>1, <2>3, <1>5
  <2>5. Straight'
    <3>1. Pass(Waiting', 1, Len(Waiting'), Start')
      BY <2>1, <1>7, <1>8
    <3>2. uncopied' = Start' - Oldest(Waiting', 1, Start') + remain'
      <4>1. PICK o \in Nat : o = Oldest(Waiting, 1, Start)
        BY <2>3
      <4>2. Oldest(Waiting', 1, Start') = o
        BY <4>1, <2>2, <1>8
      <4>3. uncopied' = Start + len - o + (remain - len)
        BY <4>1, <2>4, <1>2
      <4>4. uncopied' = Start' - o + remain'
        BY <4>1, <4>3, <1>4, <1>5, <1>8
      <4> QED BY <4>2, <4>4
    <3> QED BY <3>1, <3>2 DEF Straight
  <2> QED BY <2>5, <1>1, <1>2, <1>9 DEF Geometry
<1>12. CASE Wrapped
  <2>1. PICK j \in 1..N, b \in Ends : WrappedAt(j, b)
    BY <1>12 DEF Wrapped
  <2>2. /\ Pass(Waiting, 1, j, b) /\ Pass(Waiting, j + 1, N, Start)
        /\ Oldest(Waiting, j + 1, Start) = 0
        /\ uncopied = b - From(Waiting, 1) + Start + remain
    BY <2>1 DEF WrappedAt
  <2>3. Pass(Waiting', 1, j, b)
    <3>1. \A k \in 1..j : Waiting'[k] = Waiting[k]
      BY <1>5, <1>7
    <3> QED BY <3>1, <2>2, PassSame
  <2>4. Pass(Waiting', j + 1, N + 1, Start + len)
    <3>1. j + 1 \in Nat \ {0} /\ j + 1 <= N + 1
      BY <1>5
    <3> QED BY <3>1, <2>2, <1>5, <1>10, PassGrows
  <2>5. Oldest(Waiting', j + 1, Start + len) = 0
    <3>1. j + 1 <= Len(Waiting')
      BY <1>5, <1>7
    <3>2. CASE j = N
      <4>1. ~(j + 1 <= Len(Waiting))
        BY <3>2, <1>5
      <4> QED BY <3>1, <3>2, <4>1, <2>2, <1>10 DEF Oldest, From
    <3>3. CASE j # N
      <4>1. j + 1 <= Len(Waiting) /\ j + 1 \in 1..N
        BY <3>3, <1>5
      <4> QED BY <3>1, <4>1, <2>2, <1>7 DEF Oldest, From
    <3> QED BY <3>2, <3>3
  <2>6. uncopied = b - From(Waiting', 1) + (Start + len) + (remain - len)
    <3>1. 1 \in 1..N /\ b \in Nat
      BY <2>1, <1>5, EndsFacts
    <3>2. From(Waiting', 1) = From(Waiting, 1) /\ From(Waiting, 1) \in Nat
      BY <3>1, <1>1, <1>7, Numbers DEF From
    <3> QED BY <3>1, <3>2, <2>2, <1>5
  <2>7. WrappedAt(j, b)'
    BY <2>3, <2>4, <2>5, <2>6, <1>2, <1>4, <1>7, <1>8 DEF WrappedAt
  <2>8. Wrapped'
    <3>1. j \in 1..(N + 1)
      BY <1>5
    <3>2. b \in Ends'
      BY <2>1 DEF Ends
    <3> QED BY <3>1, <3>2, <2>7, <1>7 DEF Wrapped
  <2> QED BY <2>8, <1>1, <1>2, <1>9 DEF Geometry
<1> QED BY <1>1, <1>11, <1>12 DEF Geometry

LEMMA PostRecvLoad ==
  ASSUME RingInv, Content, Geometry, ~Tight, PostRecv
  PROVE  Content' /\ Geometry'
<1>1. RingInv /\ Content /\ Geometry
  OBVIOUS
<1>2. /\ pc = "post"
      /\ UNCHANGED <<sent, wire, remain, next, msgs, held, copied, uncopied>>
  BY DEF PostRecv, Posts
<1>3. Waiting' = Waiting /\ uncopied \in Nat /\ (pc' = "recv" => ~Tight')
  <2>1. Waiting' = Waiting /\ uncopied \in Nat
    BY <1>2, SameWaiting DEF Geometry
  <2>2. Tight' <=> Tight
    BY <1>2, <2>1 DEF Tight
  <2> QED BY <2>1, <2>2
<1>4. CASE End - cur >= RecvSize + MoveMark
  <2>1. ring' = ring /\ Start' = Start
    <3>1. Start' = Start
      BY <1>4, PostRecvRing
    <3>2. RecvSize \in Nat /\ MoveMark \in Int /\ End - cur \in Int
      BY <1>1, <1>2, Numbers DEF RingInv, Places, Start, MoveMark, End, Offsets
    <3>3. ~(End - cur < RecvSize + MoveMark)
      BY <1>4, <3>2
    <3> QED BY <3>1, <3>3 DEF PostRecv, Ahead
  <2> QED BY <2>1, <1>1, <1>2, <1>3, SameContent, SameGeometry
<1>5. CASE ~(End - cur >= RecvSize + MoveMark)
  <2> DEFINE N == Len(Waiting)
  <2>1. /\ ring' = [o \in Offsets |-> IF o < remain THEN ring[next + o] ELSE ring[o]]
        /\ Start' = 0
    BY <1>1, <1>5, PostRecvRing DEF PostRecv, MoveRest
  <2>2. Start = next /\ N \in Nat /\ Start \in Nat /\ remain \in Nat
    BY <1>1, <1>2, Numbers DEF Start
  <2>3. /\ Straight
        /\ \A i \in 1..N : next \in Ends /\ remain <= From(Waiting, i)
    <3>1. CASE N = 0
      <4>1. 1..N = {}
        BY <3>1
      <4> QED BY <4>1 DEF Geometry, Wrapped
    <3>2. CASE N # 0
      <4>1. 1 \in 1..N
        BY <3>2, <2>2
      <4> QED BY <4>1, <1>1, <1>2, <1>5, RoomToWrap
    <3> QED BY <3>1, <3>2
  <2>4. Content'
    <3> SUFFICES ASSUME NEW i \in 1..N, NEW j \in 1..Waiting[i].len
                 PROVE  ring'[Waiting[i].at + j - 1] = <<copied + i, j>>
      BY <1>2, <1>3 DEF Content
    <3>1. /\ Waiting[i].at \in Nat /\ Waiting[i].len \in Nat /\ To(Waiting, i) <= RingSize
          /\ RingSize \in Nat /\ remain <= Waiting[i].at
      BY <1>1, <2>3, Numbers DEF From
    <3>2. ASSUME NEW a \in Nat, NEW l \in Nat, NEW d \in 1..l, a + l <= RingSize, remain <= a
          PROVE  a + d - 1 \in Offsets /\ ~(a + d - 1 < remain)
      BY <3>1, <3>2, <2>2 DEF Offsets
    <3>3. Waiting[i].at + j - 1 \in Offsets /\ ~(Waiting[i].at + j - 1 < remain)
      BY <3>1, <3>2 DEF To
    <3>4. ring'[Waiting[i].at + j - 1] = ring[Waiting[i].at + j - 1]
      BY <2>1, <3>3
    <3> QED BY <3>4, <1>1 DEF Content
  <2>5. CASE N = 0
    <3>1. Oldest(Waiting, 1, 0) = 0 /\ Oldest(Waiting, 1, Start) = Start
      BY <2>5 DEF Oldest
    <3>2. uncopied = remain
      <4>1. uncopied = Start - Start + remain
        BY <3>1, <2>3 DEF Straight
      <4> QED BY <4>1, <2>2
    <3>3. uncopied = 0 - 0 + remain
      BY <3>2, <2>2
    <3>4. Pass(Waiting, 1, N, 0)
      BY <2>5 DEF Pass
    <3>5. Straight'
      BY <3>1, <3>3, <3>4, <1>2, <1>3, <2>1 DEF Straight
    <3> QED BY <3>5, <2>4, <1>2, <1>3 DEF Geometry
  <2>6. CASE N # 0
    <3>1. N \in 1..N /\ 1 <= Len(Waiting) /\ 1 \in 1..N /\ ~(N + 1 <= Len(Waiting))
      BY <2>2, <2>6
    <3>2. Pass(Waiting, 1, N, next)
      BY <2>3, <2>2 DEF Straight
    <3>3. Pass(Waiting, N + 1, N, 0)
      <4>1. ~(N + 1 <= N) /\ (N + 1)..N = {}
        BY <2>2
      <4> QED BY <4>1 DEF Pass
    <3>4. Oldest(Waiting, N + 1, 0) = 0
      BY <3>1 DEF Oldest
    <3>5. uncopied = next - From(Waiting, 1) + 0 + remain
      <4>1. uncopied = Start - From(Waiting, 1) + remain
        BY <3>1, <2>3 DEF Straight, Oldest
      <4>2. From(Waiting, 1) \in Nat
        BY <3>1, <1>1, Numbers
      <4> QED BY <4>1, <4>2, <2>2
    <3> HIDE DEF N
    <3>6. WrappedAt(N, next)'
      BY <3>2, <3>3, <3>4, <3>5, <1>2, <1>3, <2>1 DEF WrappedAt, N
    <3>7. Wrapped'
      <4>1. N \in 1..Len(Waiting') /\ next \in Ends' /\ next' = next
        BY <1>2, <1>3, <2>3, <3>1 DEF N, Ends
      <4>2. N' = N
        BY <1>3 DEF N
      <4> QED BY <4>1, <4>2, <3>6 DEF Wrapped
    <3> QED BY <3>7, <2>4, <1>2, <1>3 DEF Geometry
  <2> QED BY <2>5, <2>6
<1> QED BY <1>4, <1>5

LEMMA CopyLoad ==
  ASSUME RingInv, Content, Geometry, Copy
  PROVE  Content' /\ Geometry'
<1> DEFINE N == Len(Waiting)
           len == Waiting[1].len
<1>1. RingInv /\ Content /\ Geometry
  OBVIOUS
<1>2. /\ UNCHANGED <<sent, wire, ring, cur, remain, next, pc, msgs>>
      /\ uncopied' = uncopied - held.len
  BY DEF Copy
<1>3. /\ 1 \in 1..N /\ held = Waiting[1] /\ copied' = copied + 1
      /\ Len(Waiting') = N - 1
      /\ \A i \in 1..(N - 1) : Waiting'[i] = Waiting[i + 1]
  BY <1>1, CopyWaiting DEF RingInv
<1>4. /\ N \in Nat \ {0} /\ len \in Nat /\ Start \in Nat /\ remain \in Nat
      /\ From(Waiting, 1) \in Nat /\ To(Waiting, 1) = From(Waiting, 1) + len
      /\ copied \in Nat /\ RingSize \in Nat /\ RecvSize \in Nat /\ uncopied \in Nat
      /\ \A i \in 1..N : From(Waiting, i) \in Nat /\ To(Waiting, i) \in Nat
                         /\ From(Waiting, i) < To(Waiting, i)
  <2>1. copied \in Nat
    BY <1>1 DEF RingInv, Types
  <2>2. To(Waiting, 1) = From(Waiting, 1) + len
    BY DEF From, To
  <2>3. Len(Waiting) \in Nat \ {0}
    BY <1>1, <1>3, Numbers
  <2>4. /\ Start \in Nat /\ remain \in Nat
        /\ RingSize \in Nat /\ RecvSize \in Nat /\ uncopied \in Nat
    BY <1>1, Numbers DEF Geometry
  <2>5. \A i \in 1..N : /\ From(Waiting, i) \in Nat /\ To(Waiting, i) \in Nat
                         /\ From(Waiting, i) < To(Waiting, i)
    BY <1>1, Numbers
  <2>6. len \in Nat /\ From(Waiting, 1) \in Nat
    BY <1>1, <1>3, Numbers
  <2> QED BY <2>1, <2>2, <2>3, <2>4, <2>5, <2>6
<1>5. Start' = Start /\ remain' = remain /\ uncopied' = uncopied - len
  BY <1>2, <1>3 DEF Start
<1>6. \A i \in 1..(N - 1) : i + 1 \in 1..N
  BY <1>4
<1>7. Content'
  <2> SUFFICES ASSUME NEW i \in 1..(N - 1), NEW j \in 1..Waiting'[i].len
               PROVE  ring[Waiting'[i].at + j - 1] = <<copied + 1 + i, j>>
    BY <1>2, <1>3 DEF Content
  <2>1. Waiting'[i] = Waiting[i + 1] /\ i + 1 \in 1..N /\ copied + (i + 1) = copied + 1 + i
    BY <1>3, <1>4, <1>6
  <2>2. \A k \in 1..N : \A l \in 1..Waiting[k].len :
          ring[Waiting[k].at + l - 1] = <<copied + k, l>>
    BY <1>1 DEF Content
  <2>3. ring[Waiting[i + 1].at + j - 1] = <<copied + (i + 1), j>>
    BY <2>1, <2>2
  <2> QED BY <2>1, <2>3
<1> HIDE DEF N, len
<1>8. \A i \in 1..N : \A end : Oldest(Waiting', i, end) = Oldest(Waiting, i + 1, end)
  <2> SUFFICES ASSUME NEW i \in 1..N, NEW end
               PROVE  Oldest(Waiting', i, end) = Oldest(Waiting, i + 1, end)
    OBVIOUS
  <2>1. CASE i <= N - 1
    <3>1. i \in 1..(N - 1) /\ i + 1 <= Len(Waiting) /\ i <= Len(Waiting')
      BY <2>1, <1>3, <1>4 DEF N
    <3> QED BY <3>1, <1>3 DEF Oldest, From
  <2>2. CASE ~(i <= N - 1)
    <3>1. ~(i + 1 <= Len(Waiting)) /\ ~(i <= Len(Waiting'))
      BY <2>2, <1>3, <1>4 DEF N
    <3> QED BY <3>1 DEF Oldest
  <2> QED BY <2>1, <2>2
<1>9. ASSUME NEW i \in Nat \ {0}, NEW j \in Nat, NEW end, j <= N - 1,
             Pass(Waiting, i + 1, j + 1, end)
      PROVE  Pass(Waiting', i, j, end)
  <2>1. \A k \in i..j : k \in 1..(N - 1)
    BY <1>4, <1>9
  <2>2. \A k \in i..j : Waiting'[k] = Waiting[k + 1]
    BY <2>1, <1>3
  <2> QED BY <2>2, <1>9, PassShifts
<1>10. ASSUME uncopied' \in Nat, pc' = "recv" PROVE ~Tight'
  <2>1. ~Tight /\ pc = "recv"
    BY <1>2, <1>10 DEF Geometry
  <2>2. \A l \in Lengths \cup {LengthField} :
          l \in Nat /\ 2 <= l /\ uncopied + 2 * RecvSize + l - 1 <= RingSize
    BY <2>1, <1>3, <1>4, NotTight DEF N
  <2>3. \A l \in Lengths \cup {LengthField} : ~(uncopied - len + 2 * RecvSize + l - 1 > RingSize)
    BY <2>2, <1>4
  <2> QED BY <2>3, <1>5 DEF Tight
<1>11. CASE Straight
  <2>1. /\ Pass(Waiting, 1, N, Start)
        /\ uncopied = Start - From(Waiting, 1) + remain
    <3>1. 1 <= Len(Waiting)
      BY <1>3, <1>4 DEF N
    <3> QED BY <3>1, <1>11 DEF Straight, Oldest, N
  <2>2. Pass(Waiting', 1, N - 1, Start)
    <3>1. Pass(Waiting, 2, N, Start)
      BY <2>1, <1>4, PassDropsFirst
    <3>2. 1 + 1 = 2 /\ N - 1 + 1 = N /\ N - 1 \in Nat /\ N - 1 <= N - 1
      BY <1>4
    <3> HIDE DEF N
    <3>3. PICK j \in Nat : j = N - 1 /\ j + 1 = N
      BY <3>2
    <3>4. Pass(Waiting, 1 + 1, j + 1, Start)
      BY <3>1, <3>2, <3>3
    <3> QED BY <3>3, <3>4, <1>9, <3>2
  <2>3. Oldest(Waiting, 2, Start) = To(Waiting, 1) /\ To(Waiting, 1) <= Start
    <3>1. CASE N = 1
      <4>1. ~(2 <= Len(Waiting)) /\ To(Waiting, 1) = Start
        BY <3>1, <2>1 DEF Pass, N
      <4> QED BY <4>1, <1>4 DEF Oldest
    <3>2. CASE N # 1
      <4>1. 2 <= N /\ 1 \in 1..N /\ 1 + 1 <= N /\ 1 + 1 = 2
        BY <3>2, <1>4
      <4>2. From(Waiting, 1 + 1) = To(Waiting, 1) /\ To(Waiting, 1) <= Start
        BY <4>1, <2>1 DEF Pass
      <4> QED BY <4>1, <4>2 DEF Oldest, N
    <3> QED BY <3>1, <3>2
  <2>4. uncopied' = Start - Oldest(Waiting', 1, Start) + remain
    <3>1. Oldest(Waiting', 1, Start) = Oldest(Waiting, 1 + 1, Start) /\ 1 + 1 = 2
      BY <1>3, <1>8 DEF N
    <3>2. Oldest(Waiting', 1, Start) = From(Waiting, 1) + len
      BY <3>1, <2>3, <1>4
    <3> QED BY <3>2, <2>1, <1>4, <1>5
  <2>5. Straight'
    BY <2>2, <2>4, <1>3, <1>5 DEF Straight
  <2>6. uncopied' \in Nat
    <3>1. uncopied' = Start - (From(Waiting, 1) + len) + remain
      BY <2>1, <1>4, <1>5
    <3>2. From(Waiting, 1) + len <= Start
      BY <2>3, <1>4
    <3> QED BY <3>1, <3>2, <1>4
  <2> QED BY <2>5, <2>6, <1>7, <1>10 DEF Geometry
<1>12. CASE Wrapped
  <2>1. PICK j \in 1..N, b \in Ends : WrappedAt(j, b)
    BY <1>12 DEF Wrapped, N
  <2>2. /\ Pass(Waiting, 1, j, b) /\ Pass(Waiting, j + 1, N, Start)
        /\ Oldest(Waiting, j + 1, Start) = 0
        /\ uncopied = b - From(Waiting, 1) + Start + remain
        /\ b \in Nat /\ j \in Nat /\ j <= N
    BY <2>1, <1>4, EndsFacts DEF WrappedAt, N
  <2>3. To(Waiting, 1) <= b
    <3>1. 1 \in 1..j
      BY <2>1, <1>4
    <3> QED BY <3>1, <2>2 DEF Pass
  <2>4. uncopied' \in Nat
    <3> QED BY <2>2, <2>3, <1>4, <1>5
  <2>5. PICK n \in Nat : n = N - 1 /\ n + 1 = N
    BY <1>4
  <2>6. CASE j = 1
    <3>1. To(Waiting, 1) = b
      BY <2>2, <2>6 DEF Pass
    <3>2. Oldest(Waiting', 1, Start) = 0
      BY <2>2, <2>6, <1>3, <1>8 DEF N
    <3>3. Pass(Waiting', 1, n, Start)
      <4>1. Pass(Waiting, 1 + 1, n + 1, Start) /\ n <= N - 1
        BY <2>2, <2>5, <2>6, <1>4
      <4> QED BY <4>1, <1>9
    <3>4. uncopied' = Start - 0 + remain
      BY <3>1, <2>2, <1>4, <1>5
    <3>5. Straight'
      BY <3>2, <3>3, <3>4, <2>5, <1>3, <1>5 DEF Straight
    <3> QED BY <3>5, <2>4, <1>7, <1>10 DEF Geometry
  <2>7. CASE j # 1
    <3>1. PICK i \in Nat \ {0} : i = j - 1 /\ i + 1 = j
      BY <2>1, <2>7
    <3>2. i \in 1..n /\ i <= N - 1 /\ n <= N - 1 /\ i + 1 \in 1..N /\ i \in 1..N
      BY <2>1, <2>5, <3>1, <1>4
    <3>3. Pass(Waiting', 1, i, b)
      <4>1. Pass(Waiting, 2, j, b) /\ 1 + 1 = 2
        BY <2>2, PassDropsFirst
      <4>2. Pass(Waiting, 1 + 1, i + 1, b)
        BY <4>1, <3>1
      <4> QED BY <4>2, <3>1, <3>2, <1>9
    <3>4. Pass(Waiting', i + 1, n, Start)
      <4>1. PICK k \in Nat \ {0} : k = i + 1
        BY <3>1
      <4>2. Pass(Waiting, k + 1, n + 1, Start)
        BY <4>1, <3>1, <2>2, <2>5
      <4>3. Pass(Waiting', k, n, Start)
        BY <4>2, <3>2, <1>9
      <4> QED BY <4>1, <4>3
    <3>5. Oldest(Waiting', i + 1, Start) = 0
      BY <3>1, <2>1, <2>2, <1>8
    <3>6. uncopied' = b - From(Waiting', 1) + Start + remain
      <4>1. 1 \in 1..j /\ 1 + 1 <= j /\ 1 \in 1..(N - 1) /\ 1 + 1 \in 1..N
        BY <2>1, <2>7, <1>4
      <4>2. From(Waiting, 1 + 1) = To(Waiting, 1)
        BY <4>1, <2>2 DEF Pass
      <4>3. From(Waiting', 1) = From(Waiting, 1) + len
        BY <4>1, <4>2, <1>3, <1>4 DEF From
      <4> QED BY <4>3, <2>2, <1>4, <1>5
    <3>7. \E k \in 1..Len(Waiting') : \E c \in Ends :
            /\ Pass(Waiting', 1, k, c)
            /\ Pass(Waiting', k + 1, Len(Waiting'), Start)
            /\ Oldest(Waiting', k + 1, Start) = 0
            /\ uncopied' = c - From(Waiting', 1) + Start + remain
      BY <3>2, <3>3, <3>4, <3>5, <3>6, <2>1, <2>5, <1>3
    <3>8. Wrapped'
      BY <3>7, <1>5 DEF Wrapped, WrappedAt, Ends
    <3> QED BY <3>8, <2>4, <1>7, <1>10 DEF Geometry
  <2> QED BY <2>6, <2>7
<1> QED BY <1>1, <1>11, <1>12 DEF Geometry

LEMMA NextLoad == LoadInv /\ [Next]_vars => LoadInv'
<1> SUFFICES ASSUME LoadInv, [Next]_vars PROVE LoadInv'
  OBVIOUS
<1> SUFFICES ASSUME ~crowded' PROVE Content' /\ Geometry'
  BY NextRing, CrowdedStep DEF LoadInv
<1>1. /\ RingInv /\ Content /\ Geometry
      /\ PostRecv => ~Tight
  <2>1. PostRecv => crowded' = (crowded \/ Tight)
    BY DEF PostRecv, Posts
  <2>2. ~crowded
    BY CrowdedStep
  <2> QED BY <2>1, <2>2 DEF LoadInv
<1>2. ASSUME NEW len \in Lengths \cup {0}, ClientSends(len) PROVE Content' /\ Geometry'
  BY <1>1, <1>2, ClientSendsLoad
<1>3. ASSUME NEW k \in 1..RecvSize, Receive(k) PROVE Content' /\ Geometry'
  BY <1>1, <1>3, ReceiveLoad
<1>4. CASE Post
  BY <1>1, <1>4, PostLoad
<1>5. CASE PostRecv
  BY <1>1, <1>5, PostRecvLoad
<1>6. CASE Copy
  BY <1>1, <1>6, CopyLoad
<1>7. CASE Wrong \/ PostFails \/ SplitDone \/ Dequeue \/ UNCHANGED vars
  <2>1. /\ UNCHANGED <<wire, ring, cur, remain, next, copied, uncopied>>
        /\ pc' = "recv" => pc = "recv"
    BY <1>7 DEF Wrong, PostFails, SplitDone, Dequeue, vars, Splitting
  <2>2. Start' = Start
    <3>1. pc \in {"recv", "undefined"} <=> pc' \in {"recv", "undefined"}
      BY <1>7 DEF Wrong, PostFails, SplitDone, Dequeue, vars, Splitting
    <3> QED BY <2>1, <3>1 DEF Start
  <2>3. Waiting' = Waiting
    <3>1. CASE Dequeue
      BY <3>1, <1>1, DequeueWaiting DEF RingInv
    <3>2. CASE UNCHANGED <<msgs, held>>
      BY <3>2, SameWaiting
    <3>3. Dequeue \/ UNCHANGED <<msgs, held>>
      BY <1>7 DEF Wrong, PostFails, SplitDone, vars
    <3> QED BY <3>1, <3>2, <3>3
  <2>4. pc' = "recv" => ~Tight
    BY <1>1, <2>1 DEF Geometry
  <2> QED BY <1>1, <2>1, <2>2, <2>3, <2>4, SameContent, SameGeometry
<1> QED BY <1>2, <1>3, <1>4, <1>5, <1>6, <1>7 DEF Next, Kernel, Worker, Logic

\* Until the ring is crowded what waits in it is in its place.
THEOREM LoadKept == Spec => []LoadInv
<1>1. Init => LoadInv
  <2>1. Init => crowded \in BOOLEAN
    BY DEF Init
  <2> QED BY <2>1, InitRing, InitLoad DEF LoadInv
<1>2. LoadInv /\ [Next]_vars => LoadInv'
  BY NextLoad
<1> QED BY <1>1, <1>2, PTL DEF Spec

\* Intact: as long as no receive was posted with more waiting than leaves room
\* for two receives and a rest, a packet posted stays in the ring as it was
\* received until it is copied, and the receive that is pending never has any
\* of its bytes to write to.
THEOREM CrowdedOrUndamaged == Spec => []Intact
<1>1. LoadInv => Intact
  <2> SUFFICES ASSUME LoadInv, ~crowded, NEW i \in 1..Len(Waiting)
               PROVE  /\ \A j \in 1..Waiting[i].len :
                           ring[Waiting[i].at + j - 1] = <<copied + i, j>>
                      /\ pc = "recv" =>
                           (Waiting[i].at..(Waiting[i].at + Waiting[i].len - 1)) \cap Writable = {}
    <3>1. LoadInv => DOMAIN Waiting = 1..Len(Waiting)
      BY WaitingFacts DEF LoadInv, RingInv
    <3> QED BY <3>1 DEF Intact, Undamaged
  <2>1. RingInv /\ Content /\ Geometry
    BY DEF LoadInv
  <2>2. \A j \in 1..Waiting[i].len : ring[Waiting[i].at + j - 1] = <<copied + i, j>>
    BY <2>1 DEF Content
  <2>3. ASSUME pc = "recv"
        PROVE  (Waiting[i].at..(Waiting[i].at + Waiting[i].len - 1)) \cap Writable = {}
    <3>1. \/ Waiting[i].at + Waiting[i].len <= cur
          \/ cur + RecvSize <= Waiting[i].at
      BY <2>1, <2>3, OutOfTheWay DEF From, To
    <3>2. /\ Waiting[i].at \in Nat /\ Waiting[i].len \in Nat
          /\ cur \in Nat /\ RecvSize \in Nat
      BY <2>1, Numbers DEF RingInv, Places, Offsets
    <3>3. ASSUME NEW a \in Nat, NEW l \in Nat, a + l <= cur \/ cur + RecvSize <= a
          PROVE  (a..(a + l - 1)) \cap (cur..(cur + RecvSize - 1)) = {}
      BY <3>2, <3>3
    <3> QED BY <3>1, <3>2, <3>3 DEF Writable
  <2> QED BY <2>2, <2>3
<1>2. Spec => []LoadInv
  BY LoadKept
<1> QED BY <1>1, <1>2, PTL

----------------------------------------------------------------------------
(* RecvRing implements PacketChannel.                                      *)

\* The packets sent before any wrong one and not copied out.
Due == [i \in {n - copied : n \in Rightful \ (1..copied)} |-> Bytes(copied + i, sent[copied + i])]

\* They are a sequence.
LEMMA DueIs ==
  ASSUME NEW m \in Nat, NEW c \in 0..m, NEW s
  PROVE  [i \in {n - c : n \in (1..m) \ (1..c)} |-> Bytes(c + i, s[c + i])]
         = [i \in 1..(m - c) |-> Bytes(c + i, s[c + i])]
<1>1. \A i \in 1..(m - c) : \E n \in (1..m) \ (1..c) : i = n - c
  <2> SUFFICES ASSUME NEW i \in 1..(m - c) PROVE \E n \in (1..m) \ (1..c) : i = n - c
    OBVIOUS
  <2>1. PICK n \in Nat : n = c + i
    OBVIOUS
  <2>2. n \in (1..m) \ (1..c) /\ i = n - c
    BY <2>1
  <2> QED BY <2>2
<1>2. \A n \in (1..m) \ (1..c) : n - c \in 1..(m - c)
  OBVIOUS
<1>3. {n - c : n \in (1..m) \ (1..c)} = 1..(m - c)
  BY <1>1, <1>2
<1> QED BY <1>3

\* The packets posted are among those that count.
LEMMA PostedIsRight ==
  ASSUME RingInv, NEW m \in 0..Len(sent), Rightful = 1..m
  PROVE  /\ m \in Nat /\ copied \in 0..m /\ Posted \in 0..m /\ Len(Waiting) \in Nat
         /\ Due = [i \in 1..(m - copied) |-> Bytes(copied + i, sent[copied + i])]
<1>1. /\ copied \in Nat /\ Len(sent) \in Nat /\ Len(Waiting) \in Nat
      /\ Posted \in 0..Len(sent) /\ \A n \in 1..Posted : sent[n] # 0
      /\ DOMAIN sent = 1..Len(sent)
  BY SizesFacts, WaitingFacts, LenProperties DEF RingInv, Types, Messages
<1>2. Posted <= m
  <2>1. CASE Posted = 0
    BY <2>1
  <2>2. CASE Posted # 0
    <3>1. Posted \in DOMAIN sent /\ Posted \in Nat
      BY <1>1, <2>2
    <3>2. Posted \in Rightful
      BY <1>1, <3>1 DEF Rightful
    <3> QED BY <3>1, <3>2
  <2> QED BY <2>1, <2>2
<1>3. m \in Nat /\ copied \in 0..m /\ Posted \in 0..m
  BY <1>1, <1>2 DEF Posted
<1>4. Due = [i \in 1..(m - copied) |-> Bytes(copied + i, sent[copied + i])]
  BY <1>3, DueIs DEF Due
<1> QED BY <1>1, <1>3, <1>4

\* A packet sent comes last, unless it is wrong or one before it was.
LEMMA SendIsSend ==
  ASSUME RingInv, NEW len \in Lengths \cup {0}, ClientSends(len)
  PROVE  \/ Due' = Due
         \/ \E n \in 1..MaxPackets : len \in Lengths /\ Due' = Append(Due, Bytes(n, len))
<1> DEFINE n == Len(sent) + 1
<1>1. /\ sent' = Append(sent, len) /\ copied' = copied /\ n \in 1..MaxPackets
      /\ Len(sent) \in Nat /\ sent'[n] = len
      /\ \A k \in 1..Len(sent) : sent'[k] = sent[k]
  <2>1. sent \in Seq(Lengths \cup {0}) /\ MaxPackets \in Nat
    BY RecvAssumption DEF RingInv, Types
  <2>2. sent' = Append(sent, len) /\ copied' = copied /\ n <= MaxPackets
    BY DEF ClientSends
  <2>3. Len(sent) \in Nat /\ sent'[n] = len /\ \A k \in 1..Len(sent) : sent'[k] = sent[k]
    BY <2>1, <2>2, AppendProperties
  <2> QED BY <2>1, <2>2, <2>3
<1>2. PICK m \in 0..Len(sent) : Rightful = 1..m
  BY DEF RingInv, Prefix
<1>3. /\ copied \in 0..m /\ m \in Nat
      /\ Due = [i \in 1..(m - copied) |-> Bytes(copied + i, sent[copied + i])]
  BY <1>2, PostedIsRight
<1>4. Rightful' = IF m = Len(sent) /\ len # 0 THEN 1..n ELSE 1..m
  BY <1>1, <1>2, RightfulGrows DEF RingInv
<1>5. CASE m = Len(sent) /\ len # 0
  <2> HIDE DEF n
  <2>1. copied \in 0..n /\ n \in Nat /\ n = m + 1
    <3>1. n = m + 1
      BY <1>5 DEF n
    <3> QED BY <3>1, <1>3
  <2>2. Due' = [i \in 1..(n - copied) |-> Bytes(copied + i, sent'[copied + i])]
    <3>1. Due' = [i \in {k - copied : k \in (1..n) \ (1..copied)} |->
                    Bytes(copied + i, sent'[copied + i])]
      BY <1>1, <1>4, <1>5 DEF Due
    <3>2. copied \in 0..n /\ n \in Nat
      BY <2>1
    <3> QED BY <3>1, <3>2, DueIs
  <2>3. PICK l \in Nat : l = m - copied /\ n - copied = l + 1
    BY <1>3, <2>1
  <2> DEFINE S == {Bytes(copied + i, sent[copied + i]) : i \in 1..l}
  <2>4. Due \in Seq(S) /\ Len(Due) = l
    <3>1. Due \in [1..l -> S]
      BY <1>3, <2>3
    <3> HIDE DEF S
    <3> QED BY <3>1, FunctionSeq
  <2> HIDE DEF S
  <2>5. Append(Due, Bytes(n, len)) = [i \in 1..(l + 1) |-> IF i <= l THEN Due[i] ELSE Bytes(n, len)]
    BY <2>4, AppendIs
  <2>6. \A i \in 1..(l + 1) : Bytes(copied + i, sent'[copied + i])
                              = IF i <= l THEN Due[i] ELSE Bytes(n, len)
    <3> SUFFICES ASSUME NEW i \in 1..(l + 1)
                 PROVE  Bytes(copied + i, sent'[copied + i])
                        = IF i <= l THEN Due[i] ELSE Bytes(n, len)
      OBVIOUS
    <3>1. CASE i <= l
      <4>1. i \in 1..(m - copied) /\ copied + i \in 1..Len(sent)
        BY <3>1, <1>1, <1>3, <2>3
      <4> QED BY <4>1, <3>1, <1>1, <1>3
    <3>2. CASE ~(i <= l)
      <4>1. copied + i = n
        BY <3>2, <1>3, <2>1, <2>3
      <4> QED BY <4>1, <3>2, <1>1
    <3> QED BY <3>1, <3>2
  <2>7. Due' = Append(Due, Bytes(n, len))
    BY <2>2, <2>3, <2>5, <2>6
  <2> QED BY <2>7, <1>1, <1>5
<1>6. CASE ~(m = Len(sent) /\ len # 0)
  <2>1. Rightful' = Rightful
    BY <1>2, <1>4, <1>6
  <2>2. Due' = [i \in {k - copied : k \in Rightful \ (1..copied)} |->
                  Bytes(copied + i, sent'[copied + i])]
    BY <2>1, <1>1 DEF Due
  <2>3. Due' = [i \in 1..(m - copied) |-> Bytes(copied + i, sent'[copied + i])]
    BY <2>2, <1>2, <1>3, DueIs
  <2>4. \A i \in 1..(m - copied) : sent'[copied + i] = sent[copied + i]
    <3>1. \A i \in 1..(m - copied) : copied + i \in 1..Len(sent)
      BY <1>1, <1>3
    <3> QED BY <3>1, <1>1
  <2>5. Due' = Due
    BY <2>3, <2>4, <1>3
  <2> QED BY <2>5
<1> QED BY <1>5, <1>6

\* A packet copied is the first that was due, whole.
LEMMA CopyIsHandOver ==
  ASSUME RingInv, Content, Copy
  PROVE  Due # << >> /\ out' = Head(Due) /\ Due' = Tail(Due)
<1>1. RingInv /\ Content /\ Types /\ Messages
  BY DEF RingInv
<1>2. PICK m \in 0..Len(sent) : Rightful = 1..m
  BY <1>1 DEF RingInv, Prefix
<1>3. /\ copied \in 0..m /\ m \in Nat /\ Posted \in 0..m
      /\ Due = [i \in 1..(m - copied) |-> Bytes(copied + i, sent[copied + i])]
  BY <1>1, <1>2, PostedIsRight
<1>4. /\ 1 \in 1..Len(Waiting) /\ held = Waiting[1] /\ copied' = copied + 1 /\ sent' = sent
      /\ Len(Waiting) \in Nat /\ out' = [i \in 1..held.len |-> ring[held.at + i - 1]]
  BY <1>1, CopyWaiting, WaitingFacts DEF Copy
<1>5. PICK l \in Nat : l = m - (copied + 1) /\ l + 1 = m - copied
  <2>1. copied + 1 <= m
    BY <1>3, <1>4 DEF Posted
  <2> QED BY <2>1, <1>3
<1> DEFINE S == {Bytes(copied + i, sent[copied + i]) : i \in 1..(l + 1)}
<1>6. Due \in Seq(S) /\ Len(Due) = l + 1
  <2>1. Due \in [1..(l + 1) -> S]
    BY <1>3, <1>5
  <2> HIDE DEF S
  <2> QED BY <2>1, FunctionSeq
<1> HIDE DEF S
<1>7. Due # << >>
  BY <1>6
<1>8. Head(Due) = Due[1] /\ Tail(Due) = [i \in 1..l |-> Due[i + 1]]
  <2>1. Head(Due) = Due[1] /\ Tail(Due) = [i \in 1..(Len(Due) - 1) |-> Due[i + 1]]
    BY <1>6, <1>7, TailIs
  <2>2. l + 1 - 1 = l
    OBVIOUS
  <2> QED BY <2>1, <2>2, <1>6
<1>9. out' = Head(Due)
  <2>1. Due[1] = Bytes(copied + 1, sent[copied + 1])
    <3>1. 1 \in 1..(m - copied)
      BY <1>5
    <3> QED BY <3>1, <1>3
  <2>2. held.len = sent[copied + 1]
    BY <1>1, <1>4 DEF Messages
  <2>3. \A j \in 1..held.len : ring[held.at + j - 1] = <<copied + 1, j>>
    BY <1>1, <1>4 DEF Content
  <2> QED BY <2>1, <2>2, <2>3, <1>4, <1>8 DEF Bytes
<1>10. Due' = Tail(Due)
  <2>1. Rightful' = Rightful
    BY <1>4 DEF Rightful
  <2>2. Due' = [i \in {k - (copied + 1) : k \in (1..m) \ (1..(copied + 1))} |->
                  Bytes(copied + 1 + i, sent[copied + 1 + i])]
    BY <2>1, <1>2, <1>4 DEF Due
  <2>3. copied + 1 \in 0..m
    BY <1>3, <1>5
  <2>4. Due' = [i \in 1..l |-> Bytes(copied + 1 + i, sent[copied + 1 + i])]
    <3>1. m \in Nat /\ m - (copied + 1) = l
      BY <1>3, <1>5
    <3>2. [i \in {n - (copied + 1) : n \in (1..m) \ (1..(copied + 1))} |->
             Bytes(copied + 1 + i, sent[copied + 1 + i])]
          = [i \in 1..(m - (copied + 1)) |-> Bytes(copied + 1 + i, sent[copied + 1 + i])]
      BY <3>1, <2>3, DueIs
    <3> QED BY Zenon, <3>1, <3>2, <2>2
  <2>5. \A i \in 1..l : Due[i + 1] = Bytes(copied + 1 + i, sent[copied + 1 + i])
    <3> SUFFICES ASSUME NEW i \in 1..l
                 PROVE  Due[i + 1] = Bytes(copied + 1 + i, sent[copied + 1 + i])
      OBVIOUS
    <3>1. i + 1 \in 1..(m - copied) /\ copied + (i + 1) = copied + 1 + i
      BY <1>3, <1>5
    <3> QED BY <3>1, <1>3
  <2> QED BY <2>4, <2>5, <1>8
<1> QED BY <1>7, <1>9, <1>10

\* Until the ring is crowded the application is handed the packets the client
\* sent before any wrong one, whole, once each and in order: RecvRing implements
\* PacketChannel, however WSARecv cuts the stream and wherever the packets lie.
THEOREM HandsOver == Spec => Implements
<1>1. Init => Channel!Init
  <2> SUFFICES ASSUME Init PROVE Due = << >> /\ out = << >> /\ crowded = FALSE
    BY DEF Channel!Init, Due
  <2>1. sent = << >> /\ copied = 0 /\ out = << >> /\ crowded = FALSE
    BY DEF Init
  <2>2. Rightful = {}
    BY <2>1 DEF Rightful
  <2>3. {n - copied : n \in Rightful \ (1..copied)} = {}
    BY <2>2
  <2>4. Due = [i \in {} |-> Bytes(copied + i, sent[copied + i])]
    BY <2>3 DEF Due
  <2>5. Due = << >>
    BY <2>4
  <2> QED BY <2>1, <2>5
<1>2. LoadInv /\ [Next]_vars => [Channel!Next]_<<Due, out, crowded>>
  <2> SUFFICES ASSUME LoadInv, [Next]_vars
               PROVE  Channel!Next \/ UNCHANGED <<Due, out, crowded>>
    OBVIOUS
  <2>1. CASE crowded' = TRUE
    BY <2>1 DEF Channel!Next
  <2>2. CASE crowded' # TRUE
    <3>1. UNCHANGED crowded /\ RingInv /\ Content
      <4>1. UNCHANGED crowded \/ crowded' = (crowded \/ Tight)
        BY CrowdedStep
      <4>2. crowded \in BOOLEAN
        BY DEF LoadInv
      <4> QED BY <4>1, <4>2, <2>2 DEF LoadInv
    <3>2. ASSUME NEW len \in Lengths \cup {0}, ClientSends(len)
          PROVE  Channel!Next \/ UNCHANGED <<Due, out, crowded>>
      <4>1. out' = out
        BY <3>2 DEF ClientSends
      <4>2. CASE Due' = Due
        BY <3>1, <4>1, <4>2
      <4>3. CASE \E n \in 1..MaxPackets : len \in Lengths /\ Due' = Append(Due, Bytes(n, len))
        <5>1. PICK n \in 1..MaxPackets : len \in Lengths /\ Due' = Append(Due, Bytes(n, len))
          BY <4>3
        <5>2. Channel!Send(Bytes(n, len))
          BY <4>1, <5>1, Zenon DEF Channel!Send, Due
        <5> QED BY <3>1, <5>1, <5>2 DEF Channel!Next
      <4> QED BY <3>1, <3>2, <4>2, <4>3, SendIsSend
    <3>3. CASE Copy
      <4>1. Due # << >> /\ out' = Head(Due) /\ Due' = Tail(Due)
        BY <3>1, <3>3, CopyIsHandOver
      <4>2. Channel!HandOver
        BY <4>1, Zenon DEF Channel!HandOver, Due
      <4> QED BY <3>1, <4>2 DEF Channel!Next
    <3>4. CASE UNCHANGED <<sent, copied, out>>
      BY <3>1, <3>4 DEF Due, Rightful
    <3>5. ASSUME NEW k \in 1..RecvSize, Receive(k) PROVE UNCHANGED <<sent, copied, out>>
      BY <3>5 DEF Receive
    <3>6. Wrong \/ Post \/ PostFails \/ SplitDone \/ PostRecv \/ Dequeue \/ UNCHANGED vars
          => UNCHANGED <<sent, copied, out>>
      BY DEF Wrong, Post, PostFails, SplitDone, PostRecv, Posts, Dequeue, vars
    <3> QED BY <3>2, <3>3, <3>4, <3>5, <3>6 DEF Next, Kernel, Worker, Logic
  <2> QED BY <2>1, <2>2
<1>3. Spec => []LoadInv
  BY LoadKept
<1> QED BY <1>1, <1>2, <1>3, PTL DEF Spec, Implements, Channel!Spec, Due

=============================================================================
