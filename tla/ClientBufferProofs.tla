------------------------- MODULE ClientBufferProofs -------------------------
(***************************************************************************)
(* Proofs about ClientBuffer for any sizes that satisfy BufferAssumption,  *)
(* the program's among them, and any number of packets: only a receive     *)
(* that is longer than a packet is ever dropped, and until one is, the UI  *)
(* is handed the packets of the server, whole, once each, in order.        *)
(***************************************************************************)
EXTENDS ClientBuffer, TLAPS, SequenceTheorems

ByteSet == Nat \X Nat

\* The bytes that were sent and are not in a packet queued, in their order:
\* the buffer's unread ones, those received and not written, the others.
Length == Unread + Len(chunk) + Len(stream)
ByteAt(p) ==
  IF p <= Unread THEN data[readPos + p - 1]
  ELSE IF p <= Unread + Len(chunk) THEN chunk[p - Unread]
  ELSE stream[p - Unread - Len(chunk)]
Rest == [p \in 1..Length |-> ByteAt(p)]

Typed ==
  /\ posted \in Seq(PacketSizes)
  /\ queued \in 0..Len(posted)
  /\ data \in [Positions -> ByteSet]
  /\ readPos \in Nat /\ writePos \in Nat /\ readPos <= writePos
  /\ chunk \in Seq(ByteSet) /\ stream \in Seq(ByteSet)

\* What is unread when the next receive is written is less than a packet.  If
\* the buffer holds two receives, there is room for a packet behind what was
\* written, as NextFree has it, or for any receive, as a relocation leaves it.
Room ==
  /\ writePos <= BufferSize
  /\ Len(chunk) <= ReadSize
  /\ phase \in {"receive", "write", "read", "lost"}
  /\ phase \in {"receive", "read"} => chunk = << >>
  /\ phase # "read" => Unread < MaxPacketSize
  /\ TwoReceives =>
       writePos + MaxPacketSize <= BufferSize \/ writePos + ReadSize <= BufferSize

\* Nothing goes on once a receive was dropped.
Dropping ==
  /\ dropped \in BOOLEAN
  /\ dropped => phase = "lost"
  /\ DroppedIsLong

\* rest, of so many bytes, is made of the packets of these sizes behind the
\* first q, said byte by byte: what is first and what is last, that a first byte
\* has its packet behind it, and which byte follows the last of a packet.
FirstAndLast(rest, len, q, sizes) ==
  /\ len = 0 <=> q = Len(sizes)
  /\ len > 0 => rest[1] = <<q + 1, 1>> /\ rest[len] = <<Len(sizes), sizes[Len(sizes)]>>
OfPackets(rest, len, sizes) ==
  \A p \in 1..len : \E n \in 1..Len(sizes) : \E j \in 1..sizes[n] : rest[p] = <<n, j>>
AllThere(rest, len, sizes) ==
  \A p \in 1..len : \A n \in 1..Len(sizes) : rest[p] = <<n, 1>> =>
    p + sizes[n] - 1 <= len /\ \A j \in 1..sizes[n] : rest[p + j - 1] = <<n, j>>
InTurn(rest, len, sizes) ==
  \A p \in 1..(len - 1) : \A n \in 1..Len(sizes) : rest[p] = <<n, sizes[n]>> =>
    n < Len(sizes) /\ rest[p + 1] = <<n + 1, 1>>
FramedBy(rest, len, q, sizes) ==
  /\ FirstAndLast(rest, len, q, sizes)
  /\ OfPackets(rest, len, sizes)
  /\ AllThere(rest, len, sizes)
  /\ InTurn(rest, len, sizes)

IInv == Typed /\ Room /\ Dropping /\ FramedBy(Rest, Length, queued, posted)

----------------------------------------------------------------------------
(* Sequences, written as functions.                                        *)

LEMMA FunctionSeq ==
  ASSUME NEW S, NEW n \in Nat, NEW f \in [1..n -> S]
  PROVE  f \in Seq(S) /\ Len(f) = n
  BY SeqDef, LenProperties

LEMMA AppendIs ==
  ASSUME NEW S, NEW s \in Seq(S), NEW e
  PROVE  Append(s, e) = [i \in 1..(Len(s) + 1) |-> IF i <= Len(s) THEN s[i] ELSE e]
<1> DEFINE T == S \cup {e}
           r == [i \in 1..(Len(s) + 1) |-> IF i <= Len(s) THEN s[i] ELSE e]
           q == Append(s, e)
<1>1. s \in Seq(T) /\ e \in T /\ Len(s) \in Nat
  BY SeqMonotonic, LenProperties
<1>2. \A i \in 1..Len(s) : s[i] \in T
  BY <1>1, ElementOfSeq
<1>3. r \in [1..(Len(s) + 1) -> T]
  BY <1>1, <1>2
<1>4. r \in Seq(T) /\ Len(r) = Len(s) + 1
  BY <1>1, <1>3, FunctionSeq
<1> HIDE DEF T
<1>5. /\ q \in Seq(T) /\ Len(q) = Len(s) + 1
      /\ \A i \in 1..Len(s) : q[i] = s[i]
      /\ q[Len(s) + 1] = e
  BY <1>1
<1>6. \A i \in 1..(Len(s) + 1) : q[i] = r[i]
  <2> HIDE DEF q
  <2>1. \A i \in 1..(Len(s) + 1) : i \in 1..Len(s) \/ (i = Len(s) + 1 /\ ~(i <= Len(s)))
    BY <1>1
  <2> QED BY <2>1, <1>1, <1>5
<1> HIDE DEF q, r
<1>7. q = r
  BY <1>4, <1>5, <1>6, SeqEqual
<1> QED BY <1>7 DEF q, r

LEMMA TailIs ==
  ASSUME NEW S, NEW s \in Seq(S), s # << >>
  PROVE  Head(s) = s[1] /\ Tail(s) = [i \in 1..(Len(s) - 1) |-> s[i + 1]]
<1> DEFINE r == [i \in 1..(Len(s) - 1) |-> s[i + 1]]
<1>1. Len(s) \in Nat \ {0} /\ Head(s) = s[1]
  OBVIOUS
<1>2. \A i \in 1..(Len(s) - 1) : s[i + 1] \in S
  <2>1. \A i \in 1..(Len(s) - 1) : i + 1 \in 1..Len(s)
    BY <1>1
  <2> QED BY <2>1, ElementOfSeq
<1>3. r \in [1..(Len(s) - 1) -> S] /\ Len(s) - 1 \in Nat
  BY <1>1, <1>2
<1>4. r \in Seq(S) /\ Len(r) = Len(s) - 1
  BY <1>3, FunctionSeq
<1>5. /\ Tail(s) \in Seq(S) /\ Len(Tail(s)) = Len(s) - 1
      /\ \A i \in 1..Len(Tail(s)) : Tail(s)[i] = s[i + 1]
  BY HeadTailProperties
<1>6. \A i \in 1..Len(Tail(s)) : Tail(s)[i] = r[i]
  BY <1>5
<1> HIDE DEF r
<1>7. Tail(s) = r
  BY <1>4, <1>5, <1>6, SeqEqual
<1> QED BY <1>1, <1>7 DEF r

LEMMA SubSeqIs ==
  ASSUME NEW S, NEW s \in Seq(S), NEW a \in Nat, NEW k \in Nat, a + k <= Len(s)
  PROVE  SubSeq(s, a + 1, a + k) = [j \in 1..k |-> s[a + j]]
<1> DEFINE r == [j \in 1..k |-> s[a + j]]
           q == SubSeq(s, a + 1, a + k)
<1>1. Len(s) \in Nat /\ \A i \in 1..Len(s) : s[i] \in S
  OBVIOUS
<1>2. \A j \in 1..k : a + j \in 1..Len(s) /\ a + 1 + j - 1 = a + j
  BY <1>1
<1>3. r \in [1..k -> S]
  BY <1>1, <1>2
<1>4. r \in Seq(S) /\ Len(r) = k
  BY <1>3, FunctionSeq
<1>5. a + 1 \in Int /\ a + k \in Int /\ \A i \in (a + 1)..(a + k) : s[i] \in S
  <2>1. \A i \in (a + 1)..(a + k) : i \in 1..Len(s)
    BY <1>1
  <2> QED BY <2>1, <1>1
<1>6. /\ q \in Seq(S)
      /\ Len(q) = IF a + 1 <= a + k THEN a + k - (a + 1) + 1 ELSE 0
      /\ \A i \in 1..(a + k - (a + 1) + 1) : q[i] = s[a + 1 + i - 1]
  BY <1>5, SubSeqProperties
<1> HIDE DEF q
<1>7. Len(q) = k /\ a + k - (a + 1) + 1 = k
  BY <1>6
<1>8. \A j \in 1..k : q[j] = r[j]
  BY <1>2, <1>6, <1>7
<1> HIDE DEF r
<1>9. q = r
  BY <1>4, <1>6, <1>7, <1>8, SeqEqual
<1> QED BY <1>9 DEF q, r

----------------------------------------------------------------------------
(* Packets of a stream.                                                    *)

\* A packet is added at the end.
LEMMA AddPacket ==
  ASSUME NEW sizes \in Seq(Nat \ {0}), NEW q \in 0..Len(sizes), NEW len \in Nat,
         NEW rest, NEW more, NEW size \in Nat \ {0},
         FramedBy(rest, len, q, sizes),
         \A p \in 1..len : more[p] = rest[p],
         \A i \in 1..size : more[len + i] = <<Len(sizes) + 1, i>>
  PROVE  FramedBy(more, len + size, q, Append(sizes, size))
<1> DEFINE N == Len(sizes) + 1
           all == Append(sizes, size)
<1>1. /\ Len(all) = N /\ all[N] = size /\ N \in Nat \ {0} /\ Len(sizes) \in Nat
      /\ \A n \in 1..Len(sizes) : all[n] = sizes[n] /\ sizes[n] \in Nat \ {0}
      /\ 1..N = 1..Len(sizes) \cup {N}
  OBVIOUS
<1> HIDE DEF all
<1>2. \A p \in 1..(len + size) : p \in 1..len \/ (p - len \in 1..size /\ p = len + (p - len))
  OBVIOUS
<1>3. \A p \in 1..(len + size) : p \notin 1..len => more[p] = <<N, p - len>>
  BY <1>2
<1>4. ~(len + size = 0) /\ q # N
  OBVIOUS
<1>5. len + size > 0 /\ more[1] = <<q + 1, 1>> /\ more[len + size] = <<N, all[N]>>
  <2>1. more[len + size] = <<N, size>>
    <3>1. size \in 1..size
      OBVIOUS
    <3> QED BY <3>1
  <2>2. CASE len = 0
    <3>1. q + 1 = N /\ more[0 + 1] = <<N, 1>>
      BY <2>2 DEF FramedBy, FirstAndLast
    <3> QED BY <3>1, <2>1, <1>1
  <2>3. CASE len > 0
    <3>1. rest[1] = <<q + 1, 1>> /\ 1 \in 1..len
      BY <2>3 DEF FramedBy, FirstAndLast
    <3>2. more[1] = rest[1] /\ len + size > 0
      BY <3>1
    <3> QED BY <3>1, <3>2, <2>1, <1>1
  <2> QED BY <2>2, <2>3
<1>6. \A p \in 1..(len + size) : \E n \in 1..N : \E j \in 1..all[n] : more[p] = <<n, j>>
  <2> SUFFICES ASSUME NEW p \in 1..(len + size)
               PROVE  \E n \in 1..N : \E j \in 1..all[n] : more[p] = <<n, j>>
    OBVIOUS
  <2>1. CASE p \in 1..len
    <3>1. PICK n \in 1..Len(sizes) : \E j \in 1..sizes[n] : rest[p] = <<n, j>>
      BY <2>1 DEF FramedBy, OfPackets
    <3> QED BY <3>1, <2>1, <1>1
  <2>2. CASE p \notin 1..len
    <3>1. more[p] = <<N, p - len>> /\ p - len \in 1..all[N]
      BY <2>2, <1>1, <1>2, <1>3
    <3> QED BY <3>1, <1>1
  <2> QED BY <2>1, <2>2
<1>7. ASSUME NEW p \in 1..(len + size), NEW n \in 1..N, more[p] = <<n, 1>>
      PROVE  p + all[n] - 1 <= len + size /\ \A j \in 1..all[n] : more[p + j - 1] = <<n, j>>
  <2>1. CASE p \in 1..len
    <3>1. rest[p] = <<n, 1>>
      BY <2>1, <1>7
    <3>2. n \in 1..Len(sizes)
      <4>1. PICK m \in 1..Len(sizes) : \E j \in 1..sizes[m] : rest[p] = <<m, j>>
        BY <2>1 DEF FramedBy, OfPackets
      <4> QED BY <3>1, <4>1
    <3>3. p + sizes[n] - 1 <= len /\ \A j \in 1..sizes[n] : rest[p + j - 1] = <<n, j>>
      BY <3>1, <3>2, <2>1 DEF FramedBy, AllThere
    <3>4. all[n] = sizes[n] /\ sizes[n] \in Nat \ {0}
      BY <3>2, <1>1
    <3>5. \A j \in 1..sizes[n] : p + j - 1 \in 1..len
      BY SMTT(30), <3>3, <3>4
    <3>6. \A j \in 1..sizes[n] : more[p + j - 1] = rest[p + j - 1]
      BY <3>5
    <3>7. p + sizes[n] - 1 <= len + size
      BY SMTT(30), <3>3, <3>4
    <3> QED BY <3>3, <3>4, <3>6, <3>7
  <2>2. CASE p \notin 1..len
    <3>1. n = N /\ p = len + 1
      BY <2>2, <1>7, <1>2, <1>3
    <3>2. \A j \in 1..size : p + j - 1 = len + j
      BY <3>1
    <3>3. \A j \in 1..size : more[p + j - 1] = <<N, j>>
      BY <3>2
    <3>4. p + size - 1 <= len + size
      BY <3>1
    <3> QED BY <3>1, <3>3, <3>4, <1>1
  <2> QED BY <2>1, <2>2
<1>8. ASSUME NEW p \in 1..(len + size - 1), NEW n \in 1..N, more[p] = <<n, all[n]>>
      PROVE  n < N /\ more[p + 1] = <<n + 1, 1>>
  <2>1. CASE p \in 1..len
    <3>1. rest[p] = <<n, all[n]>>
      BY <2>1, <1>8
    <3>2. n \in 1..Len(sizes) /\ all[n] = sizes[n]
      <4>1. PICK m \in 1..Len(sizes) : \E j \in 1..sizes[m] : rest[p] = <<m, j>>
        BY <2>1 DEF FramedBy, OfPackets
      <4> QED BY SMTT(30), <3>1, <4>1, <1>1
    <3>3. CASE p < len
      <4>1. p \in 1..(len - 1) /\ p + 1 \in 1..len
        BY <3>3, <2>1
      <4>2. rest[p + 1] = <<n + 1, 1>>
        BY <4>1, <3>1, <3>2 DEF FramedBy, InTurn
      <4> QED BY SMTT(30), <4>1, <4>2, <3>2, <1>1
    <3>4. CASE p = len
      <4>1. rest[len] = <<Len(sizes), sizes[Len(sizes)]>>
        BY <3>4, <2>1 DEF FramedBy, FirstAndLast
      <4>2. n = Len(sizes)
        BY <4>1, <3>1, <3>4
      <4>3. more[len + 1] = <<N, 1>>
        OBVIOUS
      <4> QED BY <4>2, <4>3, <3>4
    <3> QED BY <3>3, <3>4, <2>1
  <2>2. CASE p \notin 1..len
    <3>1. more[p] = <<N, p - len>> /\ p - len \in Nat /\ p - len < size
      BY <2>2, <1>2, <1>3
    <3>2. n = N /\ p - len = size
      BY <3>1, <1>8, <1>1
    <3> QED BY <3>1, <3>2
  <2> QED BY <2>1, <2>2
<1>9. FirstAndLast(more, len + size, q, all)
  BY <1>1, <1>4, <1>5 DEF FirstAndLast
<1>10. OfPackets(more, len + size, all)
  <2>1. Len(all) = N
    BY <1>1
  <2> HIDE DEF N
  <2> QED BY <2>1, <1>6 DEF OfPackets
<1>11. AllThere(more, len + size, all)
  BY <1>1, <1>7 DEF AllThere
<1>12. InTurn(more, len + size, all)
  <2> SUFFICES ASSUME NEW p \in 1..(len + size - 1), NEW n \in 1..Len(all),
                      more[p] = <<n, all[n]>>
               PROVE  n < Len(all) /\ more[p + 1] = <<n + 1, 1>>
    BY DEF InTurn
  <2>1. n \in 1..N
    BY <1>1
  <2> HIDE DEF N
  <2>2. n < N /\ more[p + 1] = <<n + 1, 1>>
    BY <2>1, <1>8
  <2> QED BY <2>2, <1>1
<1> QED BY <1>9, <1>10, <1>11, <1>12 DEF FramedBy, all

\* The first packet is there, whole.
LEMMA FirstPacket ==
  ASSUME NEW sizes \in Seq(Nat \ {0}), NEW q \in 0..Len(sizes), NEW len \in Nat \ {0},
         NEW rest, FramedBy(rest, len, q, sizes)
  PROVE  /\ q + 1 \in 1..Len(sizes) /\ sizes[q + 1] \in 1..len
         /\ \A j \in 1..sizes[q + 1] : rest[j] = <<q + 1, j>>
<1>1. q + 1 \in 1..Len(sizes) /\ rest[1] = <<q + 1, 1>> /\ 1 \in 1..len
  BY DEF FramedBy, FirstAndLast
<1>2. sizes[q + 1] \in Nat \ {0}
  BY <1>1
<1>3. 1 + sizes[q + 1] - 1 <= len /\ \A j \in 1..sizes[q + 1] : rest[1 + j - 1] = <<q + 1, j>>
  BY <1>1 DEF FramedBy, AllThere
<1>4. \A j \in 1..sizes[q + 1] : 1 + j - 1 = j
  BY <1>2
<1> QED BY <1>1, <1>2, <1>3, <1>4

\* The first packet is taken.
LEMMA TakePacket ==
  ASSUME NEW sizes \in Seq(Nat \ {0}), NEW q \in 0..Len(sizes), NEW len \in Nat \ {0},
         NEW rest, NEW less, FramedBy(rest, len, q, sizes),
         \A p \in 1..(len - sizes[q + 1]) : less[p] = rest[p + sizes[q + 1]]
  PROVE  FramedBy(less, len - sizes[q + 1], q + 1, sizes)
<1> DEFINE s == sizes[q + 1]
           l == len - s
<1>1. /\ q + 1 \in 1..Len(sizes) /\ s \in 1..len
      /\ \A j \in 1..s : rest[j] = <<q + 1, j>>
  BY FirstPacket
<1>2. /\ Len(sizes) \in Nat /\ l \in Nat
      /\ \A n \in 1..Len(sizes) : sizes[n] \in Nat \ {0}
  BY <1>1
<1>3. \A p \in 1..l : less[p] = rest[p + s]
  OBVIOUS
<1> HIDE DEF s, l
<1>4. l = len - s /\ len = l + s
  BY <1>1, <1>2 DEF l
<1>5. \A p \in 1..l : p + s \in 1..len
  BY <1>1, <1>2, <1>4
<1>6. rest[s] = <<q + 1, sizes[q + 1]>>
  BY SMTT(30), <1>1 DEF s
<1>7. CASE l = 0
  <2>1. q + 1 = Len(sizes)
    <3>1. rest[len] = <<Len(sizes), sizes[Len(sizes)]>> /\ len = s
      BY <1>1, <1>4, <1>7 DEF FramedBy, FirstAndLast
    <3> QED BY <3>1, <1>6
  <2>2. FramedBy(less, l, q + 1, sizes)
    BY <2>1, <1>7, <1>2 DEF FramedBy, FirstAndLast, OfPackets, AllThere, InTurn
  <2> QED BY <2>2 DEF l, s
<1>8. CASE l > 0
  <2>1. q + 1 < Len(sizes) /\ rest[s + 1] = <<q + 1 + 1, 1>>
    <3>1. s \in 1..(len - 1)
      BY <1>1, <1>2, <1>4, <1>8
    <3> QED BY <3>1, <1>1, <1>6 DEF FramedBy, InTurn, s
  <2>2. less[1] = <<q + 1 + 1, 1>> /\ less[l] = <<Len(sizes), sizes[Len(sizes)]>>
    <3>1. less[1] = rest[1 + s] /\ less[l] = rest[l + s] /\ 1 + s = s + 1
      BY <1>1, <1>2, <1>3, <1>8
    <3>2. rest[len] = <<Len(sizes), sizes[Len(sizes)]>>
      BY DEF FramedBy, FirstAndLast
    <3> QED BY <3>1, <3>2, <2>1, <1>4
  <2>3. \A p \in 1..l : \E n \in 1..Len(sizes) : \E j \in 1..sizes[n] : less[p] = <<n, j>>
    <3> SUFFICES ASSUME NEW p \in 1..l
                 PROVE  \E n \in 1..Len(sizes) : \E j \in 1..sizes[n] : less[p] = <<n, j>>
      OBVIOUS
    <3>1. less[p] = rest[p + s] /\ p + s \in 1..len
      BY <1>3, <1>5
    <3> QED BY <3>1 DEF FramedBy, OfPackets
  <2>4. ASSUME NEW p \in 1..l, NEW n \in 1..Len(sizes), less[p] = <<n, 1>>
        PROVE  p + sizes[n] - 1 <= l /\ \A j \in 1..sizes[n] : less[p + j - 1] = <<n, j>>
    <3>1. /\ p + s + sizes[n] - 1 <= len
          /\ \A j \in 1..sizes[n] : rest[p + s + j - 1] = <<n, j>>
      <4>1. rest[p + s] = <<n, 1>> /\ p + s \in 1..len
        BY <2>4, <1>3, <1>5
      <4> QED BY <4>1 DEF FramedBy, AllThere
    <3>2. p + sizes[n] - 1 <= l
      <4>1. PICK size \in Nat : size = sizes[n]
        BY <1>2
      <4>2. p + s + size - 1 <= len
        BY <3>1, <4>1
      <4>3. p + size - 1 <= l
        <5>1. s \in Nat
          BY <1>1
        <5> QED BY <4>2, <5>1, <1>2, <1>4
      <4> QED BY <4>1, <4>3
    <3>3. \A j \in 1..sizes[n] : p + j - 1 \in 1..l /\ p + j - 1 + s = p + s + j - 1
      BY SMTT(30), <3>2, <1>1, <1>2
    <3>4. \A j \in 1..sizes[n] : less[p + j - 1] = rest[p + s + j - 1]
      BY <3>3, <1>3
    <3> QED BY <3>1, <3>2, <3>4
  <2>5. ASSUME NEW p \in 1..(l - 1), NEW n \in 1..Len(sizes), less[p] = <<n, sizes[n]>>
        PROVE  n < Len(sizes) /\ less[p + 1] = <<n + 1, 1>>
    <3>1. p \in 1..l /\ p + 1 \in 1..l /\ p + s \in 1..(len - 1) /\ p + 1 + s = p + s + 1
      BY <1>1, <1>2, <1>4
    <3>2. n < Len(sizes) /\ rest[p + s + 1] = <<n + 1, 1>>
      <4>1. rest[p + s] = <<n, sizes[n]>>
        BY <2>5, <3>1, <1>3
      <4> QED BY <4>1, <3>1 DEF FramedBy, InTurn
    <3> QED BY <3>1, <3>2, <1>3
  <2>6. ~(l = 0) /\ q + 1 # Len(sizes)
    BY <2>1, <1>1, <1>2, <1>8
  <2>7. FramedBy(less, l, q + 1, sizes)
    <3>1. FirstAndLast(less, l, q + 1, sizes)
      BY <2>2, <2>6 DEF FirstAndLast
    <3>2. OfPackets(less, l, sizes)
      BY <2>3 DEF OfPackets
    <3>3. AllThere(less, l, sizes)
      BY <2>4 DEF AllThere
    <3>4. InTurn(less, l, sizes)
      BY <2>5 DEF InTurn
    <3> QED BY <3>1, <3>2, <3>3, <3>4 DEF FramedBy
  <2> QED BY <2>7 DEF l, s
<1> QED BY <1>2, <1>7, <1>8

----------------------------------------------------------------------------
(* Steps.                                                                  *)

\* The sizes sent are numbers, and large enough for the size to be read.
LEMMA SizesSent ==
  ASSUME Typed
  PROVE  /\ posted \in Seq(Nat \ {0}) /\ Len(posted) \in Nat /\ queued \in Nat
         /\ \A n \in 1..Len(posted) : posted[n] \in HeaderSize..MaxPacketSize
<1>1. PacketSizes \subseteq Nat \ {0} /\ PacketSizes \subseteq HeaderSize..MaxPacketSize
  BY BufferAssumption
<1>2. posted \in Seq(PacketSizes) /\ Len(posted) \in Nat
  BY DEF Typed
<1>3. \A n \in 1..Len(posted) : posted[n] \in PacketSizes
  BY <1>2
<1>4. posted \in Seq(Nat \ {0})
  <2>1. posted \in [1..Len(posted) -> PacketSizes]
    BY <1>2, LenProperties
  <2>2. posted \in [1..Len(posted) -> Nat \ {0}]
    BY <2>1, <1>1, <1>3
  <2> QED BY <2>2, <1>2, SeqDef
<1>5. queued \in Nat
  BY <1>2 DEF Typed
<1> QED BY <1>1, <1>2, <1>3, <1>4, <1>5

\* The lengths of the three places.
LEMMA PartLengths ==
  ASSUME Typed
  PROVE  /\ Unread \in Nat /\ Len(chunk) \in Nat /\ Len(stream) \in Nat
         /\ Length \in Nat
  BY DEF Typed, Unread, Length

\* A byte that moves from one place to the next stays where it is in the rest.
LEMMA SameRest ==
  ASSUME Typed, FramedBy(Rest, Length, queued, posted),
         Length' = Length, \A p \in 1..Length : ByteAt(p)' = ByteAt(p),
         UNCHANGED <<posted, queued>>
  PROVE  FramedBy(Rest, Length, queued, posted)'
<1>1. Rest' = Rest
  BY DEF Rest
<1> QED BY <1>1

LEMMA InitIInv == BufferInit => IInv
<1> SUFFICES ASSUME BufferInit PROVE IInv
  OBVIOUS
<1>1. Typed
  BY DEF BufferInit, Typed, ByteSet
<1>2. Room
  BY BufferAssumption DEF BufferInit, Room, Unread
<1>3. Length = 0 /\ queued = 0 /\ posted = << >>
  BY DEF BufferInit, Length, Unread
<1>5. Dropping
  BY DEF BufferInit, Dropping, DroppedIsLong
<1>4. FramedBy(Rest, Length, queued, posted)
  BY <1>3 DEF FramedBy, FirstAndLast, OfPackets, AllThere, InTurn
<1> QED BY <1>1, <1>2, <1>4, <1>5 DEF IInv

\* The server sends a packet.
LEMMA SendsKeeps ==
  ASSUME IInv, NEW size \in PacketSizes, ServerSends(size)
  PROVE  IInv'
<1> DEFINE n == Len(posted) + 1
           bytes == [i \in 1..size |-> <<n, i>>]
<1>1. /\ size \in Nat \ {0} /\ Len(posted) \in Nat /\ n \in Nat
      /\ posted' = Append(posted, size) /\ stream' = stream \o bytes
      /\ UNCHANGED <<chunk, data, readPos, writePos, phase, queued, dropped>>
  BY BufferAssumption DEF ServerSends, IInv, Typed
<1>2. bytes \in Seq(ByteSet) /\ Len(bytes) = size
  BY <1>1 DEF ByteSet
<1>3. /\ stream' \in Seq(ByteSet) /\ Len(stream') = Len(stream) + size
      /\ \A p \in 1..Len(stream) : stream'[p] = stream[p]
      /\ \A i \in 1..size : stream'[Len(stream) + i] = <<n, i>>
  <2>1. stream \in Seq(ByteSet)
    BY DEF IInv, Typed
  <2>2. \A i \in 1..size : bytes[i] = <<n, i>>
    OBVIOUS
  <2> HIDE DEF bytes, n
  <2>3. stream' = stream \o bytes
    BY <1>1
  <2>4. stream' \in Seq(ByteSet) /\ Len(stream') = Len(stream) + size
    BY <1>2, <2>1, <2>3, ConcatProperties
  <2>5. \A p \in 1..(Len(stream) + Len(bytes)) :
          stream'[p] = IF p <= Len(stream) THEN stream[p] ELSE bytes[p - Len(stream)]
    BY <1>2, <2>1, <2>3, ConcatProperties
  <2>6. Len(stream) \in Nat /\ size \in Nat
    BY <1>1, <2>1
  <2>7. \A p \in 1..Len(stream) : stream'[p] = stream[p]
    BY <1>2, <2>5, <2>6
  <2>8. ASSUME NEW i \in 1..size PROVE stream'[Len(stream) + i] = <<n, i>>
    <3>1. /\ Len(stream) + i \in 1..(Len(stream) + Len(bytes))
          /\ ~(Len(stream) + i <= Len(stream)) /\ Len(stream) + i - Len(stream) = i
      BY <1>2, <2>6
    <3> QED BY <3>1, <2>2, <2>5
  <2> QED BY <2>4, <2>7, <2>8
<1>4. Typed'
  <2>1. posted' \in Seq(PacketSizes) /\ Len(posted') = Len(posted) + 1
    BY <1>1 DEF IInv, Typed
  <2> QED BY <1>1, <1>3, <2>1 DEF IInv, Typed
<1>5. Room' /\ Dropping'
  BY <1>1 DEF IInv, Room, Unread, Dropping, DroppedIsLong
<1>6. Unread \in Nat /\ Len(chunk) \in Nat /\ Len(stream) \in Nat
  BY PartLengths DEF IInv
<1>7. Length' = Length + size
  BY <1>1, <1>3, <1>6 DEF Length, Unread
<1>8. \A p \in 1..Length : ByteAt(p)' = ByteAt(p)
  BY SMTT(30), <1>1, <1>3, <1>6 DEF Length, ByteAt, Unread
<1>9. \A p \in (Length + 1)..(Length + size) : ByteAt(p)' = <<n, p - Length>>
  <2> SUFFICES ASSUME NEW p \in (Length + 1)..(Length + size)
               PROVE  ByteAt(p)' = <<n, p - Length>>
    OBVIOUS
  <2>1. /\ ~(p <= Unread) /\ ~(p <= Unread + Len(chunk)) /\ p - Length \in 1..size
        /\ p - Unread - Len(chunk) = Len(stream) + (p - Length)
    BY <1>1, <1>6 DEF Length
  <2>2. stream'[Len(stream) + (p - Length)] = <<n, p - Length>>
    BY <2>1, <1>3
  <2>3. Unread' = Unread /\ chunk' = chunk
    BY <1>1 DEF Unread
  <2>4. ByteAt(p)' = stream'[p - Unread - Len(chunk)]
    BY <2>1, <2>3 DEF ByteAt
  <2> QED BY <2>1, <2>2, <2>4
<1>10. FramedBy(Rest', Length + size, queued, Append(posted, size))
  <2>1. Length \in Nat /\ posted \in Seq(Nat \ {0}) /\ queued \in 0..Len(posted)
    BY PartLengths, SizesSent DEF IInv, Typed
  <2>2. \A p \in 1..Length : Rest'[p] = Rest[p]
    <3>1. \A p \in 1..Length : p \in 1..Length'
      BY <1>1, <1>7, <2>1
    <3> QED BY <3>1, <1>8 DEF Rest
  <2>3. \A i \in 1..size : Rest'[Length + i] = <<n, i>>
    <3> SUFFICES ASSUME NEW i \in 1..size PROVE Rest'[Length + i] = <<n, i>>
      OBVIOUS
    <3>1. /\ Length + i \in 1..Length' /\ Length + i \in (Length + 1)..(Length + size)
          /\ Length + i - Length = i
      BY <1>1, <1>7, <2>1
    <3>2. \A p \in 1..Length' : Rest'[p] = ByteAt(p)'
      BY DEF Rest
    <3>3. \A p \in (Length + 1)..(Length + size) : Rest'[p] = <<n, p - Length>>
      <4>1. \A p \in (Length + 1)..(Length + size) : p \in 1..Length'
        BY <1>1, <1>7, <2>1
      <4> QED BY <4>1, <3>2, <1>9
    <3> HIDE DEF n
    <3> QED BY <3>1, <3>3, <2>1
  <2>4. FramedBy(Rest, Length, queued, posted)
    BY DEF IInv
  <2> QED BY <1>1, <2>1, <2>2, <2>3, <2>4, AddPacket
<1> QED BY <1>1, <1>4, <1>5, <1>7, <1>10 DEF IInv

\* A receive takes bytes from the stream.
LEMMA ReceivesKeeps ==
  ASSUME IInv, NEW k \in 1..ReadSize, Receives(k)
  PROVE  IInv'
<1>1. /\ k \in 1..Len(stream) /\ k <= ReadSize
      /\ chunk = << >> /\ phase' = "write"
      /\ chunk' = SubSeq(stream, 1, k)
      /\ stream' = SubSeq(stream, k + 1, Len(stream))
      /\ UNCHANGED <<posted, data, readPos, writePos, queued, dropped>>
      /\ phase = "receive"
  BY BufferAssumption DEF Receives, IInv, Typed, Room
<1>2. stream \in Seq(ByteSet) /\ Len(stream) \in Nat
  BY DEF IInv, Typed
<1>3. /\ chunk' \in Seq(ByteSet) /\ Len(chunk') = k
      /\ \A p \in 1..k : chunk'[p] = stream[p]
  BY <1>1, <1>2, SubSeqProperties
<1>4. /\ stream' \in Seq(ByteSet) /\ Len(stream') = Len(stream) - k
      /\ \A p \in 1..(Len(stream) - k) : stream'[p] = stream[p + k]
  BY <1>1, <1>2, SubSeqProperties
<1>5. Typed'
  BY <1>1, <1>3, <1>4 DEF IInv, Typed
<1>6. Room'
  <2>1. phase # "read"
    BY DEF Receives
  <2> QED BY <1>1, <1>3, <2>1 DEF IInv, Room, Unread
<1>10. Dropping'
  BY <1>1 DEF IInv, Dropping, DroppedIsLong
<1>7. Unread \in Nat /\ Unread' = Unread /\ Len(chunk) = 0
  BY <1>1, PartLengths DEF IInv, Unread
<1>8. Length' = Length
  <2>1. Len(chunk') = k /\ Len(stream') = Len(stream) - k /\ k \in Nat /\ Len(stream) \in Nat
    BY <1>1, <1>2, <1>3, <1>4
  <2> QED BY <2>1, <1>7 DEF Length
<1>9. \A p \in 1..Length : ByteAt(p)' = ByteAt(p)
  <2> SUFFICES ASSUME NEW p \in 1..Length PROVE ByteAt(p)' = ByteAt(p)
    OBVIOUS
  <2>1. CASE p <= Unread
    BY <2>1, <1>1, <1>7 DEF ByteAt
  <2>2. CASE ~(p <= Unread) /\ p <= Unread + k
    <3>1. p - Unread \in 1..k /\ p - Unread - 0 = p - Unread /\ ~(p <= Unread + 0)
      BY <2>2, <1>1, <1>7
    <3>2. ByteAt(p) = stream[p - Unread]
      BY <3>1, <2>2, <1>7 DEF ByteAt
    <3>3. ByteAt(p)' = chunk'[p - Unread]
      BY <2>2, <1>1, <1>3, <1>7 DEF ByteAt
    <3> QED BY <3>1, <3>2, <3>3, <1>3
  <2>3. CASE ~(p <= Unread) /\ ~(p <= Unread + k)
    <3>1. /\ p - Unread - k \in 1..(Len(stream) - k) /\ ~(p <= Unread + 0)
          /\ p - Unread - k + k = p - Unread - 0
      BY <2>3, <1>1, <1>2, <1>7 DEF Length
    <3>2. ByteAt(p) = stream[p - Unread - 0]
      BY <3>1, <2>3, <1>7 DEF ByteAt
    <3>3. ByteAt(p)' = stream'[p - Unread - k]
      BY <2>3, <1>3, <1>7 DEF ByteAt
    <3> QED BY <3>1, <3>2, <3>3, <1>4
  <2> QED BY <2>1, <2>2, <2>3
<1> QED BY <1>1, <1>5, <1>6, <1>8, <1>9, <1>10, SameRest DEF IInv

\* What was received is written behind what is unread, or with it to the front.
LEMMA WriteFits ==
  ASSUME IInv, Write, writePos + Len(chunk) <= BufferSize
  PROVE  IInv'
<1> DEFINE end == writePos + Len(chunk)
<1>1. /\ readPos \in Nat /\ writePos \in Nat /\ readPos <= writePos
      /\ Len(chunk) \in Nat /\ Len(stream) \in Nat /\ end \in Nat
      /\ BufferSize \in Nat /\ MaxPacketSize \in Nat /\ ReadSize \in Nat
  BY BufferAssumption DEF IInv, Typed
<1>2. /\ writePos <= BufferSize /\ Len(chunk) <= ReadSize
      /\ writePos - readPos < MaxPacketSize
      /\ phase = "write" /\ dropped = FALSE
  <2>1. phase = "write"
    BY DEF Write
  <2>2. dropped = FALSE
    BY <2>1 DEF IInv, Dropping
  <2> QED BY <2>1, <2>2 DEF IInv, Room, Unread
<1>3. end <= BufferSize
  OBVIOUS
<1>11. ~(end > BufferSize)
  BY <1>1, <1>3
<1>4. /\ phase' = "read" /\ chunk' = << >> /\ UNCHANGED <<posted, stream, queued, dropped>>
      /\ \/ NextFree(end) /\ data' = Written /\ writePos' = end /\ readPos' = readPos
         \/ ~NextFree(end) /\ Relocate(Written, readPos, end)
  BY <1>11 DEF Write
<1>5. /\ Written \in [Positions -> ByteSet]
      /\ \A p \in readPos..(writePos - 1) : Written[p] = data[p]
      /\ \A i \in 1..Len(chunk) : Written[writePos + i - 1] = chunk[i]
  <2>1. data \in [Positions -> ByteSet] /\ chunk \in Seq(ByteSet)
    BY DEF IInv, Typed
  <2>2. \A p \in writePos..(writePos + Len(chunk) - 1) :
          p - writePos + 1 \in 1..Len(chunk) /\ p \in Nat
    BY <1>1
  <2>3. \A p \in writePos..(writePos + Len(chunk) - 1) : chunk[p - writePos + 1] \in ByteSet
    BY <2>1, <2>2
  <2>4. Written \in [Positions -> ByteSet]
    BY <2>1, <2>3 DEF Written
  <2>5. \A p \in readPos..(writePos - 1) :
          p \in Positions /\ p \notin writePos..(writePos + Len(chunk) - 1)
    BY <1>1, <1>2 DEF Positions
  <2>6. \A i \in 1..Len(chunk) :
          /\ writePos + i - 1 \in Positions
          /\ writePos + i - 1 \in writePos..(writePos + Len(chunk) - 1)
          /\ writePos + i - 1 - writePos + 1 = i
    BY <1>1, <1>3 DEF Positions
  <2>7. \A p \in Positions : Written[p] =
          IF p \in writePos..(writePos + Len(chunk) - 1) THEN chunk[p - writePos + 1] ELSE data[p]
    BY DEF Written
  <2> HIDE DEF Written
  <2>8. \A p \in readPos..(writePos - 1) : Written[p] = data[p]
    BY <2>5, <2>7
  <2>9. ASSUME NEW i \in 1..Len(chunk) PROVE Written[writePos + i - 1] = chunk[i]
    <3>1. /\ writePos + i - 1 \in Positions
          /\ writePos + i - 1 \in writePos..(writePos + Len(chunk) - 1)
          /\ writePos + i - 1 - writePos + 1 = i
      BY <2>6
    <3>2. PICK x \in Positions : x = writePos + i - 1
      BY <3>1
    <3>3. Written[x] = chunk[x - writePos + 1]
      BY <2>7, <3>1, <3>2
    <3> QED BY <3>1, <3>2, <3>3, <1>1
  <2> QED BY <2>4, <2>8, <2>9
<1>6. Unread \in Nat /\ Unread = writePos - readPos
  BY <1>1 DEF Unread
<1>7. ASSUME NEW to \in Nat, to <= readPos, writePos' = end - to, readPos' = readPos - to,
             data' \in [Positions -> ByteSet], writePos' <= BufferSize,
             TwoReceives => \/ writePos' + MaxPacketSize <= BufferSize
                            \/ writePos' + ReadSize <= BufferSize,
             \A p \in readPos..(end - 1) : data'[p - to] = Written[p]
      PROVE  IInv'
  <2>1. Typed'
    <3>1. readPos' \in Nat /\ writePos' \in Nat /\ readPos' <= writePos'
      BY <1>1, <1>7
    <3>2. chunk' \in Seq(ByteSet)
      BY <1>4
    <3> QED BY <3>1, <3>2, <1>4, <1>7 DEF IInv, Typed
  <2>2. Room' /\ Dropping'
    <3>1. Len(chunk') = 0
      BY <1>4
    <3>2. Room'
      BY <3>1, <1>1, <1>4, <1>7 DEF Room, TwoReceives
    <3>3. Dropping'
      BY <1>2, <1>4 DEF Dropping, DroppedIsLong
    <3> QED BY <3>2, <3>3
  <2>3. Unread' = Unread + Len(chunk) /\ Len(chunk') = 0 /\ Len(stream') = Len(stream)
    BY <1>1, <1>4, <1>6, <1>7 DEF Unread
  <2>4. Length' = Length
    BY <2>3, <1>1, <1>6 DEF Length
  <2>5. \A p \in 1..Length : ByteAt(p)' = ByteAt(p)
    <3> SUFFICES ASSUME NEW p \in 1..Length PROVE ByteAt(p)' = ByteAt(p)
      OBVIOUS
    <3>1. CASE p <= Unread
      <4>1. /\ readPos + p - 1 \in readPos..(writePos - 1)
            /\ readPos + p - 1 \in readPos..(end - 1)
            /\ readPos + p - 1 - to = readPos' + p - 1
            /\ p <= Unread + Len(chunk)
        BY <3>1, <1>1, <1>6, <1>7
      <4>2. data'[readPos' + p - 1] = data[readPos + p - 1]
        <5>1. data'[readPos + p - 1 - to] = Written[readPos + p - 1]
          <6>1. PICK x \in readPos..(end - 1) : x = readPos + p - 1
            BY <4>1
          <6>2. data'[x - to] = Written[x]
            BY <1>7
          <6> QED BY <6>1, <6>2, <1>1, <1>6
        <5>2. Written[readPos + p - 1] = data[readPos + p - 1]
          BY <4>1, <1>5
        <5> QED BY <5>1, <5>2, <4>1
      <4> QED BY <4>1, <4>2, <3>1, <2>3 DEF ByteAt
    <3>2. CASE ~(p <= Unread) /\ p <= Unread + Len(chunk)
      <4>1. /\ p - Unread \in 1..Len(chunk)
            /\ writePos + (p - Unread) - 1 \in readPos..(end - 1)
            /\ writePos + (p - Unread) - 1 - to = readPos' + p - 1
        BY <3>2, <1>1, <1>6, <1>7
      <4>2. data'[readPos' + p - 1] = chunk[p - Unread]
        <5>1. data'[writePos + (p - Unread) - 1 - to] = Written[writePos + (p - Unread) - 1]
          <6>1. PICK x \in readPos..(end - 1) : x = writePos + (p - Unread) - 1
            BY <4>1
          <6>2. data'[x - to] = Written[x]
            BY <1>7
          <6> QED BY <6>1, <6>2, <1>1, <1>6
        <5>2. Written[writePos + (p - Unread) - 1] = chunk[p - Unread]
          BY <4>1, <1>5
        <5> QED BY <5>1, <5>2, <4>1
      <4> QED BY <4>2, <3>2, <2>3 DEF ByteAt
    <3>3. CASE ~(p <= Unread) /\ ~(p <= Unread + Len(chunk))
      <4>1. p - (Unread + Len(chunk)) - 0 = p - Unread - Len(chunk)
            /\ ~(p <= Unread + Len(chunk) + 0)
        BY <3>3, <1>1, <1>6
      <4> QED BY <4>1, <3>3, <2>3, <1>4 DEF ByteAt
    <3> QED BY <3>1, <3>2, <3>3
  <2> QED BY <2>1, <2>2, <2>4, <2>5, <1>4, SameRest DEF IInv
<1>8. ASSUME NextFree(end), data' = Written, writePos' = end, readPos' = readPos
      PROVE  IInv'
  <2>1. writePos' + MaxPacketSize <= BufferSize /\ writePos' <= BufferSize
    BY <1>1, <1>3, <1>8 DEF NextFree
  <2>2. writePos' = end - 0 /\ readPos' = readPos - 0 /\ 0 <= readPos
    BY <1>1, <1>8
  <2>3. \A p \in readPos..(end - 1) : data'[p - 0] = Written[p]
    BY <1>1, <1>8
  <2>4. data' \in [Positions -> ByteSet] /\ 0 \in Nat
    BY <1>5, <1>8
  <2> HIDE DEF end
  <2> QED BY <2>1, <2>2, <2>3, <2>4, <1>7, Zenon
<1>9. ASSUME ~NextFree(end), Relocate(Written, readPos, end)
      PROVE  IInv'
  <2>1. writePos' = end - readPos /\ readPos' = 0
    BY <1>9 DEF Relocate
  <2>2. writePos' <= BufferSize /\ (TwoReceives => writePos' + ReadSize <= BufferSize)
    BY <2>1, <1>1, <1>2, <1>3 DEF TwoReceives
  <2>3. \A p \in readPos..(end - 1) :
          p - readPos \in Positions /\ p - readPos < end - readPos /\ readPos + (p - readPos) = p
    BY <1>1, <1>3 DEF Positions
  <2>4. \A p \in readPos..(end - 1) : data'[p - readPos] = Written[p]
    BY <2>3, <1>9 DEF Relocate
  <2>5. \A p \in Positions : p < end - readPos => readPos + p \in Positions
    BY <1>1, <1>3 DEF Positions
  <2>6. data' \in [Positions -> ByteSet]
    BY <2>5, <1>5, <1>9, data \in [Positions -> ByteSet] DEF Relocate, IInv, Typed
  <2>7. readPos' = readPos - readPos
    BY <2>1, <1>1
  <2>8. readPos \in Nat /\ readPos <= readPos
    BY <1>1
  <2> HIDE DEF end
  <2> QED BY <2>1, <2>2, <2>4, <2>6, <2>7, <2>8, <1>7, Zenon
<1> QED BY <1>4, <1>8, <1>9

\* A receive that has no room stays unwritten, and is longer than a packet.
LEMMA WriteDrops ==
  ASSUME IInv, Write, writePos + Len(chunk) > BufferSize
  PROVE  IInv'
<1>1. /\ writePos \in Nat /\ Len(chunk) \in Nat /\ BufferSize \in Nat
      /\ MaxPacketSize \in Nat /\ ReadSize \in Nat
  BY BufferAssumption DEF IInv, Typed
<1>2. ~(writePos + Len(chunk) <= BufferSize)
  BY <1>1
<1>3. /\ phase = "write" /\ phase' = "lost" /\ dropped' = TRUE
      /\ UNCHANGED <<posted, stream, chunk, data, readPos, writePos, queued>>
  BY <1>2 DEF Write
<1>4. Typed'
  BY <1>3 DEF IInv, Typed
<1>5. Room'
  BY <1>3 DEF IInv, Room, Unread, TwoReceives
<1>6. TwoReceives => Len(chunk) > MaxPacketSize
  BY <1>1 DEF IInv, Room, TwoReceives
<1>7. Dropping'
  <2>1. TwoReceives' <=> TwoReceives
    BY DEF TwoReceives
  <2> QED BY <1>3, <1>6, <2>1 DEF Dropping, DroppedIsLong
<1>8. Length' = Length /\ \A p \in 1..Length : ByteAt(p)' = ByteAt(p)
  BY <1>3 DEF Length, ByteAt, Unread
<1> QED BY <1>3, <1>4, <1>5, <1>7, <1>8, SameRest DEF IInv

LEMMA WriteKeeps ==
  ASSUME IInv, Write
  PROVE  IInv'
<1>1. writePos + Len(chunk) \in Nat /\ BufferSize \in Nat
  BY BufferAssumption DEF IInv, Typed
<1>2. writePos + Len(chunk) <= BufferSize \/ writePos + Len(chunk) > BufferSize
  BY <1>1
<1> QED BY <1>2, WriteFits, WriteDrops

\* What is first in the buffer.
LEMMA ReadableFirst ==
  ASSUME IInv, Unread >= HeaderSize
  PROVE  /\ queued + 1 \in 1..Len(posted) /\ SizeRead = posted[queued + 1]
         /\ posted[queued + 1] \in 1..Length
         /\ \A j \in 1..posted[queued + 1] : ByteAt(j) = <<queued + 1, j>>
<1>1. Unread \in Nat /\ Len(chunk) \in Nat /\ Len(stream) \in Nat /\ Length \in Nat
  BY PartLengths DEF IInv
<1>2. Length \in Nat \ {0} /\ Unread >= 2 /\ Length >= Unread
  BY <1>1, BufferAssumption DEF Length
<1>3. posted \in Seq(Nat \ {0}) /\ queued \in 0..Len(posted)
  BY SizesSent DEF IInv, Typed
<1>4. /\ queued + 1 \in 1..Len(posted) /\ posted[queued + 1] \in 1..Length
      /\ \A j \in 1..posted[queued + 1] : Rest[j] = <<queued + 1, j>>
  BY <1>2, <1>3, FirstPacket DEF IInv
<1>5. \A j \in 1..posted[queued + 1] : ByteAt(j) = <<queued + 1, j>>
  <2>1. \A j \in 1..posted[queued + 1] : j \in 1..Length
    BY <1>2, <1>4
  <2> QED BY <2>1, <1>4 DEF Rest
<1>6. posted[queued + 1] >= 2
  BY <1>4, BufferAssumption, SizesSent DEF IInv
<1>7. ByteAt(1) = data[readPos] /\ ByteAt(2) = data[readPos + 1]
  <2>1. readPos + 1 - 1 = readPos /\ readPos + 2 - 1 = readPos + 1
    BY DEF IInv, Typed
  <2>2. 1 <= Unread /\ 2 <= Unread
    BY <1>1, <1>2
  <2> QED BY <2>1, <2>2 DEF ByteAt
<1>8. data[readPos] = <<queued + 1, 1>> /\ data[readPos + 1] = <<queued + 1, 2>>
  <2>1. 1 \in 1..posted[queued + 1] /\ 2 \in 1..posted[queued + 1]
    BY <1>4, <1>6
  <2> QED BY <2>1, <1>5, <1>7
<1>9. SizeRead = posted[queued + 1]
  BY <1>3, <1>4, <1>8 DEF SizeRead
<1> QED BY <1>4, <1>5, <1>9

\* A packet is read.
LEMMA ReadKeeps ==
  ASSUME IInv, Read
  PROVE  /\ IInv' /\ queued + 1 \in 1..Len(posted)
         /\ packet' = Packet(queued + 1)
<1> DEFINE s == posted[queued + 1]
<1>1. /\ queued + 1 \in 1..Len(posted) /\ SizeRead = s /\ s \in 1..Length
      /\ \A j \in 1..s : ByteAt(j) = <<queued + 1, j>>
  BY ReadableFirst DEF Read, Readable
<1>2. s \in 1..Unread
  BY <1>1 DEF Read, Readable
<1>3. /\ Unread \in Nat /\ Len(chunk) \in Nat /\ Len(stream) \in Nat /\ Length \in Nat
      /\ readPos \in Nat /\ writePos \in Nat /\ Unread = writePos - readPos
      /\ writePos <= BufferSize /\ BufferSize \in Nat
  BY PartLengths, BufferAssumption DEF IInv, Typed, Unread, Room
<1>4. /\ readPos' = readPos + s /\ queued' = queued + 1
      /\ UNCHANGED <<posted, stream, chunk, data, writePos, phase, dropped>>
  BY <1>1 DEF Read
<1> HIDE DEF s
<1>5. Typed'
  <2>1. readPos' \in Nat /\ readPos' <= writePos'
    BY <1>2, <1>3, <1>4
  <2>2. queued' \in 0..Len(posted')
    BY <1>1, <1>4
  <2> QED BY <2>1, <2>2, <1>4 DEF IInv, Typed
<1>6. Room' /\ Dropping'
  <2>1. phase = "read"
    BY DEF Read
  <2>2. Room'
    BY <2>1, <1>4 DEF IInv, Room, TwoReceives
  <2>3. Dropping'
    BY <1>4 DEF IInv, Dropping, DroppedIsLong
  <2> QED BY <2>2, <2>3
<1>7. Unread' = Unread - s /\ Length' = Length - s
  BY <1>2, <1>3, <1>4 DEF Unread, Length
<1>8. \A p \in 1..(Length - s) : Rest'[p] = Rest[p + s]
  <2> SUFFICES ASSUME NEW p \in 1..(Length - s) PROVE Rest'[p] = Rest[p + s]
    OBVIOUS
  <2>1. p \in Nat /\ p + s \in 1..Length /\ p \in 1..Length'
    BY <1>1, <1>3, <1>7
  <2>2. ByteAt(p)' = ByteAt(p + s)
    <3>1. /\ p <= Unread - s <=> p + s <= Unread
          /\ p <= Unread - s + Len(chunk) <=> p + s <= Unread + Len(chunk)
          /\ readPos + s + p - 1 = readPos + (p + s) - 1
          /\ p - (Unread - s) = (p + s) - Unread
          /\ p - (Unread - s) - Len(chunk) = (p + s) - Unread - Len(chunk)
      BY <2>1, <1>2, <1>3
    <3>2. /\ Unread' = Unread - s /\ readPos' = readPos + s
          /\ data' = data /\ chunk' = chunk /\ stream' = stream
      BY <1>4, <1>7
    <3>3. ByteAt(p)' = IF p <= Unread - s THEN data[readPos + s + p - 1]
                       ELSE IF p <= Unread - s + Len(chunk) THEN chunk[p - (Unread - s)]
                       ELSE stream[p - (Unread - s) - Len(chunk)]
      BY <3>2 DEF ByteAt
    <3>4. ByteAt(p + s) = IF p + s <= Unread THEN data[readPos + (p + s) - 1]
                          ELSE IF p + s <= Unread + Len(chunk) THEN chunk[(p + s) - Unread]
                          ELSE stream[(p + s) - Unread - Len(chunk)]
      BY <1>3, <2>1 DEF ByteAt
    <3> QED BY <3>1, <3>3, <3>4
  <2> QED BY <2>1, <2>2 DEF Rest
<1>9. FramedBy(Rest', Length - s, queued + 1, posted)
  <2>1. Length \in Nat \ {0} /\ posted \in Seq(Nat \ {0}) /\ queued \in 0..Len(posted)
    BY <1>1, <1>3, SizesSent DEF IInv, Typed
  <2> QED BY <2>1, <1>8, TakePacket DEF IInv, s
<1>10. packet' = Packet(queued + 1)
  <2> DEFINE buffer == [i \in 1..BufferSize |-> data[i - 1]]
  <2>1. packet' = SubSeq(buffer, readPos + 1, readPos + s)
    BY <1>1 DEF Read
  <2>2. buffer \in Seq(ByteSet) /\ Len(buffer) = BufferSize
    <3>1. \A i \in 1..BufferSize : i - 1 \in Positions
      BY <1>3 DEF Positions
    <3>2. \A i \in 1..BufferSize : data[i - 1] \in ByteSet
      BY <3>1 DEF IInv, Typed
    <3>3. buffer \in [1..BufferSize -> ByteSet]
      BY <3>2
    <3> HIDE DEF buffer
    <3>4. buffer \in Seq(ByteSet)
      BY <3>3, <1>3, SeqDef
    <3> QED BY <3>3, <3>4, <1>3, LenProperties
  <2>3. \A k \in 1..BufferSize : buffer[k] = data[k - 1]
    OBVIOUS
  <2> HIDE DEF buffer
  <2>4. ASSUME NEW j \in 1..s PROVE buffer[readPos + j] = <<queued + 1, j>>
    <3>1. readPos + j \in 1..BufferSize /\ j <= Unread
      BY <1>2, <1>3
    <3>2. PICK k \in 1..BufferSize : k = readPos + j
      BY <3>1
    <3>3. buffer[k] = data[k - 1]
      BY <2>3
    <3>4. ByteAt(j) = data[readPos + j - 1]
      BY <3>1 DEF ByteAt
    <3>5. k - 1 = readPos + j - 1
      BY <3>2, <1>3
    <3> QED BY <3>2, <3>3, <3>4, <3>5, <1>1, <1>3
  <2>5. packet' = [j \in 1..s |-> buffer[readPos + j]]
    <3>1. s \in Nat /\ readPos + s <= Len(buffer)
      BY <2>2, <1>2, <1>3
    <3> QED BY <3>1, <2>1, <2>2, <1>3, SubSeqIs
  <2> QED BY <2>4, <2>5 DEF Packet, s
<1> QED BY <1>1, <1>4, <1>5, <1>6, <1>7, <1>9, <1>10 DEF IInv

\* The thread receives again once no whole packet is left: then less than the
\* largest packet is unread.
LEMMA NothingToReadKeeps == ASSUME IInv, NothingToRead PROVE IInv'
<1>1. UNCHANGED <<posted, stream, chunk, data, readPos, writePos, queued, dropped>>
      /\ phase = "read" /\ phase' = "receive"
  BY DEF NothingToRead
<1>2. Unread < MaxPacketSize
  <2>1. Unread \in Nat /\ HeaderSize \in Nat /\ MaxPacketSize \in Nat
    BY PartLengths, BufferAssumption DEF IInv
  <2>2. CASE Unread < HeaderSize
    <3>1. CASE PacketSizes = {}
      <4>1. Unread = 0
        <5>1. Len(posted) = 0 /\ queued = 0
          BY <3>1 DEF IInv, Typed
        <5>2. Length = 0
          BY <5>1 DEF IInv, FramedBy, FirstAndLast
        <5> QED BY <5>2, PartLengths DEF IInv, Length
      <4> QED BY <4>1, BufferAssumption
    <3>2. CASE PacketSizes # {}
      <4>1. HeaderSize <= MaxPacketSize
        <5>1. PICK size \in PacketSizes : TRUE
          BY <3>2
        <5> QED BY <5>1, BufferAssumption
      <4> QED BY <4>1, <2>1, <2>2
    <3> QED BY <3>1, <3>2
  <2>3. CASE Unread >= HeaderSize
    <3>1. /\ queued + 1 \in 1..Len(posted) /\ SizeRead = posted[queued + 1]
          /\ posted[queued + 1] \in HeaderSize..MaxPacketSize
          /\ posted[queued + 1] \in 1..Length
      BY <2>3, ReadableFirst, SizesSent DEF IInv
    <3>2. posted[queued + 1] \notin 1..Unread
      BY <3>1, <2>3 DEF NothingToRead, Readable
    <3> QED BY <3>1, <3>2, <2>1
  <2> QED BY <2>1, <2>2, <2>3
<1>3. Typed'
  BY <1>1 DEF IInv, Typed
<1>4. Room' /\ Dropping'
  <2>1. Room'
    BY <1>1, <1>2 DEF IInv, Room, Unread, TwoReceives
  <2>2. Dropping'
    BY <1>1 DEF IInv, Dropping, DroppedIsLong
  <2> QED BY <2>1, <2>2
<1>5. Length' = Length /\ \A p \in 1..Length : ByteAt(p)' = ByteAt(p)
  BY <1>1 DEF Length, ByteAt, Unread
<1> QED BY <1>1, <1>3, <1>4, <1>5, SameRest DEF IInv

LEMMA NextIInv == IInv /\ [BufferNext]_bufferVars => IInv'
<1> SUFFICES ASSUME IInv, [BufferNext]_bufferVars PROVE IInv'
  OBVIOUS
<1>1. CASE UNCHANGED bufferVars
  BY <1>1 DEF bufferVars, IInv, Typed, Room, Dropping, DroppedIsLong, Rest, Length, ByteAt,
              Unread
<1> QED BY <1>1, SendsKeeps, ReceivesKeeps, WriteKeeps, ReadKeeps, NothingToReadKeeps
        DEF BufferNext, Reader

\* DroppedIsLong: if the buffer holds two receives besides the rest of a packet,
\* as the program's does, then Write never drops a receive that is no longer
\* than a packet.
THEOREM OnlyLongDropped == BufferSpec => []DroppedIsLong
<1>1. IInv => DroppedIsLong
  BY DEF IInv, Dropping
<1> QED BY <1>1, InitIInv, NextIInv, PTL DEF BufferSpec

----------------------------------------------------------------------------
(* The packets handed to the UI.                                           *)

Line == [i \in 1..(Len(posted) - queued) |-> Packet(queued + i)]

LEMMA InitStream == BufferInit => Stream!Init
  BY DEF BufferInit, Stream!Init

\* A packet that is sent is added to the line.
LEMMA SendsStream ==
  ASSUME IInv, NEW size \in PacketSizes, ServerSends(size)
  PROVE  Line' = Append(Line, [i \in 1..size |-> <<Len(posted) + 1, i>>]) /\ packet' = packet
<1> DEFINE N == Len(posted) + 1
           k == Len(posted) - queued
<1>1. /\ posted \in Seq(PacketSizes) /\ Len(posted) \in Nat /\ queued \in 0..Len(posted)
      /\ posted' = Append(posted, size) /\ queued' = queued /\ packet' = packet
  BY DEF IInv, Typed, ServerSends
<1>2. /\ Len(posted') = N /\ posted'[N] = size
      /\ \A n \in 1..Len(posted) : posted'[n] = posted[n]
  BY <1>1
<1>3. k \in Nat /\ Len(posted') - queued' = k + 1 /\ queued + (k + 1) = N
  BY <1>1, <1>2
<1>4. \A i \in 1..k : queued + i \in 1..Len(posted)
  BY <1>1
<1> DEFINE P(m) == [i \in 1..posted'[m] |-> <<m, i>>]
<1>5. \A i \in 1..k : P(queued + i) = Packet(queued + i)
  BY <1>1, <1>2, <1>4 DEF Packet
<1>6. P(N) = [i \in 1..size |-> <<N, i>>]
  BY <1>2
<1>7. Line' = [i \in 1..(k + 1) |-> P(queued + i)]
  BY <1>1, <1>3 DEF Line, Packet
<1>8. Line = [i \in 1..k |-> Packet(queued + i)]
  BY DEF Line
<1> HIDE DEF k, N, P
<1>9. Line \in Seq({Packet(queued + i) : i \in 1..k}) /\ Len(Line) = k
  <2>1. Line \in [1..k -> {Packet(queued + i) : i \in 1..k}]
    BY <1>8
  <2> QED BY <2>1, <1>3, FunctionSeq
<1>10. Append(Line, P(N)) = [i \in 1..(k + 1) |-> IF i <= k THEN Line[i] ELSE P(N)]
  BY <1>9, AppendIs
<1>11. \A i \in 1..(k + 1) : P(queued + i) = IF i <= k THEN Line[i] ELSE P(N)
  <2> SUFFICES ASSUME NEW i \in 1..(k + 1)
               PROVE  P(queued + i) = IF i <= k THEN Line[i] ELSE P(N)
    OBVIOUS
  <2>1. CASE i <= k
    <3>1. i \in 1..k
      BY <2>1, <1>3
    <3> QED BY <3>1, <2>1, <1>5, <1>8
  <2>2. CASE ~(i <= k)
    <3>1. i = k + 1
      BY <2>2, <1>3
    <3> QED BY <3>1, <2>2, <1>3
  <2> QED BY <2>1, <2>2
<1>12. Line' = Append(Line, P(N))
  BY <1>7, <1>10, <1>11
<1> QED BY <1>1, <1>6, <1>12 DEF N

\* The packet that is read is the first of the line.
LEMMA ReadStream ==
  ASSUME IInv, Read
  PROVE  Line # << >> /\ packet' = Head(Line) /\ Line' = Tail(Line)
<1> DEFINE k == Len(posted) - queued
<1>1. /\ queued + 1 \in 1..Len(posted) /\ packet' = Packet(queued + 1)
      /\ posted' = posted /\ queued' = queued + 1
  BY ReadKeeps DEF Read
<1>2. queued \in Nat /\ Len(posted) \in Nat /\ k \in Nat \ {0} /\ Len(posted') - queued' = k - 1
  <2>1. queued \in Nat /\ Len(posted) \in Nat
    BY SizesSent DEF IInv
  <2>2. queued + 1 <= Len(posted) /\ Len(posted') = Len(posted) /\ queued' = queued + 1
    BY <1>1, <2>1
  <2>3. k \in Nat \ {0}
    BY <2>1, <2>2
  <2>4. Len(posted) - (queued + 1) = k - 1
    BY <2>1
  <2> QED BY <2>1, <2>2, <2>3, <2>4
<1>3. Line = [i \in 1..k |-> Packet(queued + i)]
  BY DEF Line
<1>4. Line' = [i \in 1..(k - 1) |-> Packet(queued + 1 + i)]
  BY <1>1, <1>2 DEF Line, Packet
<1> HIDE DEF k
<1>5. Line \in Seq({Packet(queued + i) : i \in 1..k}) /\ Len(Line) = k
  <2>1. Line \in [1..k -> {Packet(queued + i) : i \in 1..k}]
    BY <1>3
  <2> QED BY <2>1, <1>2, FunctionSeq
<1>6. Line # << >> /\ Head(Line) = Line[1] /\ Line[1] = Packet(queued + 1)
  <2>1. Line # << >>
    BY <1>2, <1>5
  <2>2. 1 \in 1..k
    BY <1>2
  <2> QED BY <2>1, <2>2, <1>3, <1>5, TailIs
<1>7. Tail(Line) = [i \in 1..(k - 1) |-> Line[i + 1]]
  BY <1>5, <1>6, TailIs
<1>8. \A i \in 1..(k - 1) : Line[i + 1] = Packet(queued + 1 + i)
  <2>1. \A i \in 1..(k - 1) : i + 1 \in 1..k /\ queued + (i + 1) = queued + 1 + i
    BY <1>2
  <2> QED BY <2>1, <1>3
<1> QED BY <1>1, <1>4, <1>6, <1>7, <1>8

LEMMA NextStream == IInv /\ [BufferNext]_bufferVars => [Stream!Next]_<<Line, packet, dropped>>
<1> SUFFICES ASSUME IInv, [BufferNext]_bufferVars PROVE [Stream!Next]_<<Line, packet, dropped>>
  OBVIOUS
<1>1. ASSUME UNCHANGED <<posted, queued, packet, dropped>>
      PROVE  UNCHANGED <<Line, packet, dropped>>
  BY <1>1 DEF Line, Packet
<1>2. CASE UNCHANGED bufferVars
  BY <1>1, <1>2 DEF bufferVars
<1>3. ASSUME NEW k \in 1..ReadSize, Receives(k) PROVE UNCHANGED <<Line, packet, dropped>>
  BY <1>1, <1>3 DEF Receives
<1>4. CASE Write \/ NothingToRead
  <2>1. \/ dropped' = TRUE
        \/ UNCHANGED <<posted, queued, packet, dropped>>
    BY <1>4 DEF Write, NothingToRead
  <2> QED BY <2>1, <1>1 DEF Stream!Next
<1>5. CASE Read
  <2>1. Stream!HandOver
    BY <1>5, ReadStream DEF Stream!HandOver, Line
  <2>2. UNCHANGED dropped
    BY <1>5 DEF Read
  <2> QED BY <2>1, <2>2 DEF Stream!Next
<1>6. ASSUME NEW size \in PacketSizes, ServerSends(size) PROVE Stream!Next
  <2> DEFINE p == [i \in 1..size |-> <<Len(posted) + 1, i>>]
  <2>1. Len(posted) + 1 \in 1..MaxPosted
    BY <1>6, BufferAssumption DEF ServerSends, IInv, Typed
  <2>2. p \in {[i \in 1..s |-> <<n, i>>] : n \in 1..MaxPosted, s \in PacketSizes}
    BY <2>1
  <2>3. Stream!Send(p)
    BY <1>6, SendsStream DEF Stream!Send, Line
  <2>4. UNCHANGED dropped
    BY <1>6 DEF ServerSends
  <2> QED BY <2>2, <2>3, <2>4 DEF Stream!Next
<1> QED BY <1>2, <1>3, <1>4, <1>5, <1>6 DEF BufferNext, Reader

\* ClientImplements: until a receive is dropped the client hands the UI what the
\* server sent, wherever the stream is cut and whatever sizes Init accepts: the
\* buffer implements the channel of whole packets.
THEOREM Implementation == BufferSpec => ClientImplements
<1>1. BufferInit => Stream!Init
  BY InitStream
<1>2. BufferSpec => []IInv
  BY InitIInv, NextIInv, PTL DEF BufferSpec
<1>3. IInv /\ [BufferNext]_bufferVars
        => [Stream!Next]_<<[i \in 1..(Len(posted) - queued) |-> Packet(queued + i)], packet,
                           dropped>>
  BY NextStream DEF Line
<1> QED BY <1>1, <1>2, <1>3, PTL DEF BufferSpec, ClientImplements, Stream!Spec
=============================================================================
