--------------------------- MODULE AsyncLogProofs ---------------------------
(***************************************************************************)
(* Proofs about AsyncLog for any queue and any number of threads, lines    *)
(* and midnights: the helper never writes without a file, and it is handed *)
(* every line once and in order.                                           *)
(***************************************************************************)
EXTENDS AsyncLog, TLAPS, SequenceTheorems

\* While there is no file the next rotation stays due, because its time is set
\* only after a file was opened and the clock is never set back; so the helper
\* comes to write only with a file.
IInv ==
  /\ day \in Nat /\ rotation \in Nat
  /\ ~fd => day >= rotation
  /\ HelperAt("open") => day >= rotation
  /\ HelperAt("rotate") => fd
  /\ HelperAt("write") => fd

LEMMA InitIInv == Init => IInv
  BY DEF Init, IInv, HelperAt

\* Whatever the file and the place of the helper stay.
LEMMA Aside == ASSUME IInv, UNCHANGED <<helper, file>> PROVE IInv'
  BY DEF IInv, HelperAt, file

\* The helper goes to a place where it needs no file.
LEMMA Elsewhere ==
  ASSUME IInv, UNCHANGED file, helper'.pc \notin {"open", "rotate", "write"}
  PROVE  IInv'
  BY DEF IInv, HelperAt, file

LEMMA Moved == ASSUME NEW pc, HelperGoto(pc) PROVE helper'.pc = pc
  BY DEF HelperGoto

LEMMA CallersKeep ==
  ASSUME IInv, NEW t \in Threads, WriteLog(t) \/ CallerStep(t)
  PROVE  IInv'
<1>1. CASE WriteLog(t) \/ Enqueue(t)
  BY <1>1, Aside DEF WriteLog, Enqueue
<1>2. CASE NotifyHelper(t)
  <2>1. CASE HelperAt("wait") /\ helper' = [helper EXCEPT !.pc = "dequeue"]
    <3>1. helper'.pc \notin {"open", "rotate", "write"}
      BY <2>1 DEF HelperAt
    <3> QED BY <1>2, <3>1, Elsewhere DEF NotifyHelper
  <2>2. CASE helper' = helper
    BY <1>2, <2>2, Aside DEF NotifyHelper
  <2> QED BY <1>2, <2>1, <2>2 DEF NotifyHelper
<1> QED BY <1>1, <1>2 DEF CallerStep

LEMMA HelperKeeps == ASSUME IInv, HelperStep PROVE IInv'
<1>1. CASE Dequeue \/ TimesOut
  <2>1. CASE Takes
    BY <2>1, <1>1, Elsewhere DEF Takes, Dequeue, TimesOut
  <2>2. CASE HelperGoto("wait") \/ HelperGoto("interval")
    BY <2>2, <1>1, Moved, Elsewhere DEF Dequeue, TimesOut
  <2> QED BY <1>1, <2>1, <2>2 DEF Dequeue, TimesOut
<1>2. CASE NotifyCaller
  BY <1>2, Moved, Elsewhere DEF NotifyCaller, Dispatched
<1>3. CASE Sink
  BY <1>3, Moved DEF Sink, IInv, HelperAt, file
<1>4. CASE Open
  BY <1>4, Moved DEF Open, IInv, HelperAt
<1>5. CASE OpenFails
  BY <1>5, Moved DEF OpenFails, IInv, HelperAt
<1>6. CASE Rotate
  BY <1>6, Moved DEF Rotate, IInv, HelperAt
<1>7. CASE Write \/ HandleFlushInterval \/ EndHelper
  BY <1>7, Moved, Elsewhere DEF Write, HandleFlushInterval, EndHelper
<1> QED BY <1>1, <1>2, <1>3, <1>4, <1>5, <1>6, <1>7 DEF HelperStep

LEMMA NextIInv == IInv /\ [Next]_vars => IInv'
<1> SUFFICES ASSUME IInv, [Next]_vars PROVE IInv'
  OBVIOUS
<1>1. CASE UNCHANGED vars
  BY <1>1, Aside DEF vars, file
<1>2. CASE Exit \/ Join \/ FlushDue \/ Gone
  BY <1>1, <1>2, Aside DEF Exit, Join, FlushDue, Gone
<1>3. CASE Midnight
  BY <1>3 DEF Midnight, IInv, HelperAt
<1> QED BY <1>1, <1>2, <1>3, CallersKeep, HelperKeeps DEF Next

\* However many rotations fail, no line is written to a file that is not open.
THEOREM AlwaysAFile == Spec => []NeverNull
<1>1. IInv => NeverNull
  BY DEF IInv, NeverNull
<1> QED BY <1>1, InitIInv, NextIInv, PTL DEF Spec

----------------------------------------------------------------------------
(* The lines.                                                              *)

Item == [from: Threads, n: Nat]
CallerPCs == {"idle", "enqueue", "blocked", "notify", "join", "gone"}
WithLine == {"sink", "open", "rotate", "write"}
HelperPCs == {"dequeue", "wait", "notify", "interval", "terminate", "ended"} \cup WithLine

Types ==
  /\ caller \in [Threads -> [pc: CallerPCs, left: Nat]]
  /\ helper \in [pc: HelperPCs, item: Item]
  /\ queue \in Seq(Item)
  /\ sent \in [Threads -> Nat] /\ done \in [Threads -> Nat]

\* In s the lines of w are those after the first d, up to the m-th, in order.
Numbered(s, w, d, m) ==
  /\ d <= m
  /\ \A k \in DOMAIN s : s[k].from = w => s[k].n \in (d + 1)..m
  /\ \A n \in (d + 1)..m : \E k \in DOMAIN s : s[k].from = w /\ s[k].n = n
  /\ \A j, k \in DOMAIN s : s[j].from = w /\ s[k].from = w /\ j < k => s[j].n < s[k].n

AllNumbered == \A w \in Writers : Numbered(Undone, w, done[w], sent[w])

\* What terminates the helper is put into the queue when nobody writes any
\* more, so nothing comes behind it.
LastOfAll ==
  /\ ~CallerAt(Main, "idle") => \A w \in Writers : CallerAt(w, "idle")
  /\ \A k \in DOMAIN Undone : Undone[k].from = Main =>
       /\ Undone[k] = Terminate /\ k = Len(Undone)
       /\ caller[Main].pc \in {"notify", "join", "gone"}
  /\ helper.pc \in {"terminate", "ended"} =>
       queue = << >> /\ caller[Main].pc \in {"notify", "join", "gone"}
  /\ helper.pc \in WithLine => helper.item.from \in Writers
  /\ CallerAt(Main, "gone") => helper.pc = "ended"

LinesInv == Types /\ AllNumbered /\ LastOfAll

LEMMA ThreadFacts ==
  /\ Main \in Threads /\ Main \notin Writers
  /\ \A w \in Writers : w \in Threads /\ w # Main
  /\ Terminate \in Item /\ Terminate.from = Main
  BY AsyncLogAssumption DEF Threads, Terminate, Item

\* One more line, of w or of another, at the end.
LEMMA NumberedAppend ==
  ASSUME NEW s \in Seq(Item), NEW e \in Item, NEW w, NEW d \in Nat, NEW m \in Nat,
         Numbered(s, w, d, m)
  PROVE  /\ e.from # w => Numbered(Append(s, e), w, d, m)
         /\ e.from = w /\ e.n = m + 1 => Numbered(Append(s, e), w, d, m + 1)
<1> DEFINE N == Len(s) + 1
           more == Append(s, e)
<1>1. /\ DOMAIN more = 1..N /\ more[N] = e /\ Len(s) \in Nat /\ DOMAIN s = 1..Len(s)
      /\ \A k \in DOMAIN s : more[k] = s[k] /\ k < N
      /\ \A k \in DOMAIN more : k \in DOMAIN s \/ k = N
      /\ \A k \in DOMAIN s : k \in DOMAIN more
      /\ N \in DOMAIN more /\ ~(N < N)
      /\ \A k \in DOMAIN s : ~(N < k)
  BY AppendProperties
<1>2. \A k \in DOMAIN s : s[k] \in Item /\ s[k].n \in Nat
  <2>1. \A k \in DOMAIN s : s[k] \in Item
    OBVIOUS
  <2> QED BY <2>1 DEF Item
<1> HIDE DEF N, more
<1>3. CASE e.from # w
  <2>1. \A k \in DOMAIN more : more[k].from = w => k \in DOMAIN s /\ more[k] = s[k]
    BY <1>1, <1>3
  <2>2. \A k \in DOMAIN more : more[k].from = w => more[k].n \in (d + 1)..m
    BY <2>1 DEF Numbered
  <2>3. \A n \in (d + 1)..m : \E k \in DOMAIN more : more[k].from = w /\ more[k].n = n
    <3> SUFFICES ASSUME NEW n \in (d + 1)..m
                 PROVE  \E k \in DOMAIN more : more[k].from = w /\ more[k].n = n
      OBVIOUS
    <3>1. PICK k \in DOMAIN s : s[k].from = w /\ s[k].n = n
      BY DEF Numbered
    <3> QED BY <3>1, <1>1
  <2>4. \A j, k \in DOMAIN more :
          more[j].from = w /\ more[k].from = w /\ j < k => more[j].n < more[k].n
    BY <2>1 DEF Numbered
  <2>5. Numbered(more, w, d, m)
    BY <2>2, <2>3, <2>4 DEF Numbered
  <2> QED BY <2>5, <1>3 DEF more
<1>4. CASE e.from = w /\ e.n = m + 1
  <2>1. \A k \in DOMAIN s : s[k].from = w => s[k].n \in (d + 1)..m
    BY DEF Numbered
  <2>2. \A n \in (d + 1)..(m + 1) : n \in (d + 1)..m \/ n = m + 1
    OBVIOUS
  <2>3. \A n \in (d + 1)..m : n \in (d + 1)..(m + 1) /\ n < m + 1
    OBVIOUS
  <2>4. d <= m + 1 /\ m + 1 \in (d + 1)..(m + 1)
    BY DEF Numbered
  <2>5. \A k \in DOMAIN more : more[k].from = w => more[k].n \in (d + 1)..(m + 1)
    BY <1>1, <1>4, <2>1, <2>3, <2>4
  <2>6. \A n \in (d + 1)..(m + 1) : \E k \in DOMAIN more : more[k].from = w /\ more[k].n = n
    <3> SUFFICES ASSUME NEW n \in (d + 1)..(m + 1)
                 PROVE  \E k \in DOMAIN more : more[k].from = w /\ more[k].n = n
      OBVIOUS
    <3>1. CASE n = m + 1
      BY <3>1, <1>1, <1>4
    <3>2. CASE n \in (d + 1)..m
      <4>1. PICK k \in DOMAIN s : s[k].from = w /\ s[k].n = n
        BY <3>2 DEF Numbered
      <4> QED BY <4>1, <1>1
    <3> QED BY <2>2, <3>1, <3>2
  <2>7. \A j, k \in DOMAIN more :
          more[j].from = w /\ more[k].from = w /\ j < k => more[j].n < more[k].n
    BY <1>1, <1>4, <2>1, <2>3 DEF Numbered
  <2>8. Numbered(more, w, d, m + 1)
    BY <2>4, <2>5, <2>6, <2>7 DEF Numbered
  <2> QED BY <2>8, <1>4 DEF more
<1> QED BY <1>3, <1>4 DEF more

\* The first line is taken: it is that of its writer that comes next.
LEMMA NumberedTail ==
  ASSUME NEW e \in Item, NEW q \in Seq(Item), NEW w, NEW d \in Nat, NEW m \in Nat,
         Numbered(<<e>> \o q, w, d, m)
  PROVE  /\ e.from # w => Numbered(q, w, d, m)
         /\ e.from = w => Numbered(q, w, d + 1, m)
<1> DEFINE s == <<e>> \o q
<1>1. /\ DOMAIN q = 1..Len(q) /\ Len(q) \in Nat
      /\ s[1] = e /\ DOMAIN s = 1..(Len(q) + 1)
      /\ \A k \in 1..Len(q) : s[k + 1] = q[k] /\ q[k] \in Item
  <2>1. <<e>> \in Seq(Item) /\ Len(<<e>>) = 1 /\ <<e>>[1] = e
    OBVIOUS
  <2>2. /\ s \in Seq(Item) /\ Len(s) = 1 + Len(q)
        /\ \A i \in 1..(1 + Len(q)) : s[i] = IF i <= 1 THEN <<e>>[i] ELSE q[i - 1]
    BY <2>1, ConcatProperties
  <2>3. Len(q) \in Nat /\ DOMAIN q = 1..Len(q) /\ \A k \in 1..Len(q) : q[k] \in Item
    OBVIOUS
  <2> HIDE DEF s
  <2>4. s[1] = e
    BY <2>1, <2>2, <2>3
  <2>5. ASSUME NEW k \in 1..Len(q) PROVE s[k + 1] = q[k]
    <3>1. PICK i \in Nat : i = k + 1
      OBVIOUS
    <3>2. i \in 1..(1 + Len(q)) /\ ~(i <= 1) /\ i - 1 = k
      BY <2>3, <3>1
    <3> QED BY <2>2, <3>1, <3>2
  <2>6. DOMAIN s = 1..(Len(q) + 1)
    BY <2>2, <2>3
  <2> QED BY <2>3, <2>4, <2>5, <2>6 DEF s
<1>2. Numbered(s, w, d, m)
  OBVIOUS
<1> HIDE DEF s
<1>3. /\ \A k \in DOMAIN s : k = 1 \/ \E i \in DOMAIN q : k = i + 1
      /\ \A i \in DOMAIN q : i + 1 \in DOMAIN s /\ 1 < i + 1
      /\ \A i, j \in DOMAIN q : i < j => i + 1 < j + 1
      /\ 1 \in DOMAIN s
  <2>1. ASSUME NEW k \in DOMAIN s, k # 1 PROVE \E i \in DOMAIN q : k = i + 1
    <3>1. k - 1 \in 1..Len(q) /\ k = (k - 1) + 1
      BY <1>1, <2>1
    <3> QED BY <3>1, <1>1
  <2>2. \A i \in 1..Len(q) : i + 1 \in 1..(Len(q) + 1) /\ 1 < i + 1
    BY <1>1
  <2>3. \A i, j \in 1..Len(q) : i < j => i + 1 < j + 1
    BY <1>1
  <2>4. 1 \in 1..(Len(q) + 1)
    BY <1>1
  <2> QED BY <1>1, <2>1, <2>2, <2>3, <2>4
<1>4. \A i \in DOMAIN q : s[i + 1] = q[i] /\ q[i].n \in Nat
  BY <1>1 DEF Item
<1>5. \A j, k \in DOMAIN q : q[j].from = w /\ q[k].from = w /\ j < k => q[j].n < q[k].n
  BY <1>2, <1>3, <1>4 DEF Numbered
<1>6. CASE e.from # w
  <2>1. \A k \in DOMAIN q : q[k].from = w => q[k].n \in (d + 1)..m
    BY <1>2, <1>3, <1>4 DEF Numbered
  <2>2. \A n \in (d + 1)..m : \E k \in DOMAIN q : q[k].from = w /\ q[k].n = n
    <3> SUFFICES ASSUME NEW n \in (d + 1)..m
                 PROVE  \E k \in DOMAIN q : q[k].from = w /\ q[k].n = n
      OBVIOUS
    <3>1. PICK k \in DOMAIN s : s[k].from = w /\ s[k].n = n
      BY <1>2 DEF Numbered
    <3>2. k # 1
      BY <3>1, <1>1, <1>6
    <3> QED BY <3>1, <3>2, <1>3, <1>4
  <2> QED BY <2>1, <2>2, <1>2, <1>5, <1>6 DEF Numbered
<1>7. CASE e.from = w
  <2>1. e.n \in (d + 1)..m /\ e.n \in Nat
    BY <1>1, <1>2, <1>3, <1>7 DEF Numbered, Item
  <2>2. ASSUME NEW k \in DOMAIN q, q[k].from = w PROVE e.n < q[k].n /\ q[k].n \in (d + 1)..m
    <3>1. 1 \in DOMAIN s /\ k + 1 \in DOMAIN s /\ 1 < k + 1 /\ s[1] = e /\ s[k + 1] = q[k]
      BY <1>1, <1>3, <1>4
    <3>2. s[1].n < s[k + 1].n /\ s[k + 1].n \in (d + 1)..m
      BY <3>1, <1>2, <1>7, <2>2 DEF Numbered
    <3> QED BY <3>1, <3>2
  <2>3. d + 1 \in (d + 1)..m
    BY <2>1
  <2>4. e.n = d + 1
    <3>1. PICK k \in DOMAIN s : s[k].from = w /\ s[k].n = d + 1
      BY <1>2, <2>3 DEF Numbered
    <3>2. CASE k = 1
      BY <3>1, <3>2, <1>1
    <3>3. CASE \E i \in DOMAIN q : k = i + 1
      <4>1. PICK i \in DOMAIN q : k = i + 1
        BY <3>3
      <4>2. e.n < d + 1
        BY <4>1, <3>1, <1>4, <2>2
      <4> QED BY <4>2, <2>1
    <3> QED BY <3>2, <3>3, <1>3
  <2>5. \A k \in DOMAIN q : q[k].from = w => q[k].n \in (d + 1 + 1)..m
    <3> SUFFICES ASSUME NEW k \in DOMAIN q, q[k].from = w PROVE q[k].n \in (d + 1 + 1)..m
      OBVIOUS
    <3>1. q[k].n \in Nat /\ d + 1 < q[k].n /\ q[k].n <= m
      BY <2>2, <2>4, <1>4
    <3> QED BY <3>1
  <2>6. \A n \in (d + 1 + 1)..m : \E k \in DOMAIN q : q[k].from = w /\ q[k].n = n
    <3> SUFFICES ASSUME NEW n \in (d + 1 + 1)..m
                 PROVE  \E k \in DOMAIN q : q[k].from = w /\ q[k].n = n
      OBVIOUS
    <3>1. n \in (d + 1)..m /\ n # d + 1
      OBVIOUS
    <3>2. PICK k \in DOMAIN s : s[k].from = w /\ s[k].n = n
      BY <3>1, <1>2 DEF Numbered
    <3>3. k # 1
      BY <3>1, <3>2, <2>4, <1>1
    <3> QED BY <3>2, <3>3, <1>3, <1>4
  <2>7. d + 1 <= m
    BY <2>3
  <2> QED BY <2>5, <2>6, <2>7, <1>5, <1>7 DEF Numbered
<1> QED BY <1>6, <1>7

\* What is undone is what the helper has in hand and the queue.
LEMMA UndoneFacts ==
  ASSUME Types
  PROVE  /\ Undone \in Seq(Item) /\ DOMAIN Undone = 1..Len(Undone) /\ Len(Undone) \in Nat
         /\ helper.pc \in {"notify"} \cup WithLine =>
              /\ Undone = <<helper.item>> \o queue
              /\ Len(Undone) = Len(queue) + 1 /\ Undone[1] = helper.item
              /\ \A k \in 1..Len(queue) : Undone[k + 1] = queue[k]
         /\ helper.pc \notin {"notify"} \cup WithLine => Undone = queue
<1>1. queue \in Seq(Item) /\ helper.item \in Item /\ Len(queue) \in Nat
  BY DEF Types
<1>2. <<helper.item>> \in Seq(Item) /\ Len(<<helper.item>>) = 1 /\ <<helper.item>>[1] = helper.item
  BY <1>1
<1>3. CASE helper.pc \in {"notify"} \cup WithLine
  <2>1. Undone = <<helper.item>> \o queue
    BY <1>3 DEF Undone, InHand, WithLine
  <2>2. /\ Undone \in Seq(Item) /\ Len(Undone) = 1 + Len(queue)
        /\ \A i \in 1..(1 + Len(queue)) :
             Undone[i] = IF i <= 1 THEN <<helper.item>>[i] ELSE queue[i - 1]
    BY <1>1, <1>2, <2>1, ConcatProperties
  <2>3. ASSUME NEW k \in 1..Len(queue) PROVE Undone[k + 1] = queue[k]
    <3>1. PICK i \in Nat : i = k + 1
      OBVIOUS
    <3>2. i \in 1..(1 + Len(queue)) /\ ~(i <= 1) /\ i - 1 = k
      BY <1>1, <3>1
    <3> QED BY <2>2, <3>1, <3>2
  <2>4. Undone[1] = helper.item /\ Len(Undone) = Len(queue) + 1
    BY <1>1, <1>2, <2>2
  <2>5. DOMAIN Undone = 1..Len(Undone) /\ Len(Undone) \in Nat
    BY <2>2
  <2> QED BY <1>3, <2>1, <2>2, <2>3, <2>4, <2>5
<1>4. CASE helper.pc \notin {"notify"} \cup WithLine
  <2>1. Undone = << >> \o queue
    BY <1>4 DEF Undone, InHand, WithLine
  <2>2. Undone = queue
    BY <1>1, <2>1, ConcatEmptySeq
  <2> QED BY <1>1, <1>4, <2>2
<1> QED BY <1>3, <1>4

LEMMA InitLines == Init => LinesInv
<1> SUFFICES ASSUME Init PROVE LinesInv
  OBVIOUS
<1>1. Types
  BY ThreadFacts, AsyncLogAssumption DEF Init, Types, CallerPCs, HelperPCs
<1>2. Undone = << >>
  BY <1>1, UndoneFacts DEF Init, WithLine
<1>3. AllNumbered
  <2> SUFFICES ASSUME NEW w \in Writers PROVE Numbered(<< >>, w, 0, 0)
    BY <1>2, ThreadFacts DEF Init, AllNumbered
  <2>1. \A n \in (0 + 1)..0 : FALSE
    OBVIOUS
  <2> QED BY <2>1 DEF Numbered
<1>4. LastOfAll
  BY <1>2, ThreadFacts DEF Init, LastOfAll, CallerAt, WithLine
<1> QED BY <1>1, <1>3, <1>4 DEF LinesInv

\* The helper stays where it is, or is told to look for a line once more.
HelperWaits ==
  \/ helper' = helper
  \/ helper.pc = "wait" /\ helper' = [helper EXCEPT !.pc = "dequeue"]

LEMMA HelperStays ==
  ASSUME Types, HelperWaits, queue' = queue
  PROVE  /\ Undone' = Undone /\ helper' \in [pc: HelperPCs, item: Item]
         /\ helper'.pc = helper.pc \/ (helper.pc = "wait" /\ helper'.pc = "dequeue")
         /\ helper'.item = helper.item
<1>1. CASE helper' = helper
  BY <1>1 DEF Undone, InHand, Types
<1>2. CASE helper.pc = "wait" /\ helper' = [helper EXCEPT !.pc = "dequeue"]
  <2>1. helper'.pc = "dequeue" /\ helper'.item = helper.item
        /\ helper' \in [pc: HelperPCs, item: Item]
    BY <1>2 DEF Types, HelperPCs
  <2>2. Undone' = Undone
    BY <1>2, <2>1 DEF Undone, InHand
  <2> QED BY <1>2, <2>1, <2>2
<1> QED BY <1>1, <1>2 DEF HelperWaits

\* A thread goes to pc.
Moves(t, pc) == caller' = [caller EXCEPT ![t].pc = pc]
Goes(t, pc, left) == caller' = [caller EXCEPT ![t] = [pc |-> pc, left |-> left]]

\* A step that moves a thread, and no line.
LEMMA LinesSame ==
  ASSUME LinesInv, HelperWaits, UNCHANGED <<queue, sent, done>>, NEW t \in Threads,
         NEW pc \in CallerPCs, NEW left \in Nat,
         Goes(t, pc, left),
         t = Main /\ caller[t].pc \in {"notify", "join", "gone"} => pc \in {"notify", "join", "gone"},
         t = Main => pc # "idle" /\ (pc = "gone" => helper.pc = "ended"),
         t = Main => \A w \in Writers : CallerAt(w, "idle"),
         t \in Writers /\ pc # "idle" => CallerAt(Main, "idle")
  PROVE  LinesInv'
<1>1. Types /\ AllNumbered /\ LastOfAll
  BY DEF LinesInv
<1>2. /\ Undone' = Undone /\ helper' \in [pc: HelperPCs, item: Item]
      /\ helper'.pc = helper.pc \/ (helper.pc = "wait" /\ helper'.pc = "dequeue")
      /\ helper'.item = helper.item
  BY <1>1, HelperStays
<1>3. /\ \A u \in Threads : u # t => caller'[u] = caller[u]
      /\ caller'[t].pc = pc
  BY <1>1 DEF Types, Goes
<1>4. Types'
  BY <1>1, <1>2 DEF Types, Goes
<1>5. AllNumbered'
  BY <1>1, <1>2 DEF AllNumbered
<1>6. caller[Main].pc \in {"notify", "join", "gone"} => caller'[Main].pc \in {"notify", "join", "gone"}
  BY <1>3, ThreadFacts
<1>7. CallerAt(Main, "gone")' => helper'.pc = "ended"
  BY <1>1, <1>2, <1>3, ThreadFacts DEF LastOfAll, CallerAt
<1>8. ~CallerAt(Main, "idle")' => \A w \in Writers : CallerAt(w, "idle")'
  BY <1>1, <1>3, ThreadFacts DEF LastOfAll, CallerAt
<1>9. LastOfAll'
  BY <1>1, <1>2, <1>6, <1>7, <1>8 DEF LastOfAll, WithLine
<1> QED BY <1>4, <1>5, <1>9 DEF LinesInv

\* A thread goes on to a place, its other field left alone.
LEMMA CallerMoves ==
  ASSUME Types, NEW t \in Threads, NEW pc \in CallerPCs,
         Moves(t, pc)
  PROVE  \E left \in Nat : Goes(t, pc, left)
<1>1. caller[t] \in [pc: CallerPCs, left: Nat] /\ caller[t].left \in Nat
  BY DEF Types
<1>2. [caller[t] EXCEPT !.pc = pc] = [pc |-> pc, left |-> caller[t].left]
  BY <1>1
<1>3. Goes(t, pc, caller[t].left)
  BY <1>2 DEF Moves, Goes
<1> QED BY <1>1, <1>3

\* The main thread, or a writer, goes on without a line.
LEMMA MainMoves ==
  ASSUME LinesInv, HelperWaits, UNCHANGED <<queue, sent, done>>,
         NEW pc \in CallerPCs \ {"idle"}, Moves(Main, pc),
         caller[Main].pc \in {"notify", "join", "gone"} => pc \in {"notify", "join", "gone"},
         pc = "gone" => helper.pc = "ended",
         \A w \in Writers : CallerAt(w, "idle")
  PROVE  LinesInv'
<1>1. pc \in CallerPCs /\ pc # "idle" /\ Main \in Threads /\ Main \notin Writers
  BY ThreadFacts
<1>2. PICK left \in Nat : Goes(Main, pc, left)
  BY <1>1, CallerMoves DEF LinesInv
<1> QED BY <1>1, <1>2, LinesSame

LEMMA WriterMoves ==
  ASSUME LinesInv, HelperWaits, UNCHANGED <<queue, sent, done>>, NEW t \in Writers,
         NEW pc \in CallerPCs, NEW left \in Nat,
         Goes(t, pc, left),
         pc # "idle" => CallerAt(Main, "idle")
  PROVE  LinesInv'
<1>1. t \in Threads /\ t # Main
  BY ThreadFacts
<1> QED BY <1>1, LinesSame

\* The steps of the threads that put no line into the queue.
LEMMA ThreadsMove ==
  ASSUME LinesInv, UNCHANGED <<queue, sent, done>>,
         Exit \/ Join \/ (\E t \in Threads : WriteLog(t) \/ NotifyHelper(t) \/ Enqueue(t))
  PROVE  LinesInv'
<1>0. /\ {"enqueue", "blocked", "join", "gone"} \subseteq CallerPCs \ {"idle"}
      /\ {"enqueue", "blocked", "idle"} \subseteq CallerPCs
  BY DEF CallerPCs
<1>1. Types /\ LastOfAll
  BY DEF LinesInv
<1>2. CASE Exit
  <2>1. /\ Moves(Main, "enqueue") /\ caller[Main].pc = "idle"
        /\ \A w \in Writers : CallerAt(w, "idle")
    BY <1>2, ThreadFacts DEF Exit, CallerAt, Moves
  <2>2. HelperWaits
    BY <1>2 DEF Exit, HelperWaits
  <2> QED BY <1>0, <2>1, <2>2, MainMoves
<1>3. CASE Join
  <2>1. /\ Moves(Main, "gone") /\ helper.pc = "ended"
        /\ \A w \in Writers : CallerAt(w, "idle")
    BY <1>1, <1>3, ThreadFacts DEF Join, HelperAt, LastOfAll, CallerAt, Moves
  <2>2. HelperWaits
    BY <1>3 DEF Join, HelperWaits
  <2> QED BY <1>0, <2>1, <2>2, MainMoves
<1>4. ASSUME NEW t \in Threads, WriteLog(t) PROVE LinesInv'
  <2>1. t \in Writers /\ CallerAt(Main, "idle") /\ HelperWaits
    BY <1>4 DEF WriteLog, HelperWaits
  <2>2. PICK left \in Nat : Goes(t, "enqueue", left)
    <3>1. caller[t] \in [pc: CallerPCs, left: Nat] /\ caller[t].left > 0
      BY <1>1, <1>4 DEF Types, WriteLog
    <3>2. PICK left \in Nat : left = caller[t].left - 1
      BY <3>1
    <3>3. caller' = [caller EXCEPT ![t].pc = "enqueue", ![t].left = @ - 1]
      BY <1>4 DEF WriteLog
    <3>4. /\ DOMAIN caller' = Threads /\ DOMAIN caller = Threads
          /\ \A u \in Threads : u # t => caller'[u] = caller[u]
          /\ caller'[t] = [pc |-> "enqueue", left |-> left]
      BY <1>1, <3>1, <3>2, <3>3 DEF Types
    <3>5. caller' = [u \in Threads |-> IF u = t THEN [pc |-> "enqueue", left |-> left] ELSE caller[u]]
      BY <1>1, <3>3, <3>4 DEF Types
    <3>6. Goes(t, "enqueue", left)
      BY <1>1, <3>5 DEF Goes, Types
    <3> QED BY <3>2, <3>6
  <2> QED BY <1>0, <2>1, <2>2, WriterMoves
<1>5. ASSUME NEW t \in Threads, NotifyHelper(t) PROVE LinesInv'
  <2>1. HelperWaits /\ caller[t].pc = "notify"
    BY <1>5 DEF NotifyHelper, HelperWaits, HelperAt, CallerAt
  <2>2. CASE t = Main
    <3>1. Moves(Main, "join")
      BY <1>5, <2>2 DEF NotifyHelper, Moves
    <3>2. \A w \in Writers : CallerAt(w, "idle")
      BY <1>1, <2>1, <2>2 DEF LastOfAll, CallerAt
    <3>3. "join" \in CallerPCs \ {"idle"}
      BY <1>0
    <3> QED BY <2>1, <3>1, <3>2, <3>3, MainMoves
  <2>3. CASE t # Main
    <3>1. Moves(t, "idle") /\ t \in Writers
      BY <1>5, <2>3 DEF NotifyHelper, Threads, Moves
    <3>2. PICK left \in Nat : Goes(t, "idle", left)
      BY <1>0, <1>1, <3>1, CallerMoves
    <3> QED BY <2>1, <1>0, <3>1, <3>2, WriterMoves
  <2> QED BY <2>2, <2>3
<1>6. ASSUME NEW t \in Threads, Enqueue(t) PROVE LinesInv'
  <2>1. ~HasRoom(queue)
    <3> SUFFICES ASSUME HasRoom(queue) PROVE FALSE
      OBVIOUS
    <3>1. queue' = Append(queue, NewItem(t)) /\ queue \in Seq(Item) /\ NewItem(t) \in Item
      BY <1>1, <1>6, ThreadFacts DEF Enqueue, Pushed, Types, NewItem, Item
    <3>2. Len(queue') = Len(queue) + 1 /\ Len(queue) \in Nat
      BY <3>1, AppendProperties
    <3> QED BY <3>2
  <2>2. Moves(t, "blocked") /\ caller[t].pc = "enqueue" /\ HelperWaits
    BY <1>6, <2>1 DEF Enqueue, CallerAt, HelperWaits, Moves
  <2>3. CASE t = Main
    <3>1. \A w \in Writers : CallerAt(w, "idle")
      BY <1>1, <2>2, <2>3 DEF LastOfAll, CallerAt
    <3>2. "blocked" \in CallerPCs \ {"idle"} /\ Moves(Main, "blocked")
      BY <1>0, <2>2, <2>3
    <3> QED BY <2>2, <2>3, <3>1, <3>2, MainMoves
  <2>4. CASE t # Main
    <3>1. t \in Writers /\ CallerAt(Main, "idle")
      BY <1>1, <2>2, <2>4 DEF LastOfAll, CallerAt, Threads
    <3>2. PICK left \in Nat : Goes(t, "blocked", left)
      BY <1>0, <1>1, <2>2, CallerMoves
    <3> QED BY <2>2, <1>0, <3>1, <3>2, WriterMoves
  <2> QED BY <2>3, <2>4
<1> QED BY <1>2, <1>3, <1>4, <1>5, <1>6

\* A line, or what terminates the helper, is put into the queue.
LEMMA EnqueuePuts ==
  ASSUME LinesInv, NEW t \in Threads, Enqueue(t), HasRoom(queue)
  PROVE  LinesInv'
<1> DEFINE e == NewItem(t)
<1>1. Types /\ AllNumbered /\ LastOfAll
  BY DEF LinesInv
<1>2. /\ queue' = Append(queue, e) /\ caller[t].pc = "enqueue"
      /\ sent' = [sent EXCEPT ![t] = IF t = Main THEN @ ELSE @ + 1]
      /\ caller' = [caller EXCEPT ![t].pc = "notify"] /\ UNCHANGED <<helper, done>>
  BY DEF Enqueue, Pushed, CallerAt
<1>3. e \in Item /\ (t = Main => e = Terminate) /\ (t # Main => e.from = t /\ e.n = sent[t] + 1)
  BY <1>1, ThreadFacts DEF NewItem, Types, Item
<1> HIDE DEF e
<1>4. /\ \A u \in Threads : u # t => caller'[u] = caller[u] /\ sent'[u] = sent[u]
      /\ caller'[t].pc = "notify"
      /\ t # Main => sent'[t] = sent[t] + 1
  BY <1>1, <1>2 DEF Types
<1>5. Types'
  <2>1. queue' \in Seq(Item)
    BY <1>1, <1>2, <1>3, AppendProperties DEF Types
  <2>2. caller' \in [Threads -> [pc: CallerPCs, left: Nat]]
    BY <1>1, <1>2 DEF Types, CallerPCs
  <2>3. sent' \in [Threads -> Nat]
    BY <1>1, <1>2 DEF Types
  <2> QED BY <1>1, <1>2, <2>1, <2>2, <2>3 DEF Types
<1>6. Undone' = Append(Undone, e)
  <2>1. InHand \in Seq(Item) /\ InHand' = InHand
    BY <1>1, <1>2 DEF InHand, Types
  <2>2. queue' = queue \o <<e>> /\ queue \in Seq(Item) /\ <<e>> \in Seq(Item)
    BY <1>1, <1>2, <1>3, AppendIsConcat DEF Types
  <2>3. Undone' = (InHand \o queue) \o <<e>>
    BY <2>1, <2>2, ConcatAssociative DEF Undone
  <2>4. InHand \o queue \in Seq(Item)
    BY <2>1, <2>2, ConcatProperties
  <2> QED BY <2>3, <2>4, <1>3, AppendIsConcat DEF Undone
<1>7. Undone \in Seq(Item)
  BY <1>1, UndoneFacts
<1>8. AllNumbered'
  <2> SUFFICES ASSUME NEW w \in Writers PROVE Numbered(Undone, w, done[w], sent[w])'
    BY DEF AllNumbered
  <2>1. /\ w \in Threads /\ done[w] \in Nat /\ sent[w] \in Nat
        /\ Numbered(Undone, w, done[w], sent[w])
    BY <1>1, ThreadFacts DEF AllNumbered, Types
  <2>2. CASE w = t
    BY <2>1, <2>2, <1>2, <1>3, <1>4, <1>6, <1>7, NumberedAppend, ThreadFacts
  <2>3. CASE w # t
    <3>1. e.from # w
      BY <2>3, <1>3, ThreadFacts
    <3> QED BY <2>1, <2>3, <3>1, <1>2, <1>3, <1>4, <1>6, <1>7, NumberedAppend
  <2> QED BY <2>2, <2>3
<1>9. LastOfAll'
  <2>1. /\ Len(Undone') = Len(Undone) + 1 /\ Len(Undone) \in Nat
        /\ DOMAIN Undone' = 1..(Len(Undone) + 1) /\ DOMAIN Undone = 1..Len(Undone)
        /\ \A k \in 1..Len(Undone) : Undone'[k] = Undone[k]
        /\ Undone'[Len(Undone) + 1] = e
    BY <1>3, <1>6, <1>7, AppendProperties
  <2>2. caller[Main].pc \notin {"notify", "join", "gone"}
    <3>1. CASE t = Main
      BY <1>2, <3>1
    <3>2. CASE t # Main
      <4>1. t \in Writers /\ ~CallerAt(t, "idle")
        BY <1>2, <3>2 DEF CallerAt, Threads
      <4>2. CallerAt(Main, "idle")
        BY <1>1, <4>1 DEF LastOfAll
      <4> QED BY <4>2 DEF CallerAt
    <3> QED BY <3>1, <3>2
  <2>3. \A k \in DOMAIN Undone : Undone[k].from # Main
    BY <1>1, <2>2 DEF LastOfAll
  <2>4. \A k \in DOMAIN Undone' : k \in DOMAIN Undone \/ k = Len(Undone')
    BY <2>1
  <2>5. \A k \in DOMAIN Undone' : Undone'[k].from = Main => k = Len(Undone') /\ Undone'[k] = e
    BY <2>1, <2>3, <2>4
  <2>6. e.from = Main => e = Terminate /\ t = Main
    BY <1>3
  <2>7. ~CallerAt(Main, "idle")' => \A w \in Writers : CallerAt(w, "idle")'
    BY <1>1, <1>2, <1>4, ThreadFacts DEF LastOfAll, CallerAt
  <2>8. helper'.pc \notin {"terminate", "ended"} /\ ~CallerAt(Main, "gone")'
    BY <1>1, <1>2, <1>4, <2>2, ThreadFacts DEF LastOfAll, CallerAt
  <2>9. helper'.pc \in WithLine => helper'.item.from \in Writers
    BY <1>1, <1>2 DEF LastOfAll
  <2>10. t = Main => caller'[Main].pc = "notify"
    BY <1>4
  <2> QED BY <2>5, <2>6, <2>7, <2>8, <2>9, <2>10 DEF LastOfAll
<1> QED BY <1>5, <1>8, <1>9 DEF LinesInv

\* The helper goes to a place, with the item it has.
LEMMA HelperMoves ==
  ASSUME Types, NEW pc \in HelperPCs, HelperGoto(pc)
  PROVE  helper' \in [pc: HelperPCs, item: Item] /\ helper'.pc = pc /\ helper'.item = helper.item
  BY DEF Types, HelperGoto

\* The threads stay where they are, or one that waits for room goes on.
CallerWoken ==
  \/ caller' = caller
  \/ \E t \in Threads : CallerAt(t, "blocked") /\ Moves(t, "enqueue")

LEMMA CallersStay ==
  ASSUME Types, CallerWoken
  PROVE  /\ caller' \in [Threads -> [pc: CallerPCs, left: Nat]]
         /\ \A t \in Threads :
              \/ caller'[t].pc = caller[t].pc
              \/ caller[t].pc = "blocked" /\ caller'[t].pc = "enqueue"
<1>1. CASE caller' = caller
  BY <1>1 DEF Types
<1>2. ASSUME NEW t \in Threads, caller[t].pc = "blocked", Moves(t, "enqueue")
      PROVE  /\ caller' \in [Threads -> [pc: CallerPCs, left: Nat]]
             /\ \A u \in Threads : u # t => caller'[u] = caller[u]
             /\ caller'[t].pc = "enqueue"
  BY <1>2 DEF Types, Moves, CallerPCs
<1> QED BY <1>1, <1>2 DEF CallerWoken, CallerAt

\* The helper moves, and no line.
LEMMA HelperSame ==
  ASSUME LinesInv, CallerWoken, UNCHANGED <<sent, done>>,
         helper' \in [pc: HelperPCs, item: Item], queue' \in Seq(Item), Undone' = Undone,
         helper'.pc \in WithLine => helper'.item.from \in Writers,
         helper'.pc \in {"terminate", "ended"} =>
           queue' = << >> /\ caller[Main].pc \in {"notify", "join", "gone"},
         helper.pc = "ended" => helper'.pc = "ended"
  PROVE  LinesInv'
<1>1. Types /\ AllNumbered /\ LastOfAll
  BY DEF LinesInv
<1>2. /\ caller' \in [Threads -> [pc: CallerPCs, left: Nat]]
      /\ \A t \in Threads :
           \/ caller'[t].pc = caller[t].pc
           \/ caller[t].pc = "blocked" /\ caller'[t].pc = "enqueue"
  BY <1>1, CallersStay
<1>3. Types'
  BY <1>1, <1>2 DEF Types
<1>4. AllNumbered'
  BY <1>1 DEF AllNumbered
<1>5. ~CallerAt(Main, "idle")' => \A w \in Writers : CallerAt(w, "idle")'
  BY <1>1, <1>2, ThreadFacts DEF LastOfAll, CallerAt
<1>6. caller[Main].pc \in {"notify", "join", "gone"} => caller'[Main].pc = caller[Main].pc
  BY <1>2, ThreadFacts
<1>7. CallerAt(Main, "gone")' => helper'.pc = "ended"
  BY <1>1, <1>2, ThreadFacts DEF LastOfAll, CallerAt
<1>8. LastOfAll'
  BY <1>1, <1>5, <1>6, <1>7 DEF LastOfAll
<1> QED BY <1>3, <1>4, <1>8 DEF LinesInv

\* The helper is done with what it has in hand: a line that is the next of its
\* writer, or what terminates it.
LEMMA HelperDone ==
  ASSUME LinesInv, CallerWoken, UNCHANGED <<queue, sent>>,
         helper.pc \in {"notify"} \cup WithLine, helper' \in [pc: HelperPCs, item: Item],
         \/ helper.item.from \in Writers /\ LineDone /\ helper'.pc = "interval"
         \/ helper.item = Terminate /\ done' = done /\ helper'.pc = "terminate"
  PROVE  LinesInv'
<1>1. Types /\ AllNumbered /\ LastOfAll
  BY DEF LinesInv
<1>2. /\ caller' \in [Threads -> [pc: CallerPCs, left: Nat]]
      /\ \A t \in Threads :
           \/ caller'[t].pc = caller[t].pc
           \/ caller[t].pc = "blocked" /\ caller'[t].pc = "enqueue"
  BY <1>1, CallersStay
<1> DEFINE e == helper.item
<1>3. /\ e \in Item /\ queue \in Seq(Item) /\ Len(queue) \in Nat /\ DOMAIN queue = 1..Len(queue)
      /\ Undone = <<e>> \o queue /\ Len(Undone) = Len(queue) + 1 /\ Undone[1] = e
      /\ DOMAIN Undone = 1..(Len(queue) + 1)
      /\ \A k \in 1..Len(queue) : Undone[k + 1] = queue[k]
  BY <1>1, UndoneFacts DEF Types
<1>4. Types'
  <2>1. done' \in [Threads -> Nat]
    BY <1>1, ThreadFacts DEF LineDone, Types
  <2> QED BY <1>1, <1>2, <2>1 DEF Types
<1>5. Undone' = queue
  <2>1. Undone' = queue'
    <3>1. helper'.pc \notin {"notify"} \cup WithLine
      BY DEF WithLine
    <3> QED BY <1>4, <3>1, ConcatEmptySeq DEF Undone, InHand, WithLine, Types
  <2> QED BY <2>1
<1> HIDE DEF e
<1>6. AllNumbered'
  <2> SUFFICES ASSUME NEW w \in Writers PROVE Numbered(Undone, w, done[w], sent[w])'
    BY DEF AllNumbered
  <2>1. /\ w \in Threads /\ w # Main /\ done[w] \in Nat /\ sent[w] \in Nat
        /\ Numbered(<<e>> \o queue, w, done[w], sent[w])
    BY <1>1, <1>3, ThreadFacts DEF AllNumbered, Types
  <2>2. CASE e.from = w
    <3>1. done' = [done EXCEPT ![w] = @ + 1]
      BY <2>1, <2>2, ThreadFacts DEF LineDone, e
    <3>2. done'[w] = done[w] + 1 /\ sent'[w] = sent[w]
      BY <1>1, <2>1, <3>1 DEF Types
    <3> QED BY <1>3, <1>5, <2>1, <2>2, <3>2, NumberedTail
  <2>3. CASE e.from # w
    <3>1. done'[w] = done[w] /\ sent'[w] = sent[w]
      BY <1>1, <2>1, <2>3 DEF Types, LineDone, e
    <3> QED BY <1>3, <1>5, <2>1, <2>3, <3>1, NumberedTail
  <2> QED BY <2>2, <2>3
<1>7. LastOfAll'
  <2>1. ~CallerAt(Main, "idle")' => \A w \in Writers : CallerAt(w, "idle")'
    BY <1>1, <1>2, ThreadFacts DEF LastOfAll, CallerAt
  <2>2. caller[Main].pc \in {"notify", "join", "gone"} => caller'[Main].pc = caller[Main].pc
    BY <1>2, ThreadFacts
  <2>3. ASSUME NEW k \in DOMAIN Undone', Undone'[k].from = Main
        PROVE  /\ Undone'[k] = Terminate /\ k = Len(Undone')
               /\ caller'[Main].pc \in {"notify", "join", "gone"}
    <3>1. k \in 1..Len(queue) /\ Undone[k + 1].from = Main /\ Undone'[k] = Undone[k + 1]
      BY <1>3, <1>5, <2>3
    <3>2. k + 1 \in DOMAIN Undone
      BY <1>3, <3>1
    <3>3. Undone[k + 1] = Terminate /\ k + 1 = Len(Undone) /\ caller[Main].pc \in {"notify", "join", "gone"}
      BY <1>1, <3>1, <3>2 DEF LastOfAll
    <3>4. k = Len(queue)
      BY <1>3, <3>1, <3>3
    <3> QED BY <1>5, <2>2, <3>1, <3>3, <3>4
  <2>4. helper'.pc \in {"terminate", "ended"} =>
          queue' = << >> /\ caller'[Main].pc \in {"notify", "join", "gone"}
    <3> SUFFICES ASSUME helper'.pc \in {"terminate", "ended"}
                 PROVE  queue = << >> /\ caller'[Main].pc \in {"notify", "join", "gone"}
      OBVIOUS
    <3>1. Undone[1] = Terminate /\ 1 \in DOMAIN Undone
      BY <1>3 DEF e
    <3>2. 1 = Len(Undone) /\ caller[Main].pc \in {"notify", "join", "gone"}
      BY <1>1, <3>1, ThreadFacts DEF LastOfAll
    <3>3. Len(queue) = 0
      BY <1>3, <3>2
    <3>4. queue = << >>
      BY <1>3, <3>3
    <3> QED BY <2>2, <3>2, <3>4
  <2>5. ~CallerAt(Main, "gone")'
    <3>1. helper.pc # "ended"
      BY DEF WithLine
    <3> QED BY <1>1, <1>2, <3>1, ThreadFacts DEF LastOfAll, CallerAt
  <2>6. helper'.pc \notin WithLine
    BY DEF WithLine
  <2> QED BY <2>1, <2>3, <2>4, <2>5, <2>6 DEF LastOfAll
<1> QED BY <1>4, <1>6, <1>7 DEF LinesInv

\* The helper takes what is first in the queue.
LEMMA TakesSame ==
  ASSUME LinesInv, helper.pc \in {"dequeue", "wait"}, queue # << >>, Takes
  PROVE  /\ helper' \in [pc: HelperPCs, item: Item] /\ queue' \in Seq(Item)
         /\ Undone' = Undone /\ helper'.pc = "notify"
<1>1. queue \in Seq(Item) /\ helper \in [pc: HelperPCs, item: Item] /\ Types
  BY DEF LinesInv, Types
<1>2. /\ Head(queue) \in Item /\ Tail(queue) \in Seq(Item)
      /\ queue = <<Head(queue)>> \o Tail(queue)
  <2>1. /\ Len(queue) \in Nat \ {0} /\ Head(queue) = queue[1] /\ Head(queue) \in Item
        /\ Tail(queue) \in Seq(Item) /\ Tail(queue) = SubSeq(queue, 2, Len(queue))
    BY <1>1, HeadTailProperties, TailIsSubSeq
  <2>2. 1 \in 1..Len(queue) /\ Len(queue) \in 1..Len(queue)
    BY <2>1
  <2>3. SubSeq(queue, 1, Len(queue)) = <<queue[1]>> \o SubSeq(queue, 1 + 1, Len(queue))
    BY <1>1, <2>2, SubSeqRecursiveFirst
  <2>4. SubSeq(queue, 1, Len(queue)) = queue
    BY <1>1, SubSeqFull
  <2> QED BY <2>1, <2>3, <2>4
<1>3. Undone = queue
  BY <1>1, UndoneFacts DEF WithLine
<1>4. helper' = [pc |-> "notify", item |-> Head(queue)] /\ queue' = Tail(queue)
  BY DEF Takes
<1>5. Undone' = <<Head(queue)>> \o Tail(queue)
  BY <1>4 DEF Undone, InHand
<1> QED BY <1>2, <1>3, <1>4, <1>5 DEF HelperPCs

LEMMA HelperKeepsLines == ASSUME LinesInv, HelperStep PROVE LinesInv'
<1>1. /\ Types /\ LastOfAll /\ helper \in [pc: HelperPCs, item: Item]
      /\ queue \in Seq(Item)
  BY DEF LinesInv, Types
<1>2. ASSUME NEW pc \in HelperPCs, HelperGoto(pc), CallerWoken, UNCHANGED <<queue, sent, done>>,
             pc \in {"notify"} \cup WithLine <=> helper.pc \in {"notify"} \cup WithLine,
             pc \in WithLine => helper.item.from \in Writers,
             pc \in {"terminate", "ended"} => helper.pc = "terminate", helper.pc # "ended"
      PROVE  LinesInv'
  <2>1. helper' \in [pc: HelperPCs, item: Item] /\ helper'.pc = pc /\ helper'.item = helper.item
    BY <1>1, <1>2, HelperMoves
  <2>2. InHand' = InHand
    BY <1>2, <2>1 DEF InHand, WithLine
  <2>3. Undone' = Undone
    BY <1>2, <2>2 DEF Undone
  <2>4. helper'.pc \in {"terminate", "ended"} =>
          queue' = << >> /\ caller[Main].pc \in {"notify", "join", "gone"}
    BY <1>1, <1>2, <2>1 DEF LastOfAll
  <2>5. queue' \in Seq(Item)
    BY <1>1, <1>2
  <2> QED BY <1>2, <2>1, <2>3, <2>4, <2>5, HelperSame
<1>3. ASSUME helper.pc \in {"dequeue", "wait"}, queue # << >>, Takes, UNCHANGED <<caller, sent, done>>
      PROVE  LinesInv'
  <2>1. /\ helper' \in [pc: HelperPCs, item: Item] /\ queue' \in Seq(Item)
        /\ Undone' = Undone /\ helper'.pc = "notify"
    BY <1>3, TakesSame
  <2>2. CallerWoken
    BY <1>3 DEF CallerWoken
  <2>3. helper'.pc \notin WithLine /\ helper'.pc \notin {"terminate", "ended"} /\ helper.pc # "ended"
    BY <1>3, <2>1 DEF WithLine
  <2> QED BY <1>3, <2>1, <2>2, <2>3, HelperSame
<1>4. CASE Dequeue
  <2>1. CASE queue # << >>
    BY <1>4, <2>1, <1>3 DEF Dequeue, HelperAt
  <2>2. CASE queue = << >>
    <3>1. HelperGoto("wait") /\ CallerWoken /\ UNCHANGED <<queue, sent, done>> /\ helper.pc = "dequeue"
      BY <1>4, <2>2 DEF Dequeue, CallerWoken, HelperAt
    <3> QED BY <3>1, <1>2 DEF HelperPCs, WithLine
  <2> QED BY <2>1, <2>2
<1>5. CASE TimesOut
  <2>1. CASE queue # << >>
    BY <1>5, <2>1, <1>3 DEF TimesOut, HelperAt
  <2>2. CASE queue = << >>
    <3>1. HelperGoto("interval") /\ CallerWoken /\ UNCHANGED <<queue, sent, done>> /\ helper.pc = "wait"
      BY <1>5, <2>2 DEF TimesOut, CallerWoken, HelperAt
    <3> QED BY <3>1, <1>2 DEF HelperPCs, WithLine
  <2> QED BY <2>1, <2>2
<1>6. CASE NotifyCaller
  <2>1. /\ HelperGoto(Dispatched) /\ CallerWoken /\ UNCHANGED <<queue, sent, done>>
        /\ helper.pc = "notify"
    <3>1. caller' = caller \/ \E t \in Threads : CallerAt(t, "blocked") /\ Moves(t, "enqueue")
      BY <1>6 DEF NotifyCaller, Moves
    <3> QED BY <1>6, <3>1 DEF NotifyCaller, CallerWoken, HelperAt
  <2>2. Undone[1] = helper.item /\ 1 \in DOMAIN Undone /\ helper.item \in Item
    <3>1. Len(queue) \in Nat /\ helper.item \in Item
      BY <1>1
    <3> QED BY <1>1, <2>1, <3>1, UndoneFacts
  <2>3. CASE helper.item = Terminate
    <3>1. Dispatched = "terminate"
      BY <2>3 DEF Dispatched
    <3>2. /\ helper' \in [pc: HelperPCs, item: Item] /\ helper'.pc = "terminate"
      BY <1>1, <2>1, <3>1, HelperMoves DEF HelperPCs
    <3> QED BY <2>1, <2>3, <3>2, HelperDone
  <2>4. CASE helper.item # Terminate
    <3>1. HelperGoto("sink")
      BY <2>1, <2>4 DEF Dispatched
    <3>2. helper.item.from \in Writers
      BY <1>1, <2>2, <2>4 DEF LastOfAll, Item, Threads
    <3> QED BY <2>1, <3>1, <3>2, <1>2 DEF HelperPCs, WithLine
  <2> QED BY <2>3, <2>4
<1>7. CASE Sink \/ Open \/ Rotate
  <2>1. PICK pc \in {"open", "write", "rotate"} : HelperGoto(pc)
    BY <1>7 DEF Sink, Open, Rotate
  <2>2. /\ helper.pc \in WithLine /\ CallerWoken /\ UNCHANGED <<queue, sent, done>>
    BY <1>7 DEF Sink, Open, Rotate, WithLine, CallerWoken, HelperAt
  <2>3. pc \in HelperPCs /\ pc \in WithLine /\ pc \notin {"terminate", "ended"} /\ helper.pc # "ended"
    BY <2>1, <2>2 DEF HelperPCs, WithLine
  <2>4. helper.item.from \in Writers
    BY <1>1, <2>2 DEF LastOfAll
  <2> QED BY <1>2, <2>1, <2>2, <2>3, <2>4
<1>8. CASE OpenFails \/ Write
  <2>1. /\ helper.pc \in WithLine /\ CallerWoken /\ UNCHANGED <<queue, sent>> /\ LineDone
        /\ HelperGoto("interval")
    BY <1>8 DEF OpenFails, Write, WithLine, CallerWoken, HelperAt
  <2>2. helper.item.from \in Writers
    BY <1>1, <2>1 DEF LastOfAll
  <2>3. "interval" \in HelperPCs
    BY DEF HelperPCs
  <2>4. helper' \in [pc: HelperPCs, item: Item] /\ helper'.pc = "interval"
    BY <1>1, <2>1, <2>3, HelperMoves
  <2> QED BY <2>1, <2>2, <2>4, HelperDone
<1>9. CASE HandleFlushInterval
  <2>1. HelperGoto("dequeue") /\ CallerWoken /\ UNCHANGED <<queue, sent, done>> /\ helper.pc = "interval"
    BY <1>9 DEF HandleFlushInterval, CallerWoken, HelperAt
  <2> QED BY <2>1, <1>2 DEF HelperPCs, WithLine
<1>10. CASE EndHelper
  <2>1. HelperGoto("ended") /\ CallerWoken /\ UNCHANGED <<queue, sent, done>> /\ helper.pc = "terminate"
    BY <1>10 DEF EndHelper, CallerWoken, HelperAt
  <2> QED BY <2>1, <1>2 DEF HelperPCs, WithLine
<1> QED BY <1>4, <1>5, <1>6, <1>7, <1>8, <1>9, <1>10 DEF HelperStep

LEMMA NextLines == LinesInv /\ [Next]_vars => LinesInv'
<1> SUFFICES ASSUME LinesInv, [Next]_vars PROVE LinesInv'
  OBVIOUS
<1>1. CASE UNCHANGED <<caller, helper, queue, sent, done>>
  BY <1>1 DEF LinesInv, Types, AllNumbered, LastOfAll, Undone, InHand, CallerAt
<1>2. CASE UNCHANGED vars \/ FlushDue \/ Midnight \/ Gone
  BY <1>1, <1>2 DEF vars, FlushDue, Midnight, Gone
<1>3. CASE Exit \/ Join
  <2>1. UNCHANGED <<queue, sent, done>>
    BY <1>3 DEF Exit, Join
  <2> QED BY <1>3, <2>1, ThreadsMove
<1>4. ASSUME NEW t \in Threads, WriteLog(t) \/ NotifyHelper(t) PROVE LinesInv'
  <2>1. UNCHANGED <<queue, sent, done>>
    BY <1>4 DEF WriteLog, NotifyHelper
  <2> QED BY <1>4, <2>1, ThreadsMove
<1>5. ASSUME NEW t \in Threads, Enqueue(t) PROVE LinesInv'
  <2>1. CASE HasRoom(queue)
    BY <1>5, <2>1, EnqueuePuts
  <2>2. CASE ~HasRoom(queue)
    <3>1. UNCHANGED <<queue, sent, done>>
      BY <1>5, <2>2 DEF Enqueue
    <3> QED BY <1>5, <3>1, ThreadsMove
  <2> QED BY <2>1, <2>2
<1> QED BY <1>2, <1>3, <1>4, <1>5, HelperKeepsLines DEF Next, CallerStep

\* Every line that was queued is handed to the sink once and in the order of its
\* writer, and none is left when the logger is gone.
THEOREM NothingLost == Spec => []Lossless
<1>1. LinesInv => Lossless
  <2> SUFFICES ASSUME LinesInv, NEW w \in Writers
               PROVE  /\ {Undone[k].n : k \in LinesOf(w)} = (done[w] + 1)..sent[w]
                      /\ \A j, k \in LinesOf(w) : j < k => Undone[j].n < Undone[k].n
                      /\ CallerAt(Main, "gone") => LinesOf(w) = {}
    BY DEF Lossless
  <2>1. Numbered(Undone, w, done[w], sent[w]) /\ Types /\ LastOfAll
    BY DEF LinesInv, AllNumbered
  <2>2. {Undone[k].n : k \in LinesOf(w)} = (done[w] + 1)..sent[w]
    BY <2>1 DEF Numbered, LinesOf
  <2>3. \A j, k \in LinesOf(w) : j < k => Undone[j].n < Undone[k].n
    BY <2>1 DEF Numbered, LinesOf
  <2>4. CallerAt(Main, "gone") => LinesOf(w) = {}
    <3> SUFFICES ASSUME CallerAt(Main, "gone") PROVE LinesOf(w) = {}
      OBVIOUS
    <3>1. helper.pc = "ended" /\ queue = << >>
      BY <2>1 DEF LastOfAll
    <3>2. Undone = << >>
      BY <2>1, <3>1, UndoneFacts DEF WithLine
    <3> QED BY <3>2 DEF LinesOf
  <2> QED BY <2>2, <2>3, <2>4
<1> QED BY <1>1, InitLines, NextLines, PTL DEF Spec

=============================================================================
