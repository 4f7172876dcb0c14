------------------------------ MODULE AsyncLog ------------------------------
(***************************************************************************)
(* LogManager over spdlog: WriteLog hands a line to the logger of the      *)
(* daily file, which has a bounded queue and a helper thread that writes   *)
(* what it dequeues.  A thread of the server that finds the queue full     *)
(* waits.  At exit the main thread destroys the logger.  (The console's    *)
(* logger, a queue and a helper of its own, is the same with less to do.)  *)
(*                                                                         *)
(* A step is a critical section of mpmc_bounded_queue, a notification, or  *)
(* one access of the helper to its sink.  A line is its writer and its     *)
(* number.  Time is what the code compares: the day, and whether a flush   *)
(* is due.  The clock is never set back.                                   *)
(***************************************************************************)
EXTENDS Naturals, Sequences

CONSTANTS
  Writers,    \* the threads of the server that write
  QueueSize,  \* LOG_LENGTH
  MaxLines,   \* lines a thread writes at most
  MaxDay      \* midnights the model sees, at most

Main == "main"
Threads == Writers \cup {Main}

ASSUME AsyncLogAssumption ==
  /\ Main \notin Writers
  /\ QueueSize \in Nat \ {0}
  /\ MaxLines \in Nat /\ MaxDay \in Nat

VARIABLES
  caller,    \* where a thread is in WriteLog, or Main in the destructors
  helper,    \* where the helper thread is, and the item it dequeued
  queue,     \* q_
  sent,      \* lines each thread has put into the queue
  done,      \* lines of each thread the helper is done with
  dirty,     \* whether the sink holds what was not flushed
  due,       \* whether _flush_interval_ms has passed since _last_flush
  day,       \* today
  rotation,  \* _rotation_tp
  fd         \* whether _fd is a file, not null

vars == <<caller, helper, queue, sent, done, dirty, due, day, rotation, fd>>
file == <<day, rotation, fd>>

Terminate == [from |-> Main, n |-> 0]

----------------------------------------------------------------------------
\* The daily file is opened when its logger is created.
Init ==
  /\ caller = [t \in Threads |-> [pc |-> "idle", left |-> MaxLines]]
  /\ helper = [pc |-> "dequeue", item |-> Terminate]
  /\ queue = <<>>
  /\ sent = [t \in Threads |-> 0]
  /\ done = [t \in Threads |-> 0]
  /\ dirty = FALSE
  /\ due = FALSE
  /\ day = 0 /\ rotation = 1 /\ fd = TRUE

CallerAt(t, pc) == caller[t].pc = pc
HelperAt(pc) == helper.pc = pc
HelperGoto(pc) == helper' = [helper EXCEPT !.pc = pc]

----------------------------------------------------------------------------
(* Threads of the server.                                                  *)

\* WriteLog; the file's logger takes every level the server uses.
WriteLog(t) ==
  /\ t \in Writers /\ CallerAt(t, "idle") /\ caller[t].left > 0
  /\ CallerAt(Main, "idle")
  /\ caller' = [caller EXCEPT ![t].pc = "enqueue", ![t].left = @ - 1]
  /\ UNCHANGED <<helper, queue, sent, done, dirty, due, file>>

\* The other threads have ended: the main thread destroys the logger.
Exit ==
  /\ \A t \in Threads : CallerAt(t, "idle")
  /\ caller' = [caller EXCEPT ![Main].pc = "enqueue"]
  /\ UNCHANGED <<helper, queue, sent, done, dirty, due, file>>

NewItem(t) == IF t = Main THEN Terminate
              ELSE [from |-> t, n |-> sent[t] + 1]

\* Mutant: what terminates the helper goes first.
PushedFirst(q, item) == IF item = Terminate THEN <<item>> \o q ELSE Append(q, item)
Pushed(q, item) == Append(q, item)

HasRoom(q) == Len(q) < QueueSize

\* The critical section of enqueue: the item is pushed, or the thread waits.
Enqueue(t) ==
  /\ CallerAt(t, "enqueue")
  /\ IF HasRoom(queue)
     THEN /\ queue' = Pushed(queue, NewItem(t))
          /\ sent' = [sent EXCEPT ![t] = IF t = Main THEN @ ELSE @ + 1]
          /\ caller' = [caller EXCEPT ![t].pc = "notify"]
     ELSE /\ caller' = [caller EXCEPT ![t].pc = "blocked"]
          /\ UNCHANGED <<queue, sent>>
  /\ UNCHANGED <<helper, done, dirty, due, file>>

\* push_cv_.notify_one(): the helper wakes up, if it waits.
NotifyHelper(t) ==
  /\ CallerAt(t, "notify")
  /\ helper' = IF HelperAt("wait") THEN [helper EXCEPT !.pc = "dequeue"]
               ELSE helper
  /\ caller' = [caller EXCEPT ![t].pc = IF t = Main THEN "join" ELSE "idle"]
  /\ UNCHANGED <<queue, sent, done, dirty, due, file>>

\* The helper has ended.
Join ==
  /\ CallerAt(Main, "join") /\ HelperAt("ended")
  /\ caller' = [caller EXCEPT ![Main].pc = "gone"]
  /\ UNCHANGED <<helper, queue, sent, done, dirty, due, file>>

----------------------------------------------------------------------------
(* The helper thread.                                                      *)

\* The front of the queue is moved out.
Takes ==
  /\ queue' = Tail(queue)
  /\ helper' = [pc |-> "notify", item |-> Head(queue)]

\* The critical section of dequeue_for: an item is taken, or the helper waits.
Dequeue ==
  /\ HelperAt("dequeue")
  /\ IF queue # <<>> THEN Takes ELSE HelperGoto("wait") /\ queue' = queue
  /\ UNCHANGED <<caller, sent, done, dirty, due, file>>

\* Mutant: a helper that waited in vain does not look at the flush interval.
TimesOutInVain ==
  /\ HelperAt("wait")
  /\ IF queue # <<>> THEN Takes ELSE HelperGoto("dequeue") /\ queue' = queue
  /\ UNCHANGED <<caller, sent, done, dirty, due, file>>

\* wait_for tests once more when two seconds have passed.
TimesOut ==
  /\ HelperAt("wait")
  /\ IF queue # <<>> THEN Takes ELSE HelperGoto("interval") /\ queue' = queue
  /\ UNCHANGED <<caller, sent, done, dirty, due, file>>

\* What the helper does with the item it took.
Dispatched == IF helper.item = Terminate THEN "terminate" ELSE "sink"

\* Mutant: no waiting thread is told that there is room.
NotifiesNobody ==
  /\ HelperAt("notify")
  /\ HelperGoto(Dispatched)
  /\ UNCHANGED <<caller, queue, sent, done, dirty, due, file>>

\* pop_cv_.notify_one(): one of the threads that wait for room wakes up.
NotifyCaller ==
  LET blocked == {t \in Threads : CallerAt(t, "blocked")} IN
  /\ HelperAt("notify")
  /\ HelperGoto(Dispatched)
  /\ IF blocked = {} THEN caller' = caller
     ELSE \E t \in blocked : caller' = [caller EXCEPT ![t].pc = "enqueue"]
  /\ UNCHANGED <<queue, sent, done, dirty, due, file>>

\* daily_file_sink tests whether its file is that of a past day.
Sink ==
  /\ HelperAt("sink")
  /\ HelperGoto(IF day >= rotation THEN "open" ELSE "write")
  /\ UNCHANGED <<caller, queue, sent, done, dirty, due, file>>

LineDone == done' = [done EXCEPT ![helper.item.from] = @ + 1]

\* file_helper::open closes what is open and opens the file of today.
Open ==
  /\ HelperAt("open")
  /\ fd' = TRUE
  /\ dirty' = FALSE
  /\ HelperGoto("rotate")
  /\ UNCHANGED <<caller, queue, sent, done, due, day, rotation>>

\* Mutant: the time of the next rotation is set before the file is opened.
OpenFailsRotated ==
  /\ HelperAt("open")
  /\ fd' = FALSE
  /\ rotation' = day + 1
  /\ dirty' = FALSE
  /\ LineDone
  /\ HelperGoto("interval")
  /\ UNCHANGED <<caller, queue, sent, due, day>>

\* After five tries it throws: the helper drops the line and goes on.
OpenFails ==
  /\ HelperAt("open")
  /\ fd' = FALSE
  /\ dirty' = FALSE
  /\ LineDone
  /\ HelperGoto("interval")
  /\ UNCHANGED <<caller, queue, sent, due, day, rotation>>

Rotate ==
  /\ HelperAt("rotate")
  /\ rotation' = day + 1
  /\ HelperGoto("write")
  /\ UNCHANGED <<caller, queue, sent, done, dirty, due, day, fd>>

\* The line is written, or fwrite fails and it is dropped.
Write ==
  /\ HelperAt("write")
  /\ dirty' \in {dirty, TRUE}
  /\ LineDone
  /\ HelperGoto("interval")
  /\ UNCHANGED <<caller, queue, sent, due, file>>

\* flush_sinks.
Flush ==
  /\ dirty' = FALSE
  /\ due' = FALSE

HandleFlushInterval ==
  /\ HelperAt("interval")
  /\ HelperGoto("dequeue")
  /\ IF due THEN Flush ELSE UNCHANGED <<dirty, due>>
  /\ UNCHANGED <<caller, queue, sent, done, file>>

EndHelper ==
  /\ HelperAt("terminate")
  /\ HelperGoto("ended")
  /\ Flush
  /\ UNCHANGED <<caller, queue, sent, done, file>>

----------------------------------------------------------------------------
(* Time.                                                                   *)

FlushDue ==
  /\ ~due /\ ~HelperAt("ended")
  /\ due' = TRUE
  /\ UNCHANGED <<caller, helper, queue, sent, done, dirty, file>>

Midnight ==
  /\ day < MaxDay
  /\ day' = day + 1
  /\ UNCHANGED <<caller, helper, queue, sent, done, dirty, due, rotation, fd>>

Gone == CallerAt(Main, "gone") /\ UNCHANGED vars

----------------------------------------------------------------------------
CallerStep(t) == Enqueue(t) \/ NotifyHelper(t)

HelperStep == \/ Dequeue \/ TimesOut \/ NotifyCaller
              \/ Sink \/ Open \/ OpenFails \/ Rotate \/ Write
              \/ HandleFlushInterval \/ EndHelper

Next ==
  \/ \E t \in Threads : WriteLog(t) \/ CallerStep(t)
  \/ HelperStep \/ FlushDue \/ Exit \/ Join \/ Midnight \/ Gone

\* Threads run, time passes; nobody has to write, and no midnight to come.
Fairness ==
  /\ \A t \in Threads : WF_vars(CallerStep(t))
  /\ WF_vars(HelperStep) /\ WF_vars(FlushDue) /\ WF_vars(Join)

Spec == Init /\ [][Next]_vars /\ Fairness

----------------------------------------------------------------------------
(* Properties.                                                             *)

InHand == IF helper.pc \in {"notify", "sink", "open", "rotate", "write"}
          THEN <<helper.item>> ELSE <<>>

\* What was put into the queue and the helper is not done with.
Undone == InHand \o queue
LinesOf(w) == {k \in DOMAIN Undone : Undone[k].from = w}

\* What a thread wrote reaches the sink once and in the order it was written,
\* however often the thread had to wait for room, and whatever the lines of
\* other threads and failed rotations do; when the process ends nothing is
\* left behind what terminates the helper.
Lossless ==
  \A w \in Writers :
    /\ {Undone[k].n : k \in LinesOf(w)} = (done[w] + 1)..sent[w]
    /\ \A j, k \in LinesOf(w) : j < k => Undone[j].n < Undone[k].n
    /\ CallerAt(Main, "gone") => LinesOf(w) = {}

\* fwrite is never called without a file, however many rotations failed: until
\* one succeeds the next line tries again.
NeverNull == HelperAt("write") => fd

\* A thread that writes a line returns, also from a full queue, and the main
\* thread gets through the destructor once it began.
Returns ==
  /\ \A w \in Writers : ~CallerAt(w, "idle") ~> CallerAt(w, "idle")
  /\ ~CallerAt(Main, "idle") ~> CallerAt(Main, "gone")

\* What was written is flushed, whether or not more lines come.
Flushed == dirty ~> ~dirty

============================================================================
