-------------------------- MODULE ServerLifeProofs --------------------------
(***************************************************************************)
(* Proofs about ServerLife for any number of worker and logic threads and  *)
(* any ini file: a server that says it started serves, and nothing is      *)
(* destroyed under a thread; and the wake-ups of EndServer reach every     *)
(* worker that waits.                                                      *)
(***************************************************************************)
EXTENDS ServerLife, TLAPS, FiniteSetTheorems

Gone == {"absent", "ended"}
PCs == {"absent", "loop", "wait", "handle", "ended"}
Handles == {"invalid", "null", "open", "closed"}

BeforeThreads == {"directories", "serverInfo", "listen", "workPort", "logicPort",
                  "link", "connections", "performance"}
Linked == {"connections", "performance", "workThreads", "init", "logicThreads"}
AfterLogic == {"freeUsers", "stopPerf", "freeNetwork", "done"}
AfterWorkers == {"endLogic", "closeLogic", "closeListen", "stopLogic", "joinLogic"}
                  \cup AfterLogic

Typed ==
  /\ info \in InfoType
  /\ runWork \in BOOLEAN /\ started \in BOOLEAN
  /\ port \in [work: Handles, logic: Handles]
  /\ worker \in [Workers -> PCs]
  /\ logic \in [Logics -> PCs]
  /\ perf \in [at: {"absent", "asleep", "log", "ended"}, on: BOOLEAN]

\* What is there, by how far the start came; m_IsSuccessStartServer says that
\* all of it is.
StartSoFar ==
  /\ main \in BeforeThreads => \A w \in Workers : worker[w] = "absent"
  /\ main \in BeforeThreads \cup {"workThreads", "init"} =>
       ~started /\ \A l \in Logics : logic[l] = "absent"
  /\ main \in {"workPort", "logicPort", "link"} => listen = "open"
  /\ main = "logicThreads" => started
  /\ main \in Linked \/ (started /\ main = "run") => port.work = "open" /\ listen = "open"
  /\ main \in {"init", "logicThreads"} \/ (started /\ main = "run") =>
       \A w \in Workers : worker[w] # "absent"
  /\ started /\ main = "run" => \A l \in info.logics : logic[l] # "absent"

\* A worker runs on an open port, and until it is told to stop.
WorkersServe ==
  /\ main \in BeforeThreads \cup Linked \cup {"run", "end"} => runWork
  /\ runWork => \A w \in Workers : worker[w] # "ended"
  /\ port.work # "open" => \A w \in Workers : worker[w] \in Gone
  /\ main \in AfterWorkers => \A w \in Workers : worker[w] \in Gone

\* A null connection is queued only once EndServer posted it.
Queues ==
  /\ queue \in [work: Seq({"io", "wakeup"}), logic: Seq({"message", "exit"})]
  /\ main # "closeLogic" => queue.logic \in Seq({"message"})

\* A logic thread ends for a null connection, or because the server stopped, or
\* at once if packets have no size.
LogicsServe ==
  /\ started /\ info.sized /\ main \in {"logicThreads", "run"} =>
       \A l \in Logics : logic[l] # "ended"
  /\ ~started /\ main # "joinLogic" => \A l \in Logics : logic[l] \in Gone
  /\ main \in {"joinLogic"} \cup AfterLogic => ~started

FreedInOrder ==
  /\ freed # {} => main \in {"stopPerf", "freeNetwork", "done"}
  /\ "performance" \in freed => main \in {"freeNetwork", "done"} /\ perf.at \in Gone

Parts == StartSoFar /\ WorkersServe /\ LogicsServe /\ FreedInOrder
IInv == Typed /\ Queues /\ Parts


\* Before the start there is nothing.
LEMMA InitIInv == Init => IInv
<1> SUFFICES ASSUME Init PROVE IInv
  OBVIOUS
<1>1. Typed
  BY DEF Init, Typed, InfoType, Handles, PCs
<1>2. Queues
  BY DEF Init, Queues
<1>3. Parts
  BY DEF Init, Parts, StartSoFar, WorkersServe, LogicsServe, FreedInOrder, Gone,
         BeforeThreads, Linked, AfterWorkers, AfterLogic
<1> QED BY <1>1, <1>2, <1>3 DEF IInv

\* Queues keep their elements' type.
LEMMA Taken == ASSUME NEW S, NEW s \in Seq(S), s # <<>>
  PROVE Head(s) \in S /\ Tail(s) \in Seq(S)
  OBVIOUS

\* The same of what is added.
LEMMA Appended == ASSUME NEW S, NEW s \in Seq(S), NEW e \in S
  PROVE Append(s, e) \in Seq(S)
  OBVIOUS

\* The steps of the start.
LEMMA StartKeeps ==
  ASSUME IInv, Start
  PROVE  Typed' /\ Parts'
<1> USE ServerLifeAssumption
        DEF IInv, Queues, Parts, Typed, StartSoFar, WorkersServe, LogicsServe,
            FreedInOrder, net, threads, At, InfoType, Handles, PCs, Gone,
            BeforeThreads, Linked, AfterWorkers, AfterLogic
<1>1. CASE CreateDirectories
  BY <1>1 DEF CreateDirectories
<1>2. CASE LoadServerInfo
  BY <1>2 DEF LoadServerInfo
<1>3. CASE CreateListenSocket
  BY <1>3 DEF CreateListenSocket
<1>4. CASE CreateWorkPort
  BY SMTT(30), <1>4 DEF CreateWorkPort
<1>5. CASE CreateLogicPort
  BY SMTT(30), <1>5 DEF CreateLogicPort
<1>6. CASE LinkListenSocketIOCP
  BY <1>6 DEF LinkListenSocketIOCP
<1>7. CASE CreateConnections
  BY <1>7 DEF CreateConnections
<1>8. CASE CreatePerformance
  BY <1>8 DEF CreatePerformance
<1>9. CASE CreateWorkThread
  BY <1>9 DEF CreateWorkThread
<1>10. CASE InitServer
  BY <1>10 DEF InitServer
<1>11. CASE CreateLogicThread
  BY <1>11 DEF CreateLogicThread
<1>12. CASE Constructed
  BY <1>12 DEF Constructed
<1>13. CASE StartFails
  BY <1>13 DEF StartFails
<1>14. CASE Throws
  BY <1>14 DEF Throws
<1> HIDE DEF IInv, Queues, Parts, Typed, StartSoFar, WorkersServe, LogicsServe,
     FreedInOrder
<1> QED
  BY <1>1, <1>2, <1>3, <1>4, <1>5, <1>6, <1>7, <1>8,
     <1>9, <1>10, <1>11, <1>12, <1>13, <1>14 DEF Start

\* The steps of a worker.
LEMMA WorkersKeep ==
  ASSUME IInv, NEW w \in Workers, WorkerStep(w)
  PROVE  Typed' /\ Parts'
<1> USE ServerLifeAssumption
        DEF IInv, Queues, Parts, Typed, StartSoFar, WorkersServe, LogicsServe,
            FreedInOrder, net, threads, At, InfoType, Handles, PCs, Gone,
            BeforeThreads, Linked, AfterWorkers, AfterLogic
<1>1. CASE WorkerLoop(w)
  BY <1>1 DEF WorkerLoop
<1>2. CASE WorkerGets(w)
  BY <1>2 DEF WorkerGets
<1>3. CASE WorkerWoken(w)
  BY <1>3 DEF WorkerWoken
<1>4. CASE WorkerHandles(w)
  BY <1>4 DEF WorkerHandles, MayPost
<1> HIDE DEF IInv, Queues, Parts, Typed, StartSoFar, WorkersServe, LogicsServe,
     FreedInOrder
<1> QED
  BY <1>1, <1>2, <1>3, <1>4 DEF WorkerStep

\* The steps of a logic thread.
LEMMA LogicsKeep ==
  ASSUME IInv, NEW l \in Logics, LogicStep(l)
  PROVE  Typed' /\ Parts'
<1> USE ServerLifeAssumption
        DEF IInv, Queues, Parts, Typed, StartSoFar, WorkersServe, LogicsServe,
            FreedInOrder, net, threads, At, InfoType, Handles, PCs, Gone,
            BeforeThreads, Linked, AfterWorkers, AfterLogic
<1>1. CASE LogicLoop(l)
  BY <1>1 DEF LogicLoop
<1>2. CASE LogicGets(l)
  BY <1>2 DEF LogicGets
<1>3. CASE LogicFails(l)
  BY <1>3 DEF LogicFails
<1>4. CASE LogicHandles(l)
  BY <1>4 DEF LogicHandles, MayPost
<1> HIDE DEF IInv, Queues, Parts, Typed, StartSoFar, WorkersServe, LogicsServe,
     FreedInOrder
<1> QED
  BY <1>1, <1>2, <1>3, <1>4 DEF LogicStep

\* The steps of the end.
LEMMA StopKeeps ==
  ASSUME IInv, Stop
  PROVE  Typed' /\ Parts'
<1> USE ServerLifeAssumption
        DEF IInv, Queues, Parts, Typed, StartSoFar, WorkersServe, LogicsServe,
            FreedInOrder, net, threads, At, InfoType, Handles, PCs, Gone,
            BeforeThreads, Linked, AfterWorkers, AfterLogic
<1>1. CASE StopWorkers
  BY <1>1 DEF StopWorkers
<1>2. CASE WakeWorker
  BY <1>2 DEF WakeWorker
<1>3. CASE WorkersWoken
  BY <1>3 DEF WorkersWoken
<1>4. CASE JoinWorkers
  BY <1>4 DEF JoinWorkers
<1>5. CASE EndLogic
  BY <1>5 DEF EndLogic
<1>6. CASE CloseLogic
  BY <1>6 DEF CloseLogic
<1>7. CASE CloseListen
  BY <1>7 DEF CloseListen
<1>8. CASE StopLogic
  <2>1. Typed'
    BY ZenonT(30), <1>8 DEF StopLogic
  <2>2. StartSoFar'
    BY <1>8 DEF StopLogic
  <2>3. WorkersServe'
    BY <1>8 DEF StopLogic
  <2>4. LogicsServe'
    BY <1>8 DEF StopLogic
  <2>5. FreedInOrder'
    BY <1>8 DEF StopLogic
  <2> QED BY <2>1, <2>2, <2>3, <2>4, <2>5
<1>9. CASE JoinLogic
  BY <1>9 DEF JoinLogic
<1>10. CASE FreeUsers
  BY <1>10 DEF FreeUsers
<1>11. CASE StopPerf
  <2>1. Typed'
    BY <1>11 DEF StopPerf
  <2>2. StartSoFar'
    BY <1>11 DEF StopPerf
  <2>3. WorkersServe'
    BY <1>11 DEF StopPerf
  <2>4. LogicsServe'
    BY <1>11 DEF StopPerf
  <2>5. FreedInOrder'
    BY <1>11 DEF StopPerf
  <2> QED BY <2>1, <2>2, <2>3, <2>4, <2>5
<1>12. CASE JoinPerf
  BY <1>12 DEF JoinPerf
<1>13. CASE FreeNetwork
  BY <1>13 DEF FreeNetwork
<1> HIDE DEF IInv, Queues, Parts, Typed, StartSoFar, WorkersServe, LogicsServe,
     FreedInOrder
<1> QED
  BY <1>1, <1>2, <1>3, <1>4, <1>5, <1>6, <1>7, <1>8,
     <1>9, <1>10, <1>11, <1>12, <1>13 DEF Stop

\* The key, the completions, the thread of Performance.
LEMMA OthersKeep ==
  ASSUME IInv, Quit \/ Completes \/ PerfStep
  PROVE  Typed' /\ Parts'
<1> USE ServerLifeAssumption
        DEF IInv, Queues, Parts, Typed, StartSoFar, WorkersServe, LogicsServe,
            FreedInOrder, net, threads, At, InfoType, Handles, PCs, Gone,
            BeforeThreads, Linked, AfterWorkers, AfterLogic
<1>1. CASE Quit
  BY <1>1 DEF Quit
<1>2. CASE Completes
  BY <1>2 DEF Completes
<1>3. CASE PerfWakes
  BY <1>3 DEF PerfWakes
<1>4. CASE PerfLogs
  BY SMTT(30), <1>4 DEF PerfLogs
<1> HIDE DEF IInv, Queues, Parts, Typed, StartSoFar, WorkersServe, LogicsServe,
     FreedInOrder
<1> QED
  BY <1>1, <1>2, <1>3, <1>4 DEF PerfStep

\* What is queued, by the steps that touch the queues.
LEMMA QueuesKeep == ASSUME IInv, [Next]_vars PROVE Queues'
<1> USE DEF IInv, Queues, Typed, Handles, net, threads, At
<1>1. ASSUME UNCHANGED queue, main' # "closeLogic", main # "closeLogic"
      PROVE  Queues'
  BY <1>1
<1>2. ASSUME UNCHANGED <<queue, main>> PROVE Queues'
  BY <1>2
<1>3. queue.work \in Seq({"io", "wakeup"}) /\ queue.logic \in Seq({"message", "exit"})
  OBVIOUS
<1>4. ASSUME NEW e \in {"io", "wakeup"}, main' = main,
             queue' = [queue EXCEPT !.work = Append(@, e)]
      PROVE  Queues'
  <2>1. Append(queue.work, e) \in Seq({"io", "wakeup"})
    BY <1>3, Appended
  <2> QED BY <1>4, <2>1
<1>5. ASSUME main' = main, queue.work # <<>>, queue' = [queue EXCEPT !.work = Tail(@)]
      PROVE  Queues'
  BY <1>3, <1>5, Taken
<1>6. ASSUME main' = main, MayPost PROVE Queues'
  <2>1. Append(queue.logic, "message") \in Seq({"message", "exit"})
    BY <1>3, Appended
  <2>2. main # "closeLogic" => Append(queue.logic, "message") \in Seq({"message"})
    BY Appended
  <2> QED BY <1>6, <2>1, <2>2 DEF MayPost
<1>7. ASSUME main' = main, queue.logic # <<>>, queue' = [queue EXCEPT !.logic = Tail(@)]
      PROVE  Queues'
  <2>1. Tail(queue.logic) \in Seq({"message", "exit"})
    BY <1>3, <1>7, Taken
  <2>2. main # "closeLogic" => Tail(queue.logic) \in Seq({"message"})
    BY <1>7, Taken
  <2> QED BY <1>7, <2>1, <2>2
<1>8. CASE UNCHANGED vars
  BY <1>2, <1>8 DEF vars
<1>9. CASE Start
  BY <1>1, <1>9 DEF Start, CreateDirectories, LoadServerInfo, CreateListenSocket,
     CreateWorkPort, CreateLogicPort, LinkListenSocketIOCP, CreateConnections,
     CreatePerformance, CreateWorkThread, InitServer, CreateLogicThread, Constructed,
     StartFails, Throws
<1>10. CASE Stop
  <2>1. CASE JoinWorkers
    <3>1. << >> \in Seq({"io", "wakeup"})
      OBVIOUS
    <3> QED BY <2>1, <3>1 DEF JoinWorkers
  <2>2. CASE WakeWorker
    BY <2>2, <1>2, <1>4 DEF WakeWorker
  <2>3. CASE EndLogic
    <3>1. Append(queue.logic, "exit") \in Seq({"message", "exit"})
      BY <1>3, Appended
    <3> QED BY <2>3, <3>1 DEF EndLogic
  <2>4. CASE CloseLogic
    <3>1. << >> \in Seq({"message"}) /\ << >> \in Seq({"message", "exit"})
      OBVIOUS
    <3> QED BY <2>4, <3>1 DEF CloseLogic
  <2>5. CASE StopWorkers \/ WorkersWoken \/ CloseListen \/ StopLogic \/ JoinLogic
             \/ FreeUsers \/ StopPerf \/ JoinPerf \/ FreeNetwork
    BY <2>5, <1>1 DEF StopWorkers, WorkersWoken, CloseListen, StopLogic, JoinLogic,
       FreeUsers, StopPerf, JoinPerf, FreeNetwork
  <2> QED BY <1>10, <2>1, <2>2, <2>3, <2>4, <2>5 DEF Stop
<1>11. CASE Quit \/ PerfStep \/ Over
  BY <1>11, <1>1, <1>2 DEF Quit, PerfStep, PerfWakes, PerfLogs, Over, vars
<1>12. CASE Completes
  BY <1>12, <1>4 DEF Completes
<1>13. ASSUME NEW w \in Workers, WorkerStep(w) PROVE Queues'
  BY <1>13, <1>2, <1>5, <1>6 DEF WorkerStep, WorkerLoop, WorkerGets, WorkerWoken, WorkerHandles
<1>14. ASSUME NEW l \in Logics, LogicStep(l) PROVE Queues'
  BY <1>14, <1>2, <1>6, <1>7 DEF LogicStep, LogicLoop, LogicGets, LogicFails, LogicHandles
<1> QED BY <1>8, <1>9, <1>10, <1>11, <1>12, <1>13, <1>14 DEF Next

\* Every step keeps the invariant.
LEMMA NextIInv == IInv /\ [Next]_vars => IInv'
<1> SUFFICES ASSUME IInv, [Next]_vars PROVE Typed' /\ Parts'
  BY QueuesKeep DEF IInv
<1>1. CASE UNCHANGED vars
  BY <1>1 DEF vars, IInv, Parts, Typed, StartSoFar, WorkersServe, LogicsServe, FreedInOrder
<1>2. CASE Over
  BY <1>1, <1>2 DEF Over
<1> QED BY <1>1, <1>2, StartKeeps, WorkersKeep, LogicsKeep, StopKeeps, OthersKeep DEF Next

LEMMA Invariant == Spec => []IInv
  BY InitIInv, NextIInv, PTL DEF Spec

\* The server that says it started has its port, its socket and its threads
\* until a key is pressed.
THEOREM Serves == Spec => []Serving
<1>1. IInv => Serving
  BY DEF IInv, Typed, Parts, StartSoFar, WorkersServe, LogicsServe, Serving, Gone,
         PCs, InfoType, Linked, BeforeThreads
<1> QED BY <1>1, Invariant, PTL

\* The destructors never take anything from under a thread.
THEOREM NothingFreedEarly == Spec => []OutlivesThreads
<1>1. IInv => OutlivesThreads
  BY DEF IInv, Parts, WorkersServe, LogicsServe, FreedInOrder, OutlivesThreads, Gone,
         AfterWorkers, AfterLogic
<1> QED BY <1>1, Invariant, PTL

----------------------------------------------------------------------------
(* A wake-up for every worker that waits.                                  *)

Telling == {"wakeWorkers", "joinWorkers"}

\* Counting holds from the moment the workers are told to stop: none of them
\* begins to wait, and only those that wait take a wake-up.
Wakeups ==
  /\ wakeups \in Nat
  /\ main \in Telling => ~runWork
  /\ EnoughWakeups

\* There are finitely many workers that wait, at most all of them.
LEMMA WaitingCount == Cardinality(Waiting) \in Nat /\ Cardinality(Waiting) <= Cardinality(Workers)
<1>1. Waiting \subseteq Workers
  BY DEF Waiting
<1> QED BY <1>1, ServerLifeAssumption, FS_Subset, FS_CardinalityType

\* As many elements of a kind as there are in a sequence.
LEMMA QueuedType == ASSUME NEW S, NEW q \in Seq(S), NEW kind
  PROVE /\ IsFiniteSet({i \in DOMAIN q : q[i] = kind})
        /\ Queued(q, kind) \in Nat
<1>1. IsFiniteSet(1..Len(q))
  BY FS_Interval
<1>2. {i \in DOMAIN q : q[i] = kind} \subseteq 1..Len(q)
  OBVIOUS
<1>3. IsFiniteSet({i \in DOMAIN q : q[i] = kind})
  BY <1>1, <1>2, FS_Subset
<1> QED BY <1>3, FS_CardinalityType DEF Queued

\* One more is queued.
LEMMA QueuedAppend == ASSUME NEW S, NEW q \in Seq(S), NEW e \in S, NEW kind
  PROVE Queued(Append(q, e), kind) = Queued(q, kind) + IF e = kind THEN 1 ELSE 0
<1> DEFINE I == {i \in DOMAIN q : q[i] = kind}
           J == {i \in DOMAIN Append(q, e) : Append(q, e)[i] = kind}
           n == Len(q) + 1
<1>1. DOMAIN Append(q, e) = 1..n /\ DOMAIN q = 1..Len(q) /\ Len(q) \in Nat
  OBVIOUS
<1>2. Append(q, e)[n] = e /\ \A i \in 1..Len(q) : Append(q, e)[i] = q[i]
  OBVIOUS
<1>5. /\ IsFiniteSet(I) /\ Cardinality(I) \in Nat
      /\ Queued(q, kind) = Cardinality(I) /\ Queued(Append(q, e), kind) = Cardinality(J)
  BY QueuedType DEF Queued
<1>3. CASE e = kind
  <2>1. J = I \cup {n} /\ n \notin I
    BY <1>1, <1>2, <1>3
  <2>2. Cardinality(J) = Cardinality(I) + 1
    <3> HIDE DEF I, J, n
    <3> QED BY <2>1, <1>5, FS_AddElement
  <2> HIDE DEF I, J
  <2> QED BY <2>2, <1>3, <1>5
<1>4. CASE e # kind
  <2>1. J = I
    BY <1>1, <1>2, <1>4
  <2> HIDE DEF I, J
  <2> QED BY <2>1, <1>4, <1>5
<1> QED BY <1>3, <1>4

\* The first one is taken.
LEMMA QueuedTail == ASSUME NEW S, NEW q \in Seq(S), q # << >>, NEW kind
  PROVE Queued(Tail(q), kind) = Queued(q, kind) - IF Head(q) = kind THEN 1 ELSE 0
<1> DEFINE I == {i \in DOMAIN q : q[i] = kind}
           J == {i \in DOMAIN Tail(q) : Tail(q)[i] = kind}
           shift == [i \in J |-> i + 1]
<1>1. /\ DOMAIN q = 1..Len(q) /\ Len(q) \in Nat /\ Len(q) >= 1
      /\ DOMAIN Tail(q) = 1..(Len(q) - 1)
      /\ \A i \in 1..(Len(q) - 1) : Tail(q)[i] = q[i + 1]
      /\ Head(q) = q[1]
  OBVIOUS
<1>2. ExistsBijection(J, I \ {1})
  <2>1. \A i \in J : i \in Nat /\ i + 1 \in I \ {1}
    BY <1>1
  <2>2. shift \in [J -> I \ {1}]
    BY <2>1
  <2>3. \A i, j \in J : shift[i] = shift[j] => i = j
    BY <2>1
  <2>4. \A k \in I \ {1} : \E i \in J : shift[i] = k
    <3> SUFFICES ASSUME NEW k \in I \ {1} PROVE \E i \in J : shift[i] = k
      OBVIOUS
    <3>1. k - 1 \in J /\ k = (k - 1) + 1
      BY <1>1
    <3> QED BY <3>1
  <2>5. shift \in Bijection(J, I \ {1})
    BY <2>2, <2>3, <2>4 DEF Bijection, Injection, Surjection, IsInjective
  <2> QED BY <2>5 DEF ExistsBijection
<1>3. IsFiniteSet(I) /\ IsFiniteSet(J) /\ Cardinality(I) \in Nat
  <2>1. Tail(q) \in Seq(S)
    BY Taken
  <2> QED BY <2>1, QueuedType DEF Queued
<1>7. Queued(q, kind) = Cardinality(I) /\ Queued(Tail(q), kind) = Cardinality(J)
  BY DEF Queued
<1>4. Cardinality(I \ {1}) = Cardinality(J)
  BY <1>2, <1>3, FS_Bijection
<1>5. CASE Head(q) = kind
  <2>1. 1 \in I
    BY <1>1, <1>5
  <2>2. Cardinality(I \ {1}) = Cardinality(I) - 1
    BY <2>1, <1>3, FS_RemoveElement
  <2> HIDE DEF I, J
  <2> QED BY <2>2, <1>3, <1>4, <1>5, <1>7
<1>6. CASE Head(q) # kind
  <2>1. I \ {1} = I
    BY <1>1, <1>6
  <2> HIDE DEF I, J
  <2> QED BY SMTT(30), <2>1, <1>3, <1>4, <1>6, <1>7
<1> QED BY <1>5, <1>6

\* Nobody waits before the start.
LEMMA InitWakeups == Init => Wakeups
  BY DEF Init, Wakeups, Telling, EnoughWakeups

\* Nothing that is counted changes, or the workers are not being told to stop.
LEMMA SameCount ==
  ASSUME Wakeups, wakeups' \in Nat, main' \in Telling => main \in Telling,
         UNCHANGED <<runWork, wakeups, worker, queue>>, main' \in Telling => UNCHANGED port
  PROVE  Wakeups'
<1>1. Waiting' = Waiting
  BY DEF Waiting
<1>2. main' \in Telling => ~runWork'
  BY DEF Wakeups
<1>3. EnoughWakeups'
  BY <1>1 DEF Wakeups, EnoughWakeups, Telling
<1> QED BY <1>2, <1>3 DEF Wakeups

\* A wake-up that was to be posted is posted.
LEMMA OneMoved ==
  ASSUME NEW c \in Nat, NEW c1, NEW n \in Nat, NEW n1, NEW k \in Nat, NEW k1 \in Nat,
         c1 = c, n1 = n + 1, k1 + 1 = k, c <= k + n
  PROVE  c1 <= k1 + n1
  OBVIOUS

\* The steps that tell the workers to stop.
LEMMA StopWakes == ASSUME IInv, Wakeups, Stop PROVE Wakeups'
<1> USE DEF At, net, threads, Telling
<1>1. Cardinality(Workers) \in Nat
  BY ServerLifeAssumption, FS_CardinalityType
<1>2. /\ queue \in [work: Seq({"io", "wakeup"}), logic: Seq({"message", "exit"})]
      /\ Queued(queue.work, "wakeup") \in Nat
  BY QueuedType DEF IInv, Queues
<1>3. CASE StopWorkers
  <2>1. wakeups' \in Nat
    BY <1>1, <1>3 DEF StopWorkers
  <2>2. main' \in Telling => ~runWork' /\ wakeups' = Cardinality(Workers)
    BY <1>3 DEF StopWorkers
  <2>3. Waiting' = Waiting /\ Queued(queue.work, "wakeup")' = Queued(queue.work, "wakeup")
    BY <1>3 DEF StopWorkers, Waiting
  <2>4. main' \in Telling =>
          Cardinality(Waiting)' <= wakeups' + Queued(queue.work, "wakeup")'
    BY <2>1, <2>2, <2>3, <1>1, <1>2, WaitingCount
  <2> QED BY <2>1, <2>2, <2>4 DEF Wakeups, EnoughWakeups
<1>4. CASE WakeWorker
  <2>1. wakeups \in Nat /\ wakeups' \in Nat /\ wakeups' + 1 = wakeups
    BY <1>4 DEF WakeWorker, Wakeups
  <2>2. Waiting' = Waiting
    BY <1>4 DEF WakeWorker, Waiting
  <2>3. port.work = "open" =>
          Queued(queue.work, "wakeup")' = Queued(queue.work, "wakeup") + 1
    <3>1. ASSUME port.work = "open" PROVE queue'.work = Append(queue.work, "wakeup")
      BY <1>2, <1>4, <3>1 DEF WakeWorker
    <3>2. Queued(Append(queue.work, "wakeup"), "wakeup") = Queued(queue.work, "wakeup") + 1
      BY <1>2, QueuedAppend
    <3> QED BY <3>1, <3>2
  <2>4. port.work = "open" => Cardinality(Waiting) <= wakeups + Queued(queue.work, "wakeup")
    BY <1>4 DEF WakeWorker, Wakeups, EnoughWakeups
  <2>5. port.work = "open" =>
          Cardinality(Waiting)' <= wakeups' + Queued(queue.work, "wakeup")'
    <3> DEFINE n == Queued(queue.work, "wakeup")
               c == Cardinality(Waiting)
    <3> HIDE DEF n, c
    <3>1. c' = c
      BY <2>2 DEF c
    <3>2. c \in Nat /\ n \in Nat
      BY <1>2, WaitingCount DEF n, c
    <3>3. port.work = "open" => n' = n + 1 /\ c <= wakeups + n
      BY <2>3, <2>4 DEF n, c
    <3>4. port.work = "open" => c' <= wakeups' + n'
      BY <2>1, <3>1, <3>2, <3>3, OneMoved
    <3> QED BY <3>4 DEF n, c
  <2> QED BY <2>1, <2>5, <1>4 DEF WakeWorker, Wakeups, EnoughWakeups
<1>5. CASE WorkersWoken
  BY <1>5, SameCount DEF WorkersWoken, Wakeups
<1>6. CASE JoinWorkers \/ EndLogic \/ CloseLogic \/ CloseListen \/ StopLogic \/ JoinLogic
           \/ FreeUsers \/ StopPerf \/ JoinPerf \/ FreeNetwork
  BY <1>6 DEF JoinWorkers, EndLogic, CloseLogic, CloseListen, StopLogic, JoinLogic,
     FreeUsers, StopPerf, JoinPerf, FreeNetwork, Wakeups, EnoughWakeups
<1> QED BY <1>3, <1>4, <1>5, <1>6 DEF Stop

\* The steps of the workers, which nobody makes wait any more.
LEMMA WorkersTakeWakeups ==
  ASSUME IInv, Wakeups, NEW w \in Workers, WorkerStep(w)
  PROVE  Wakeups'
<1>1. /\ queue \in [work: Seq({"io", "wakeup"}), logic: Seq({"message", "exit"})]
      /\ Queued(queue.work, "wakeup") \in Nat
  BY QueuedType DEF IInv, Queues
<1>2. worker \in [Workers -> PCs] /\ IsFiniteSet(Waiting)
  BY ServerLifeAssumption, FS_Subset DEF IInv, Typed, Waiting
<1>3. wakeups' = wakeups /\ wakeups \in Nat /\ main' = main /\ runWork' = runWork /\ port' = port
  BY DEF WorkerStep, WorkerLoop, WorkerGets, WorkerWoken, WorkerHandles, net, Wakeups
<1> SUFFICES ASSUME main \in Telling, port.work = "open", ~runWork,
                    Cardinality(Waiting) <= wakeups + Queued(queue.work, "wakeup")
             PROVE  Cardinality(Waiting)' <= wakeups + Queued(queue.work, "wakeup")'
  BY <1>3 DEF Wakeups, EnoughWakeups, Telling
<1>4. CASE WorkerLoop(w)
  <2>1. Waiting' = Waiting
    BY <1>2, <1>4 DEF WorkerLoop, Waiting
  <2> QED BY <2>1, <1>4 DEF WorkerLoop, net
<1>5. ASSUME worker[w] = "wait", worker' = [worker EXCEPT ![w] = "loop"] \/
             worker' = [worker EXCEPT ![w] = "handle"]
      PROVE  Cardinality(Waiting)' = Cardinality(Waiting) - 1
  <2>1. Waiting' = Waiting \ {w} /\ w \in Waiting
    BY <1>2, <1>5 DEF Waiting
  <2> QED BY <2>1, <1>2, FS_RemoveElement
<1>6. CASE WorkerGets(w)
  <2>1. queue'.work = Tail(queue.work) /\ queue.work # << >> /\ Head(queue.work) = "io"
    BY <1>1, <1>6 DEF WorkerGets
  <2>2. Queued(Tail(queue.work), "wakeup") = Queued(queue.work, "wakeup") - 0
    BY <1>1, <2>1, QueuedTail
  <2>3. Cardinality(Waiting)' = Cardinality(Waiting) - 1
    BY <1>5, <1>6 DEF WorkerGets
  <2> QED BY <2>1, <2>2, <2>3, <1>1, <1>3, WaitingCount
<1>7. CASE WorkerWoken(w)
  <2>1. queue'.work = Tail(queue.work) /\ queue.work # << >> /\ Head(queue.work) = "wakeup"
    BY <1>1, <1>7 DEF WorkerWoken
  <2>2. Queued(Tail(queue.work), "wakeup") = Queued(queue.work, "wakeup") - 1
    BY <1>1, <2>1, QueuedTail
  <2>3. Cardinality(Waiting)' = Cardinality(Waiting) - 1
    BY <1>5, <1>7 DEF WorkerWoken
  <2> QED BY <2>1, <2>2, <2>3, <1>1, <1>3, WaitingCount
<1>8. CASE WorkerHandles(w)
  <2>1. Waiting' = Waiting
    BY <1>2, <1>8 DEF WorkerHandles, Waiting
  <2>2. queue'.work = queue.work
    BY <1>1, <1>8 DEF WorkerHandles, MayPost
  <2> QED BY <2>1, <2>2
<1> QED BY <1>4, <1>6, <1>7, <1>8 DEF WorkerStep

\* The logic threads leave the workers alone.
LEMMA LogicsTakeNone ==
  ASSUME IInv, Wakeups, NEW l \in Logics, LogicStep(l)
  PROVE  Wakeups'
<1>1. queue'.work = queue.work
  BY DEF IInv, Queues, LogicStep, LogicLoop, LogicGets, LogicFails, LogicHandles, MayPost, net
<1>2. UNCHANGED <<main, runWork, port, wakeups, worker>>
  BY DEF LogicStep, LogicLoop, LogicGets, LogicFails, LogicHandles, net
<1> QED BY <1>1, <1>2 DEF Wakeups, EnoughWakeups, Waiting

\* A completion is queued behind the wake-ups.
LEMMA CompletesNoWakeup == ASSUME IInv, Wakeups, Completes PROVE Wakeups'
<1>1. /\ queue \in [work: Seq({"io", "wakeup"}), logic: Seq({"message", "exit"})]
      /\ Queued(queue.work, "wakeup") \in Nat
  BY QueuedType DEF IInv, Queues
<1>2. queue'.work = Append(queue.work, "io")
  BY <1>1 DEF Completes
<1>3. Queued(Append(queue.work, "io"), "wakeup") = Queued(queue.work, "wakeup") + 0
  BY <1>1, QueuedAppend
<1>4. Queued(queue.work, "wakeup")' = Queued(queue.work, "wakeup")
  BY <1>1, <1>2, <1>3
<1> QED BY <1>4 DEF Completes, threads, Wakeups, EnoughWakeups, Waiting

\* Every step keeps the count.
LEMMA NextWakeups == IInv /\ Wakeups /\ [Next]_vars => Wakeups'
<1> SUFFICES ASSUME IInv, Wakeups, [Next]_vars PROVE Wakeups'
  OBVIOUS
<1>1. CASE UNCHANGED vars
  BY <1>1, SameCount DEF vars, Wakeups
<1>2. CASE Over
  BY <1>1, <1>2 DEF Over
<1>3. CASE Start
  <2>1. main' \notin Telling
    BY <1>3 DEF Start, CreateDirectories, LoadServerInfo, CreateListenSocket,
       CreateWorkPort, CreateLogicPort, LinkListenSocketIOCP, CreateConnections,
       CreatePerformance, CreateWorkThread, InitServer, CreateLogicThread, Constructed,
       StartFails, Throws, At, Telling
  <2>2. wakeups' = wakeups
    BY <1>3 DEF Start, CreateDirectories, LoadServerInfo, CreateListenSocket,
       CreateWorkPort, CreateLogicPort, LinkListenSocketIOCP, CreateConnections,
       CreatePerformance, CreateWorkThread, InitServer, CreateLogicThread, Constructed,
       StartFails, Throws
  <2> QED BY <2>1, <2>2 DEF Wakeups, EnoughWakeups, Telling
<1>4. CASE Quit
  BY <1>4 DEF Quit, At, Wakeups, EnoughWakeups, Telling
<1>5. CASE PerfStep
  BY <1>5, SameCount DEF PerfStep, PerfWakes, PerfLogs, net, Wakeups
<1> QED BY <1>1, <1>2, <1>3, <1>4, <1>5, StopWakes, WorkersTakeWakeups, LogicsTakeNone,
           CompletesNoWakeup DEF Next

\* However many completions are queued before the wake-ups, and whichever
\* workers take them, none of the workers is left waiting without one.
THEOREM AllWoken == Spec => []EnoughWakeups
<1>1. Spec => []Wakeups
  BY InitWakeups, NextWakeups, Invariant, PTL DEF Spec
<1>2. Wakeups => EnoughWakeups
  BY DEF Wakeups
<1> QED BY <1>1, <1>2, PTL
=============================================================================
