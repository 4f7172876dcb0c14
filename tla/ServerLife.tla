----------------------------- MODULE ServerLife -----------------------------
(***************************************************************************)
(* How the chat server starts and stops: the steps of StartServer, the     *)
(* threads they create, EndServer and the destructors behind it.           *)
(*                                                                         *)
(* The main thread is a program counter over the steps of main(); every    *)
(* step that the code lets fail may fail.  What the worker and the logic   *)
(* threads do with a completion is one step here (Session and ChatServer   *)
(* model it); what counts is on which port a thread waits, which flag it   *)
(* polls, and what it still uses.                                          *)
(***************************************************************************)
EXTENDS Naturals, Sequences, FiniteSets

CONSTANTS
  Workers,    \* the threads m_WorkThreadCount counts
  Logics,     \* the threads POST_MESSAGES_THREADS_COUNT counts
  Infos,      \* what the server's ini file may say
  MaxQueue    \* completions the clients keep queued on a port at most

\* What LoadServerInfo reads, as far as starting and stopping depend on it:
\* whether no count is negative, how many logic threads, whether packets have
\* a size, and whether the performance period is long enough to be measured.
InfoType == [valid: BOOLEAN, logics: SUBSET Logics, sized: BOOLEAN,
             measured: BOOLEAN]

ASSUME ServerLifeAssumption ==
  /\ IsFiniteSet(Workers) /\ Workers # {}
  /\ Infos \subseteq InfoType
  /\ MaxQueue \in Nat

VARIABLES
  main,     \* where the main thread is
  info,     \* the server's information
  runWork,  \* m_IsRunWorkThread
  started,  \* m_IsSuccessStartServer
  port,     \* m_hWorkIOCP and m_hLogicIOCP: INVALID_HANDLE_VALUE, then open
            \* or, when CreateIoCompletionPort failed, NULL; later closed
  queue,    \* the completions queued on each of them
  listen,   \* m_ListenSocket
  wakeups,  \* wake-ups EndServer has yet to post to the workers
  worker,   \* where each worker thread is
  logic,    \* where each logic thread is
  perf,     \* where the thread of Performance is, and m_IsCheckPerformance
  freed     \* the parts of the server already destroyed

vars == <<main, info, runWork, started, port, queue, listen, wakeups, worker,
          logic, perf, freed>>
net == <<port, queue, listen>>
threads == <<worker, logic, perf>>

StartSteps == {"directories", "serverInfo", "listen", "workPort", "logicPort",
               "link", "connections", "performance", "workThreads", "init",
               "logicThreads"}

----------------------------------------------------------------------------
Init ==
  /\ main = "directories"
  /\ info = [valid |-> FALSE, logics |-> {}, sized |-> FALSE, measured |-> FALSE]
  /\ runWork = TRUE
  /\ started = FALSE
  /\ port = [work |-> "invalid", logic |-> "invalid"]
  /\ queue = [work |-> <<>>, logic |-> <<>>]
  /\ listen = "invalid"
  /\ wakeups = 0
  /\ worker = [w \in Workers |-> "absent"]
  /\ logic = [l \in Logics |-> "absent"]
  /\ perf = [at |-> "absent", on |-> FALSE]
  /\ freed = {}

At(step, next) == main = step /\ main' = next

----------------------------------------------------------------------------
(* Starting.  The constructor of ChatServer calls StartServer and then Init; *)
(* whatever fails, Run waits for a key.                                    *)

\* A step of StartServer returns an error: main goes on to Run.
StartFails ==
  /\ main \in {"directories", "serverInfo", "listen", "link"}
  /\ main' = "run"
  /\ listen' \in IF main = "listen" THEN {"invalid", "open"} ELSE {listen}
  /\ UNCHANGED <<info, runWork, started, port, queue, wakeups, threads, freed>>

\* stoi finds no number in the ini file, or no thread can be created: nobody
\* catches the exception.
Throws ==
  /\ main \in {"serverInfo", "performance", "workThreads", "logicThreads"}
  /\ main' = "aborted"
  /\ UNCHANGED <<info, runWork, started, net, wakeups, threads, freed>>

CreateDirectories ==
  /\ At("directories", "serverInfo")
  /\ UNCHANGED <<info, runWork, started, net, wakeups, threads, freed>>

LoadServerInfo ==
  /\ At("serverInfo", "listen")
  /\ info' \in Infos
  /\ UNCHANGED <<runWork, started, net, wakeups, threads, freed>>

CreateListenSocket ==
  /\ At("listen", "workPort")
  /\ listen' = "open"
  /\ UNCHANGED <<info, runWork, started, port, queue, wakeups, threads, freed>>

\* Neither port is INVALID_HANDLE_VALUE after the call, created or not.
CreateWorkPort ==
  /\ At("workPort", "logicPort")
  /\ \E h \in {"open", "null"} : port' = [port EXCEPT !.work = h]
  /\ UNCHANGED <<info, runWork, started, queue, listen, wakeups, threads, freed>>

CreateLogicPort ==
  /\ At("logicPort", "link")
  /\ \E h \in {"open", "null"} : port' = [port EXCEPT !.logic = h]
  /\ UNCHANGED <<info, runWork, started, queue, listen, wakeups, threads, freed>>

\* Linking to a NULL port creates another one, which is not the same.
LinkListenSocketIOCP ==
  /\ At("link", "connections")
  /\ port.work = "open"
  /\ UNCHANGED <<info, runWork, started, net, wakeups, threads, freed>>

CreateConnections ==
  /\ At("connections", "performance")
  /\ UNCHANGED <<info, runWork, started, net, wakeups, threads, freed>>

CreatePerformance ==
  /\ At("performance", "workThreads")
  /\ perf' = IF info.measured THEN [at |-> "asleep", on |-> TRUE] ELSE perf
  /\ UNCHANGED <<info, runWork, started, net, wakeups, worker, logic, freed>>

CreateWorkThread ==
  /\ main = "workThreads"
  /\ \E w \in Workers :
       /\ worker[w] = "absent"
       /\ worker' = [worker EXCEPT ![w] = "loop"]
       /\ main' = IF \A v \in Workers \ {w} : worker[v] # "absent"
                  THEN "init" ELSE main
  /\ UNCHANGED <<info, runWork, started, net, wakeups, logic, perf, freed>>

InitServer ==
  /\ At("init", IF info.valid THEN "logicThreads" ELSE "run")
  /\ started' = info.valid
  /\ UNCHANGED <<info, runWork, net, wakeups, threads, freed>>

\* A logic thread returns at once when packets have no size.
CreateLogicThread ==
  /\ main = "logicThreads"
  /\ \E l \in info.logics :
       /\ logic[l] = "absent"
       /\ logic' = [logic EXCEPT ![l] = IF info.sized THEN "loop" ELSE "ended"]
  /\ UNCHANGED <<main, info, runWork, started, net, wakeups, worker, perf, freed>>

Constructed ==
  /\ At("logicThreads", "run")
  /\ \A l \in info.logics : logic[l] # "absent"
  /\ UNCHANGED <<info, runWork, started, net, wakeups, threads, freed>>

----------------------------------------------------------------------------
(* Running.                                                                *)

\* The operating system completes an operation on a socket.
Completes ==
  /\ port.work = "open" /\ listen = "open"
  /\ main \notin StartSteps \ {"performance", "workThreads", "init", "logicThreads"}
  /\ Len(queue.work) < MaxQueue
  /\ queue' = [queue EXCEPT !.work = Append(@, "io")]
  /\ UNCHANGED <<main, info, runWork, started, port, listen, wakeups, threads, freed>>

WorkerLoop(w) ==
  /\ worker[w] = "loop"
  /\ worker' = [worker EXCEPT ![w] = IF runWork THEN "wait" ELSE "ended"]
  /\ UNCHANGED <<main, info, runWork, started, net, wakeups, logic, perf, freed>>

\* GetQueuedCompletionStatus returns the completion of an operation.
WorkerGets(w) ==
  /\ worker[w] = "wait"
  /\ port.work = "open" /\ queue.work # <<>> /\ Head(queue.work) = "io"
  /\ worker' = [worker EXCEPT ![w] = "handle"]
  /\ queue' = [queue EXCEPT !.work = Tail(@)]
  /\ UNCHANGED <<main, info, runWork, started, port, listen, wakeups, logic, perf, freed>>

\* It returns without an OVERLAPPED: a wake-up, or the port is gone.
WorkerWoken(w) ==
  /\ worker[w] = "wait"
  /\ port.work = "open" => queue.work # <<>> /\ Head(queue.work) = "wakeup"
  /\ worker' = [worker EXCEPT ![w] = "loop"]
  /\ queue' = IF port.work = "open" THEN [queue EXCEPT !.work = Tail(@)] ELSE queue
  /\ UNCHANGED <<main, info, runWork, started, port, listen, wakeups, logic, perf, freed>>

\* PostLogicMsg or not; the post fails without an open port.
MayPost ==
  \/ queue' = queue
  \/ /\ port.logic = "open" /\ Len(queue.logic) < MaxQueue
     /\ queue' = [queue EXCEPT !.logic = Append(@, "message")]

WorkerHandles(w) ==
  /\ worker[w] = "handle"
  /\ worker' = [worker EXCEPT ![w] = "loop"]
  /\ MayPost
  /\ UNCHANGED <<main, info, runWork, started, port, listen, wakeups, logic, perf, freed>>

LogicLoop(l) ==
  /\ logic[l] = "loop"
  /\ logic' = [logic EXCEPT ![l] = IF started THEN "wait" ELSE "ended"]
  /\ UNCHANGED <<main, info, runWork, started, net, wakeups, worker, perf, freed>>

\* A message, or the null connection EndServer posts, which ends the thread.
LogicGets(l) ==
  /\ logic[l] = "wait"
  /\ port.logic = "open" /\ queue.logic # <<>>
  /\ logic' = [logic EXCEPT ![l] = IF Head(queue.logic) = "message"
                                   THEN "handle" ELSE "ended"]
  /\ queue' = [queue EXCEPT !.logic = Tail(@)]
  /\ UNCHANGED <<main, info, runWork, started, port, listen, wakeups, worker, perf, freed>>

\* Mutant: a failure ends the thread like a null connection.
LogicFailsEnds(l) ==
  /\ logic[l] = "wait"
  /\ port.logic # "open"
  /\ logic' = [logic EXCEPT ![l] = "ended"]
  /\ UNCHANGED <<main, info, runWork, started, net, wakeups, worker, perf, freed>>

\* The port was never created, or it was closed under the thread.
LogicFails(l) ==
  /\ logic[l] = "wait"
  /\ port.logic # "open"
  /\ logic' = [logic EXCEPT ![l] = "loop"]
  /\ UNCHANGED <<main, info, runWork, started, net, wakeups, worker, perf, freed>>

\* A handler that has to close a connection posts a message too.
LogicHandles(l) ==
  /\ logic[l] = "handle"
  /\ logic' = [logic EXCEPT ![l] = "loop"]
  /\ MayPost
  /\ UNCHANGED <<main, info, runWork, started, port, listen, wakeups, worker, perf, freed>>

\* The thread of Performance wakes up, logs and sleeps again, or ends.
PerfWakes ==
  /\ perf.at = "asleep"
  /\ perf' = [perf EXCEPT !.at = IF perf.on THEN "log" ELSE "ended"]
  /\ UNCHANGED <<main, info, runWork, started, net, wakeups, worker, logic, freed>>

PerfLogs ==
  /\ perf.at = "log"
  /\ perf' = [perf EXCEPT !.at = "asleep"]
  /\ UNCHANGED <<main, info, runWork, started, net, wakeups, worker, logic, freed>>

----------------------------------------------------------------------------
(* Stopping: ~ChatServer, EndServer first.                                 *)

Quit ==
  /\ At("run", "end")
  /\ UNCHANGED <<info, runWork, started, net, wakeups, threads, freed>>

\* Mutant: one wake-up less than there are workers.
StopWorkersOneLess ==
  /\ At("end", IF port.work # "invalid" THEN "wakeWorkers" ELSE "endLogic")
  /\ runWork' = (port.work = "invalid")
  /\ wakeups' = IF port.work # "invalid" THEN Cardinality(Workers) - 1 ELSE 0
  /\ UNCHANGED <<info, started, net, threads, freed>>

\* EndServer tells the workers to stop, if there is a port to wake them.
StopWorkers ==
  /\ At("end", IF port.work # "invalid" THEN "wakeWorkers" ELSE "endLogic")
  /\ runWork' = (port.work = "invalid")
  /\ wakeups' = IF port.work # "invalid" THEN Cardinality(Workers) ELSE 0
  /\ UNCHANGED <<info, started, net, threads, freed>>

\* One wake-up after the other, as many as there are workers.
WakeWorker ==
  /\ main = "wakeWorkers" /\ wakeups > 0
  /\ wakeups' = wakeups - 1
  /\ queue' = IF port.work = "open" THEN [queue EXCEPT !.work = Append(@, "wakeup")]
              ELSE queue
  /\ UNCHANGED <<main, info, runWork, started, port, listen, threads, freed>>

WorkersWoken ==
  /\ At("wakeWorkers", "joinWorkers")
  /\ wakeups = 0
  /\ UNCHANGED <<info, runWork, started, net, wakeups, threads, freed>>

\* The joins, and CloseHandle.
JoinWorkers ==
  /\ At("joinWorkers", "endLogic")
  /\ \A w \in Workers : worker[w] \in {"absent", "ended"}
  /\ port' = [port EXCEPT !.work = "closed"]
  /\ queue' = [queue EXCEPT !.work = <<>>]
  /\ UNCHANGED <<info, runWork, started, listen, wakeups, threads, freed>>

\* One null connection for however many logic threads there are.
EndLogic ==
  /\ At("endLogic", IF port.logic # "invalid" THEN "closeLogic" ELSE "closeListen")
  /\ queue' = IF port.logic = "open" THEN [queue EXCEPT !.logic = Append(@, "exit")]
              ELSE queue
  /\ UNCHANGED <<info, runWork, started, port, listen, wakeups, threads, freed>>

\* What is still queued is lost.
CloseLogic ==
  /\ At("closeLogic", "closeListen")
  /\ port' = [port EXCEPT !.logic = IF @ = "open" THEN "closed" ELSE @]
  /\ queue' = [queue EXCEPT !.logic = <<>>]
  /\ UNCHANGED <<info, runWork, started, listen, wakeups, threads, freed>>

CloseListen ==
  /\ At("closeListen", IF started THEN "stopLogic" ELSE "freeUsers")
  /\ listen' = "invalid"
  /\ UNCHANGED <<info, runWork, started, port, queue, wakeups, threads, freed>>

\* Mutant: the flag the logic threads poll is left alone.
StopLogicSilently ==
  /\ At("stopLogic", "joinLogic")
  /\ UNCHANGED <<info, runWork, started, net, wakeups, threads, freed>>

StopLogic ==
  /\ At("stopLogic", "joinLogic")
  /\ started' = FALSE
  /\ UNCHANGED <<info, runWork, net, wakeups, threads, freed>>

\* Mutant: the threads are not joined.
JoinNoLogic ==
  /\ At("joinLogic", "freeUsers")
  /\ UNCHANGED <<info, runWork, started, net, wakeups, threads, freed>>

JoinLogic ==
  /\ At("joinLogic", "freeUsers")
  /\ \A l \in Logics : logic[l] \in {"absent", "ended"}
  /\ UNCHANGED <<info, runWork, started, net, wakeups, threads, freed>>

\* The members of ChatServer, in reverse order of their declaration, and then
\* those of IOCPServer.
FreeUsers ==
  /\ At("freeUsers", "stopPerf")
  /\ freed' = freed \cup {"users"}
  /\ UNCHANGED <<info, runWork, started, net, wakeups, threads>>

StopPerf ==
  /\ main = "stopPerf" /\ perf.on
  /\ perf' = [perf EXCEPT !.on = FALSE]
  /\ UNCHANGED <<main, info, runWork, started, net, wakeups, worker, logic, freed>>

JoinPerf ==
  /\ At("stopPerf", "freeNetwork")
  /\ ~perf.on /\ perf.at \in {"absent", "ended"}
  /\ freed' = freed \cup {"performance"}
  /\ UNCHANGED <<info, runWork, started, net, wakeups, threads>>

FreeNetwork ==
  /\ At("freeNetwork", "done")
  /\ freed' = freed \cup {"network"}
  /\ UNCHANGED <<info, runWork, started, net, wakeups, threads>>

\* The process is gone.
Over == main \in {"done", "aborted"} /\ UNCHANGED vars

----------------------------------------------------------------------------
Start == \/ CreateDirectories \/ LoadServerInfo \/ CreateListenSocket
         \/ CreateWorkPort \/ CreateLogicPort \/ LinkListenSocketIOCP
         \/ CreateConnections \/ CreatePerformance \/ CreateWorkThread
         \/ InitServer \/ CreateLogicThread \/ Constructed
         \/ StartFails \/ Throws

Stop == \/ StopWorkers \/ WakeWorker \/ WorkersWoken \/ JoinWorkers
        \/ EndLogic \/ CloseLogic \/ CloseListen \/ StopLogic \/ JoinLogic
        \/ FreeUsers \/ StopPerf \/ JoinPerf \/ FreeNetwork

Alive == main # "aborted"
WorkerStep(w) ==
  Alive /\ (WorkerLoop(w) \/ WorkerGets(w) \/ WorkerWoken(w) \/ WorkerHandles(w))
LogicStep(l) ==
  Alive /\ (LogicLoop(l) \/ LogicGets(l) \/ LogicFails(l) \/ LogicHandles(l))
PerfStep == Alive /\ (PerfWakes \/ PerfLogs)

Next == \/ Start \/ Stop \/ Quit \/ Completes \/ PerfStep \/ Over
        \/ \E w \in Workers : WorkerStep(w)
        \/ \E l \in Logics : LogicStep(l)

\* Every thread of the process runs; nobody has to press a key.
Fairness == /\ WF_vars(Stop)
            /\ \A w \in Workers : WF_vars(WorkerStep(w))
            /\ \A l \in Logics : WF_vars(LogicStep(l))
            /\ WF_vars(PerfStep)

Spec == Init /\ [][Next]_vars /\ Fairness

----------------------------------------------------------------------------
(* Properties.                                                             *)

Waiting == {w \in Workers : worker[w] = "wait"}
Queued(q, kind) == Cardinality({i \in DOMAIN q : q[i] = kind})

\* Once the workers are told to stop, no worker is left waiting without a
\* wake-up for it, queued or still to be posted, whichever of them take the
\* completions queued before.
EnoughWakeups ==
  (main \in {"wakeWorkers", "joinWorkers"} /\ port.work = "open") =>
     Cardinality(Waiting) <= wakeups + Queued(queue.work, "wakeup")

\* The server that says it started keeps all its threads until a key is
\* pressed, the logic threads even when their port was never created; and the
\* workers never lose theirs.
Serving ==
  /\ runWork => \A w \in Workers : worker[w] # "ended"
  /\ (started /\ main = "run") =>
       /\ port.work = "open" /\ listen = "open"
       /\ \A w \in Workers : worker[w] # "absent"
       /\ info.sized => \A l \in info.logics : logic[l] \in {"loop", "wait", "handle"}
  /\ (\E w \in Workers : worker[w] \in {"wait", "handle"}) => port.work = "open"

\* Nothing is destroyed under a thread that may still use it: the tables of
\* the users under the logic threads, the counter and the connections under
\* any thread.
OutlivesThreads ==
  /\ "users" \in freed => \A l \in Logics : logic[l] \in {"absent", "ended"}
  /\ freed # {} => \A w \in Workers : worker[w] \in {"absent", "ended"}
  /\ "performance" \in freed => perf.at \in {"absent", "ended"}

\* However far the start came and whatever is queued, the program ends once a
\* key is pressed: every thread is joined.
Ends == main = "end" ~> main = "done"

============================================================================
