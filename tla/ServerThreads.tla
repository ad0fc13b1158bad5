--------------------------- MODULE ServerThreads ---------------------------
(***************************************************************************)
(* The life of the server threads: main.cc hands each connected Server to  *)
(* a std::jthread, enters the thread in the global ServerThreadSet and     *)
(* waits in WaitAll; every thread moves its Server into a Manager, logs    *)
(* in, runs WorkerRun and finally erases itself from the set               *)
(* (ThreadCleanupSelf).  Three things cross thread boundaries and are      *)
(* modelled together: the thread set with its condition variable, the      *)
(* ownership of the socket and of the epoll descriptor along the chain of  *)
(* C++ moves, and the process-wide signal counter sig_id.                  *)
(*                                                                         *)
(* main.cc launches one thread; the set is written for several, and the    *)
(* module is about any number of them.  A critical section under           *)
(* thread_set_mtx is one action.                                           *)
(***************************************************************************)
EXTENDS Integers, FiniteSets

CONSTANTS
  Threads,   \* one element per LaunchServerThread call
  SIGRTMIN,  \* first real-time signal, the initial value of sig_id
  SIGRTMAX   \* value of sig_id at which SetupSignalDelivery gives up

ASSUME ThreadsAssumption == Threads # {}
ASSUME SigAssumption ==
  SIGRTMIN \in Int /\ SIGRTMAX \in Int /\ SIGRTMIN < SIGRTMAX

\* The C++ objects of type Server (the last two inside a Manager) a thread's
\* connection passes through: main's optional, the argument copied into the
\* jthread, the lambda's Manager m, and the parameter of WorkerRun.
Objects  == {"server_opt", "arg", "m", "worker"}
Managers == {"m", "worker"}

VARIABLES
  main,        \* where the main thread is
  cur,         \* the thread main has just constructed
  thread_set,  \* keys of ServerThreadSet::thread_set
  pc,          \* where each server thread is
  fd,          \* per thread, the Server objects whose fd member is valid
  epfd,        \* per thread, the Manager objects whose epoll fd is valid
  connected,   \* per thread, the Server objects whose state left kSetup
  closes,      \* per thread, how often its socket has been closed
  epcloses,    \* per thread, how often its epoll descriptor has been closed
  sig_id,      \* the static atomic of Manager.cc
  cur_sig_id,  \* the local of SetupSignalDelivery in each thread
  crash        \* why the process died, "none" while it lives

ownership == <<fd, epfd, connected, closes, epcloses>>
signals   == <<sig_id, cur_sig_id>>
vars == <<main, cur, thread_set, pc, ownership, signals, crash>>

MainPC == {"launch", "insert", "wait", "sleep", "returned", "exited"}
ThreadPC == {"unborn", "start", "login", "joined", "sig_load", "sig_cas",
             "loop", "teardown", "drop_worker", "drop_m", "cleanup",
             "detached", "gone"}
Crashes == {"none", "terminate", "assert_find", "assert_move"}

Alive == crash = "none" /\ main # "exited"

At(t, here, there) ==
  /\ Alive
  /\ pc[t] = here
  /\ pc' = [pc EXCEPT ![t] = there]

-----------------------------------------------------------------------------
(* Ownership of the two descriptors                                        *)

\* Mutant: IRC's move constructor copies fd instead of exchanging it for -1.
MovedCopy(owners, src, dst) ==
  IF src \in owners THEN owners \cup {dst} ELSE owners

\* A move hands the descriptor over and leaves -1 behind (std::exchange in
\* IRC, the explicit assignment in EpollManager).
Moved(owners, src, dst) ==
  IF src \in owners THEN (owners \ {src}) \cup {dst} ELSE owners

\* Move constructor of Server: the assertion that the source is still in
\* kSetup, then the transfer.  The new object starts in kSetup.
MoveServer(t, src, dst) ==
  /\ fd' = [fd EXCEPT ![t] = Moved(@, src, dst)]
  /\ crash' = IF src \in connected[t] THEN "assert_move" ELSE crash

\* Destructor: ~Server sends QUIT and ~IRC closes when fd is valid; a
\* moved-from object does nothing.
DestroyServer(t, o) ==
  /\ closes' = [closes EXCEPT ![t] = IF o \in fd[t] THEN @ + 1 ELSE @]
  /\ fd' = [fd EXCEPT ![t] = @ \ {o}]

\* Members first, then the EpollManager base.
DestroyManager(t, o) ==
  /\ DestroyServer(t, o)
  /\ epcloses' = [epcloses EXCEPT ![t] = IF o \in epfd[t] THEN @ + 1 ELSE @]
  /\ epfd' = [epfd EXCEPT ![t] = @ \ {o}]

-----------------------------------------------------------------------------
(* The main thread                                                         *)

\* std::jthread(...) in LaunchServerThread: the Server is moved into the new
\* thread's state and the thread runs from here on.
LaunchServerThread(t) ==
  /\ Alive
  /\ main = "launch"
  /\ pc[t] = "unborn"
  /\ pc' = [pc EXCEPT ![t] = "start"]
  /\ MoveServer(t, "server_opt", "arg")
  /\ cur' = t
  /\ main' = "insert"
  /\ UNCHANGED <<thread_set, epfd, connected, closes, epcloses, signals>>

\* The insertion comes only after the thread was started.
InsertNewThread ==
  /\ Alive
  /\ main = "insert"
  /\ thread_set' = thread_set \cup {cur}
  /\ main' = IF \E t \in Threads : pc[t] = "unborn" THEN "launch" ELSE "wait"
  /\ UNCHANGED <<cur, pc, ownership, signals, crash>>

\* Mutant: main does not look at the predicate when it is woken.
WaitAllOnce ==
  /\ Alive
  /\ main = "wait"
  /\ main' \in {"sleep", "returned"}
  /\ UNCHANGED <<cur, thread_set, pc, ownership, signals, crash>>

\* The predicate of thread_set_cv.wait, evaluated under the mutex.
WaitAll ==
  /\ Alive
  /\ main = "wait"
  /\ main' = IF thread_set = {} THEN "returned" ELSE "sleep"
  /\ UNCHANGED <<cur, thread_set, pc, ownership, signals, crash>>

\* A condition variable may wake its waiter without a notification.
SpuriousWakeup ==
  /\ Alive
  /\ main = "sleep"
  /\ main' = "wait"
  /\ UNCHANGED <<cur, thread_set, pc, ownership, signals, crash>>

\* main returns: its optional<Server> objects are destroyed and the process
\* ends with whatever detached threads are left.
MainReturn ==
  /\ Alive
  /\ main = "returned"
  /\ main' = "exited"
  /\ closes' = [t \in Threads |->
                  IF "server_opt" \in fd[t] THEN closes[t] + 1 ELSE closes[t]]
  /\ fd' = [t \in Threads |-> fd[t] \ {"server_opt"}]
  /\ UNCHANGED <<cur, thread_set, pc, epfd, connected, epcloses, signals, crash>>

-----------------------------------------------------------------------------
(* A server thread                                                         *)

\* Manager::CreateNew in the lambda.  Without an epoll descriptor it throws,
\* nobody catches in the thread, and std::terminate ends the process.
CreateNew(t) ==
  /\ \/ /\ At(t, "start", "login")
        /\ MoveServer(t, "arg", "m")
        /\ epfd' = [epfd EXCEPT ![t] = @ \cup {"m"}]
     \/ /\ At(t, "start", "start")
        /\ crash' = "terminate"
        /\ UNCHANGED <<fd, epfd>>
  /\ UNCHANGED <<main, cur, thread_set, connected, closes, epcloses, signals>>

\* Mutant: a login that succeeds records the new server state at once.
LoginSetsState(t) ==
  /\ \/ /\ At(t, "login", "joined")
        /\ connected' = [connected EXCEPT ![t] = @ \cup {"m"}]
     \/ At(t, "login", "drop_m") /\ UNCHANGED connected
  /\ UNCHANGED <<main, cur, thread_set, fd, epfd, closes, epcloses, signals, crash>>

\* IRC::Login; a send that fails makes the lambda return.
Login(t) ==
  /\ At(t, "login", "joined") \/ At(t, "login", "drop_m")
  /\ UNCHANGED <<main, cur, thread_set, ownership, signals, crash>>

\* The lambda joins its channel and passes the Manager to WorkerRun, whose
\* first statement is SetState(kConnected) on the new object.
WorkerRun(t) ==
  /\ At(t, "joined", "sig_load")
  /\ MoveServer(t, "m", "worker")
  /\ epfd' = [epfd EXCEPT ![t] = Moved(@, "m", "worker")]
  /\ connected' = [connected EXCEPT ![t] = @ \cup {"worker"}]
  /\ UNCHANGED <<main, cur, thread_set, closes, epcloses, signals>>

\* Mutant: the test for exhaustion compares with the wrong end of the range.
SignalLoadUnbounded(t) ==
  /\ At(t, "sig_load", IF sig_id < SIGRTMIN THEN "loop" ELSE "sig_cas")
  /\ cur_sig_id' = [cur_sig_id EXCEPT ![t] = sig_id]
  /\ UNCHANGED <<main, cur, thread_set, ownership, sig_id, crash>>

\* SetupSignalDelivery, the load and the test for exhaustion.
SignalLoad(t) ==
  /\ At(t, "sig_load", IF sig_id = SIGRTMAX THEN "loop" ELSE "sig_cas")
  /\ cur_sig_id' = [cur_sig_id EXCEPT ![t] = sig_id]
  /\ UNCHANGED <<main, cur, thread_set, ownership, sig_id, crash>>

\* Mutant: a plain store in place of the compare-exchange.
SignalStore(t) ==
  /\ At(t, "sig_cas", "loop")
  /\ sig_id' = cur_sig_id[t] + 1
  /\ UNCHANGED <<main, cur, thread_set, ownership, cur_sig_id, crash>>

\* SetupSignalDelivery, the compare-exchange: claim the id or load again.
SignalCAS(t) ==
  /\ \/ /\ sig_id = cur_sig_id[t]
        /\ At(t, "sig_cas", "loop")
        /\ sig_id' = sig_id + 1
     \/ /\ sig_id # cur_sig_id[t]
        /\ At(t, "sig_cas", "sig_load")
        /\ UNCHANGED sig_id
  /\ UNCHANGED <<main, cur, thread_set, ownership, cur_sig_id, crash>>

\* The event loop stops: a quit message was the last line of a batch, or
\* epoll_wait failed.
LeaveLoop(t) ==
  /\ At(t, "loop", "teardown")
  /\ UNCHANGED <<main, cur, thread_set, ownership, signals, crash>>

\* Mutant: WorkerRun has no Cleanup object, and no id is given back.
TearDownNothing(t) ==
  /\ At(t, "teardown", "drop_worker")
  /\ UNCHANGED <<main, cur, thread_set, ownership, signals, crash>>

\* WorkerRun's local Cleanup object: fetch_sub whether or not the setup
\* claimed an id.
TearDownSignalDelivery(t) ==
  /\ At(t, "teardown", "drop_worker")
  /\ sig_id' = sig_id - 1
  /\ UNCHANGED <<main, cur, thread_set, ownership, cur_sig_id, crash>>

\* The parameter of WorkerRun dies at the end of the call expression.
DropWorker(t) ==
  /\ At(t, "drop_worker", "drop_m")
  /\ DestroyManager(t, "worker")
  /\ UNCHANGED <<main, cur, thread_set, connected, signals, crash>>

\* Mutant: m was declared before the ThreadCleanupSelf object, so it outlives
\* it and is still there when the thread leaves the set.
DropNothing(t) ==
  /\ At(t, "drop_m", "cleanup")
  /\ UNCHANGED <<main, cur, thread_set, ownership, signals, crash>>

\* The lambda's locals die in reverse order: first m ...
DropM(t) ==
  /\ At(t, "drop_m", "cleanup")
  /\ DestroyManager(t, "m")
  /\ UNCHANGED <<main, cur, thread_set, connected, signals, crash>>

\* Mutant: the notification is left out.
NotifyNobody == main

\* thread_set_cv.notify_all when the last entry went.
Notified ==
  IF thread_set' = {} /\ main = "sleep" THEN "wait" ELSE main

\* ... then ThreadCleanupSelf: detach and erase the own entry and notify.
\* Before main's insertion there is no entry: the assertion fails, and with
\* NDEBUG the end iterator is dereferenced.
ThreadCleanupSelf(t) ==
  /\ \/ /\ t \in thread_set
        /\ At(t, "cleanup", "detached")
        /\ thread_set' = thread_set \ {t}
        /\ main' = Notified
        /\ UNCHANGED crash
     \/ /\ t \notin thread_set
        /\ At(t, "cleanup", "cleanup")
        /\ crash' = "assert_find"
        /\ UNCHANGED <<thread_set, main>>
  /\ UNCHANGED <<cur, ownership, signals>>

\* The detached thread frees its state, the moved-from argument included.
DropArg(t) ==
  /\ At(t, "detached", "gone")
  /\ DestroyServer(t, "arg")
  /\ UNCHANGED <<main, cur, thread_set, epfd, connected, epcloses, signals, crash>>

-----------------------------------------------------------------------------
Init ==
  /\ main = "launch"
  /\ cur \in Threads
  /\ thread_set = {}
  /\ pc = [t \in Threads |-> "unborn"]
  /\ fd = [t \in Threads |-> {"server_opt"}]
  /\ epfd = [t \in Threads |-> {}]
  /\ connected = [t \in Threads |-> {}]
  /\ closes = [t \in Threads |-> 0]
  /\ epcloses = [t \in Threads |-> 0]
  /\ sig_id = SIGRTMIN
  /\ cur_sig_id = [t \in Threads |-> SIGRTMIN]
  /\ crash = "none"

MainStep == InsertNewThread \/ WaitAll \/ MainReturn

ThreadStep(t) ==
  \/ CreateNew(t) \/ Login(t) \/ WorkerRun(t)
  \/ SignalLoad(t) \/ SignalCAS(t) \/ TearDownSignalDelivery(t)
  \/ DropWorker(t) \/ DropM(t) \/ ThreadCleanupSelf(t) \/ DropArg(t)

\* The process is over: returned from main, aborted or terminated.
Finished == ~Alive /\ UNCHANGED vars

Next ==
  \/ MainStep
  \/ SpuriousWakeup
  \/ \E t \in Threads : LaunchServerThread(t)
  \/ \E t \in Threads : ThreadStep(t) \/ LeaveLoop(t)
  \/ Finished

\* The operating system keeps scheduling main and every thread.  Nothing
\* obliges the event loop to end or a condition variable to wake spuriously.
Fairness ==
  /\ WF_vars(MainStep)
  /\ WF_vars(\E t \in Threads : LaunchServerThread(t))
  /\ \A t \in Threads : WF_vars(ThreadStep(t))

Spec == Init /\ [][Next]_vars /\ Fairness

-----------------------------------------------------------------------------
(* Properties                                                              *)

\* A value of the counter: it may fall below SIGRTMIN but never pass SIGRTMAX.
SigIds == {i \in Int : i <= SIGRTMAX}

\* Every variable stays in its type; for sig_id that is more than a shape:
\* a test for equality with SIGRTMAX is all that stops the counter.
TypeOK ==
  /\ main \in MainPC
  /\ cur \in Threads
  /\ thread_set \subseteq Threads
  /\ pc \in [Threads -> ThreadPC]
  /\ fd \in [Threads -> SUBSET Objects]
  /\ epfd \in [Threads -> SUBSET Managers]
  /\ connected \in [Threads -> SUBSET Objects]
  /\ closes \in [Threads -> Nat]
  /\ epcloses \in [Threads -> Nat]
  /\ sig_id \in SigIds
  /\ cur_sig_id \in [Threads -> SigIds]
  /\ crash \in Crashes

\* Along the moves optional -> jthread argument -> Manager -> WorkerRun, on
\* every early exit, exactly one object owns the socket until it is closed,
\* and it is closed once; likewise the epoll descriptor once it exists.
DescriptorsOwnedOnce ==
  \A t \in Threads :
    /\ closes[t] + Cardinality(fd[t]) = 1
    /\ epcloses[t] + Cardinality(epfd[t]) <= 1

\* WaitAll returns only when every server thread has destroyed its Manager
\* (QUIT sent, socket and epoll descriptor closed) and left the set, so the
\* process does not exit under a thread that still serves a connection.
WaitAllComplete ==
  main \in {"returned", "exited"} =>
    \A t \in Threads :
      /\ pc[t] \in {"detached", "gone"}
      /\ closes[t] = 1
      /\ epcloses[t] = 1

\* Server's move constructor never meets a server that left kSetup.
MovedOnlyInSetup == crash # "assert_move"

Claimed(t) == cur_sig_id[t] # SIGRTMAX

Serving   == {t \in Threads : pc[t] \in {"loop", "teardown"}}
TornDown  == {t \in Threads : "worker" \in connected[t] /\
                 pc[t] \in {"drop_worker", "drop_m", "cleanup", "detached", "gone"}}

Holders == {t \in Serving : Claimed(t)}
Drifted == {t \in TornDown : ~Claimed(t)}

\* No id leaks and none is lost to a race: the counter is never above SIGRTMIN
\* plus the threads that hold an id, so ids given back are available again,
\* and below that by at most one for every thread that found the ids exhausted
\* and tore down nevertheless.
SigIdAccounting ==
  /\ sig_id <= SIGRTMIN + Cardinality(Holders)
  /\ sig_id >= SIGRTMIN + Cardinality(Holders) - Cardinality(Drifted)

\* As long as no thread has torn down, no two threads got the same signal
\* id, whatever the interleaving of their loads and compare-exchanges.  A
\* teardown gives back the highest id and not the thread's own, so after one
\* the next id may be in use.
SigIdsDistinct ==
  TornDown = {} =>
    \A t, u \in Serving : t # u /\ Claimed(t) => cur_sig_id[t] # cur_sig_id[u]

LeftLoop == {"teardown", "drop_worker", "drop_m", "cleanup", "detached", "gone"}

\* Once every thread has left its event loop or failed to log in, main gets
\* out of WaitAll and the process ends; no wakeup is lost.
MainReturns ==
  (\A t \in Threads : pc[t] \in LeftLoop) ~> ~Alive

\* The state of thread t's connection and of the process, as ServerPool has them.
ConnectionState(t) ==
  CASE pc[t] = "unborn" -> "waiting"
    [] pc[t] # "unborn" /\ closes[t] = 0 -> "serving"
    [] OTHER -> "closed"

ProcessState ==
  CASE crash # "none" -> "died"
    [] crash = "none" /\ main = "exited" -> "exited"
    [] OTHER -> "running"

Pool == INSTANCE ServerPool WITH
  Servers <- Threads,
  state   <- [t \in Threads |-> ConnectionState(t)],
  process <- ProcessState

\* The threads, with their moves, destructors and WaitAll, implement the pool:
\* connections are opened, served and closed once each, the process exits
\* exactly when the last one is closed, and it does exit then unless it dies.
ImplementsPool == Pool!Spec

\* The assertion of ThreadCleanupSelf: a thread finds its own entry.
CleanupFindsSelf == crash # "assert_find"
=============================================================================
