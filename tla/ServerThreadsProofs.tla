------------------------ MODULE ServerThreadsProofs ------------------------
(***************************************************************************)
(* Proofs about ServerThreads for every set of threads and every signal    *)
(* range: the types, the single ownership of both descriptors and who      *)
(* closes them, the moves in kSetup, that WaitAll returns only after every *)
(* thread is done, what sig_id counts and that the ids differ, and the     *)
(* safety part of the refinement of ServerPool.                            *)
(***************************************************************************)
EXTENDS ServerThreads, FiniteSetTheorems, TLAPS

-----------------------------------------------------------------------------
(* The inductive invariant                                                 *)

\* What thread t's objects hold, as a function of where t is.
Owns(t, socket, epoll, closed, epclosed) ==
  fd[t] = socket /\ epfd[t] = epoll /\ closes[t] = closed /\ epcloses[t] = epclosed

Serves == {"sig_load", "sig_cas", "loop", "teardown", "drop_worker"}
Done   == {"cleanup", "detached", "gone"}

OwnerInv ==
  \A t \in Threads :
    /\ pc[t] = "unborn" => Owns(t, {"server_opt"}, {}, 0, 0)
    /\ pc[t] = "start" => Owns(t, {"arg"}, {}, 0, 0)
    /\ pc[t] \in {"login", "joined"} => Owns(t, {"m"}, {"m"}, 0, 0)
    /\ pc[t] \in Serves => Owns(t, {"worker"}, {"worker"}, 0, 0)
    /\ pc[t] = "drop_m" => \/ Owns(t, {"m"}, {"m"}, 0, 0)
                           \/ Owns(t, {}, {}, 1, 1)
    /\ pc[t] \in Done => Owns(t, {}, {}, 1, 1)

SetupInv ==
  /\ crash # "assert_move"
  /\ \A t \in Threads :
       pc[t] \in {"unborn", "start", "login", "joined"} => connected[t] = {}

\* A thread that runs is in the set, or main is about to insert it.
Running == ThreadPC \ {"unborn", "detached", "gone"}

SetInv ==
  /\ main = "insert" => pc[cur] \in Running /\ cur \notin thread_set
  /\ \A t \in thread_set : pc[t] \in Running
  /\ \A t \in Threads :
       pc[t] \in Running => t \in thread_set \/ (main = "insert" /\ t = cur)
  /\ main \in {"wait", "sleep", "returned", "exited"} =>
       \A t \in Threads : pc[t] # "unborn"
  /\ main \in {"returned", "exited"} => thread_set = {}

\* A thread about to compare-exchange has passed the test for exhaustion.
SigInv ==
  \A t \in Threads : pc[t] = "sig_cas" => cur_sig_id[t] < SIGRTMAX

IInv == TypeOK /\ SigInv /\ OwnerInv /\ SetupInv /\ SetInv

-----------------------------------------------------------------------------
\* Type correctness of every step, with the bound on the signal ids.
LEMMA TypeStep == TypeOK /\ SigInv /\ [Next]_vars => TypeOK' /\ SigInv'
<1> SUFFICES ASSUME TypeOK, SigInv, [Next]_vars PROVE TypeOK' /\ SigInv'
  OBVIOUS
<1> USE SigAssumption DEF TypeOK, SigInv, SigIds, MainPC, ThreadPC, Objects, Managers, Crashes, At,
            Moved, MoveServer, DestroyServer, DestroyManager,
            ownership, signals
<1>1. CASE MainStep
  BY <1>1 DEF MainStep, InsertNewThread, WaitAll, MainReturn
<1>2. CASE SpuriousWakeup
  BY <1>2 DEF SpuriousWakeup
<1>3. ASSUME NEW t \in Threads, LaunchServerThread(t) PROVE TypeOK' /\ SigInv'
  BY <1>3 DEF LaunchServerThread
<1>4. ASSUME NEW t \in Threads, ThreadStep(t) PROVE TypeOK' /\ SigInv'
  <2>1. CASE CreateNew(t)              BY <2>1 DEF CreateNew
  <2>2. CASE Login(t)                  BY <2>2 DEF Login
  <2>3. CASE WorkerRun(t)              BY <2>3 DEF WorkerRun
  <2>4. CASE SignalLoad(t)             BY <2>4 DEF SignalLoad
  <2>5. CASE SignalCAS(t)              BY <2>5 DEF SignalCAS
  <2>6. CASE TearDownSignalDelivery(t) BY <2>6 DEF TearDownSignalDelivery
  <2>7. CASE DropWorker(t)             BY <2>7 DEF DropWorker
  <2>8. CASE DropM(t)                  BY <2>8 DEF DropM
  <2>9. CASE ThreadCleanupSelf(t)      BY <2>9 DEF ThreadCleanupSelf, Notified
  <2>10. CASE DropArg(t)               BY <2>10 DEF DropArg
  <2> QED BY <1>4, <2>1, <2>2, <2>3, <2>4, <2>5, <2>6, <2>7, <2>8, <2>9, <2>10
          DEF ThreadStep
<1>5. ASSUME NEW t \in Threads, LeaveLoop(t) PROVE TypeOK' /\ SigInv'
  BY <1>5 DEF LeaveLoop
<1>6. CASE Finished \/ UNCHANGED vars
  BY <1>6 DEF Finished, vars
<1> QED BY <1>1, <1>2, <1>3, <1>4, <1>5, <1>6 DEF Next

\* Who owns the descriptors after every step.
LEMMA OwnerStep == IInv /\ [Next]_vars => OwnerInv'
<1> SUFFICES ASSUME IInv, [Next]_vars, NEW u \in Threads
             PROVE  OwnerInv!(u)'
  BY DEF OwnerInv
<1> USE DEF IInv, TypeOK, OwnerInv, SetupInv, Owns, Serves, Done, At, Moved,
            MoveServer, DestroyServer, DestroyManager, ownership, signals
<1>1. CASE InsertNewThread \/ WaitAll \/ SpuriousWakeup
  BY <1>1 DEF InsertNewThread, WaitAll, SpuriousWakeup
<1>2. CASE MainReturn
  <2>1. pc[u] # "unborn"
    BY <1>2 DEF MainReturn, SetInv
  <2> QED BY <1>2, <2>1 DEF MainReturn, ThreadPC
<1>3. ASSUME NEW t \in Threads, LaunchServerThread(t) PROVE OwnerInv!(u)'
  BY <1>3 DEF LaunchServerThread
<1>4. ASSUME NEW t \in Threads, ThreadStep(t) PROVE OwnerInv!(u)'
  <2>1. CASE CreateNew(t)              BY <2>1 DEF CreateNew
  <2>2. CASE Login(t)                  BY <2>2 DEF Login
  <2>3. CASE WorkerRun(t)              BY <2>3 DEF WorkerRun
  <2>4. CASE SignalLoad(t)             BY <2>4 DEF SignalLoad
  <2>5. CASE SignalCAS(t)              BY <2>5 DEF SignalCAS
  <2>6. CASE TearDownSignalDelivery(t) BY <2>6 DEF TearDownSignalDelivery
  <2>7. CASE DropWorker(t)             BY <2>7 DEF DropWorker
  <2>8. CASE DropM(t)                  BY <2>8 DEF DropM
  <2>9. CASE ThreadCleanupSelf(t)      BY <2>9 DEF ThreadCleanupSelf
  <2>10. CASE DropArg(t)               BY <2>10 DEF DropArg
  <2> QED BY <1>4, <2>1, <2>2, <2>3, <2>4, <2>5, <2>6, <2>7, <2>8, <2>9, <2>10
          DEF ThreadStep
<1>5. ASSUME NEW t \in Threads, LeaveLoop(t) PROVE OwnerInv!(u)'
  BY <1>5 DEF LeaveLoop
<1>6. CASE Finished \/ UNCHANGED vars
  BY <1>6 DEF Finished, vars
<1> QED BY <1>1, <1>2, <1>3, <1>4, <1>5, <1>6 DEF Next, MainStep

\* No step moves a server that left kSetup.
LEMMA SetupStep == IInv /\ [Next]_vars => SetupInv'
<1> SUFFICES ASSUME IInv, [Next]_vars PROVE SetupInv'
  OBVIOUS
<1> USE DEF IInv, TypeOK, SetupInv, At, MoveServer, ownership, signals
<1>1. CASE MainStep \/ SpuriousWakeup
  BY <1>1 DEF MainStep, InsertNewThread, WaitAll, MainReturn, SpuriousWakeup
<1>2. ASSUME NEW t \in Threads, LaunchServerThread(t) PROVE SetupInv'
  BY <1>2 DEF LaunchServerThread
<1>3. ASSUME NEW t \in Threads, ThreadStep(t) PROVE SetupInv'
  <2>1. CASE CreateNew(t)              BY <2>1 DEF CreateNew
  <2>2. CASE Login(t)                  BY <2>2 DEF Login
  <2>3. CASE WorkerRun(t)              BY <2>3 DEF WorkerRun
  <2>4. CASE SignalLoad(t)             BY <2>4 DEF SignalLoad
  <2>5. CASE SignalCAS(t)              BY <2>5 DEF SignalCAS
  <2>6. CASE TearDownSignalDelivery(t) BY <2>6 DEF TearDownSignalDelivery
  <2>7. CASE DropWorker(t)             BY <2>7 DEF DropWorker
  <2>8. CASE DropM(t)                  BY <2>8 DEF DropM
  <2>9. CASE ThreadCleanupSelf(t)      BY <2>9 DEF ThreadCleanupSelf
  <2>10. CASE DropArg(t)               BY <2>10 DEF DropArg
  <2> QED BY <1>3, <2>1, <2>2, <2>3, <2>4, <2>5, <2>6, <2>7, <2>8, <2>9, <2>10
          DEF ThreadStep
<1>4. ASSUME NEW t \in Threads, LeaveLoop(t) PROVE SetupInv'
  BY <1>4 DEF LeaveLoop
<1>5. CASE Finished \/ UNCHANGED vars
  BY <1>5 DEF Finished, vars
<1> QED BY <1>1, <1>2, <1>3, <1>4, <1>5 DEF Next

\* A step of a thread that neither enters nor leaves Running, and touches
\* neither main nor the set, keeps SetInv.
LEMMA SetKept ==
  ASSUME IInv, NEW t \in Threads, NEW there \in Running,
         pc[t] \in Running, pc' = [pc EXCEPT ![t] = there],
         UNCHANGED <<main, cur, thread_set>>
  PROVE  SetInv'
BY DEF IInv, TypeOK, SetInv, Running, ThreadPC

\* The set holds the running threads after every step.
LEMMA SetStep == IInv /\ [Next]_vars => SetInv'
<1> SUFFICES ASSUME IInv, [Next]_vars PROVE SetInv'
  OBVIOUS
<1>1. CASE InsertNewThread
  BY <1>1 DEF InsertNewThread, IInv, TypeOK, SetInv, Running, ThreadPC
<1>2. CASE WaitAll
  BY <1>2 DEF WaitAll, IInv, TypeOK, SetInv
<1>3. CASE MainReturn
  BY <1>3 DEF MainReturn, IInv, TypeOK, SetInv
<1>4. CASE SpuriousWakeup
  BY <1>4 DEF SpuriousWakeup, IInv, TypeOK, SetInv
<1>5. ASSUME NEW t \in Threads, LaunchServerThread(t) PROVE SetInv'
  BY <1>5 DEF LaunchServerThread, IInv, TypeOK, SetInv, Running, ThreadPC
<1>6. ASSUME NEW t \in Threads, ThreadStep(t) PROVE SetInv'
  <2>1. CASE ThreadCleanupSelf(t)
    <3>1. CASE t \in thread_set
      BY <2>1, <3>1 DEF ThreadCleanupSelf, At, Notified, IInv, TypeOK, SetInv,
                        Running, ThreadPC, MainPC
    <3>2. CASE t \notin thread_set
      BY <2>1, <3>2 DEF ThreadCleanupSelf, At, IInv, TypeOK, SetInv
    <3> QED BY <3>1, <3>2
  <2>2. CASE DropArg(t)
    BY <2>2 DEF DropArg, At, IInv, TypeOK, SetInv, Running, ThreadPC
  <2>3. CASE \/ CreateNew(t) \/ Login(t) \/ WorkerRun(t) \/ SignalLoad(t)
             \/ SignalCAS(t) \/ TearDownSignalDelivery(t) \/ DropWorker(t)
             \/ DropM(t)
    <3>1. PICK there \in Running :
            pc[t] \in Running /\ pc' = [pc EXCEPT ![t] = there]
      BY <2>3 DEF CreateNew, Login, WorkerRun, SignalLoad, SignalCAS,
                  TearDownSignalDelivery, DropWorker, DropM, At, Running, ThreadPC
    <3>2. UNCHANGED <<main, cur, thread_set>>
      BY <2>3 DEF CreateNew, Login, WorkerRun, SignalLoad, SignalCAS,
                  TearDownSignalDelivery, DropWorker, DropM
    <3> QED BY <3>1, <3>2, SetKept
  <2> QED BY <1>6, <2>1, <2>2, <2>3 DEF ThreadStep
<1>7. ASSUME NEW t \in Threads, LeaveLoop(t) PROVE SetInv'
  <2>1. /\ "teardown" \in Running
        /\ pc[t] \in Running /\ pc' = [pc EXCEPT ![t] = "teardown"]
    BY <1>7 DEF LeaveLoop, At, Running, ThreadPC
  <2> QED BY <1>7, <2>1, SetKept DEF LeaveLoop
<1>8. CASE Finished \/ UNCHANGED vars
  BY <1>8 DEF Finished, vars, IInv, TypeOK, SetInv
<1> QED BY <1>1, <1>2, <1>3, <1>4, <1>5, <1>6, <1>7, <1>8 DEF Next, MainStep

\* IInv holds at the start.
LEMMA InitIInv == Init => IInv
BY SigAssumption DEF Init, IInv, TypeOK, OwnerInv, SetupInv, SetInv, Owns,
   Serves, Done, Running, MainPC, ThreadPC, Objects, Managers, Crashes, SigIds,
   SigInv

\* Every step keeps IInv.
LEMMA IInvStep == IInv /\ [Next]_vars => IInv'
BY TypeStep, OwnerStep, SetupStep, SetStep DEF IInv

\* IInv is an invariant of the specification.
LEMMA IInvariant == Spec => []IInv
BY InitIInv, IInvStep, PTL DEF Spec

-----------------------------------------------------------------------------
\* The variables keep their types, however many threads are launched.
THEOREM TypeCorrect == Spec => []TypeOK
<1>1. IInv => TypeOK
  BY DEF IInv
<1> QED BY <1>1, IInvariant, PTL

\* Each socket and each epoll descriptor has one owner and is closed once.
THEOREM SingleOwner == Spec => []DescriptorsOwnedOnce
<1>1. IInv => DescriptorsOwnedOnce
  <2> SUFFICES ASSUME IInv, NEW t \in Threads
               PROVE  /\ closes[t] + Cardinality(fd[t]) = 1
                      /\ epcloses[t] + Cardinality(epfd[t]) <= 1
    BY DEF DescriptorsOwnedOnce
  <2>1. Cardinality({}) = 0 /\ \A o : Cardinality({o}) = 1
    BY FS_EmptySet, FS_Singleton
  <2>2. \/ closes[t] = 0 /\ \E o : fd[t] = {o}
        \/ closes[t] = 1 /\ fd[t] = {}
    BY DEF IInv, TypeOK, OwnerInv, Owns, Serves, Done, ThreadPC
  <2>3. \/ epcloses[t] = 0 /\ (epfd[t] = {} \/ \E o : epfd[t] = {o})
        \/ epcloses[t] = 1 /\ epfd[t] = {}
    BY DEF IInv, TypeOK, OwnerInv, Owns, Serves, Done, ThreadPC
  <2>4. closes[t] + Cardinality(fd[t]) = 1
    <3>1. CASE closes[t] = 1 /\ fd[t] = {}
      BY <2>1, <3>1
    <3>2. CASE closes[t] = 0 /\ \E o : fd[t] = {o}
      <4>1. Cardinality(fd[t]) = 1
        BY <2>1, <3>2
      <4> QED BY <3>2, <4>1
    <3> QED BY <2>2, <3>1, <3>2
  <2>5. epcloses[t] + Cardinality(epfd[t]) <= 1
    <3>1. CASE epfd[t] = {}
      BY <2>1, <2>3, <3>1
    <3>2. CASE epcloses[t] = 0 /\ \E o : epfd[t] = {o}
      <4>1. Cardinality(epfd[t]) = 1
        BY <2>1, <3>2
      <4> QED BY <3>2, <4>1
    <3> QED BY <2>3, <3>1, <3>2
  <2> QED BY <2>4, <2>5
<1> QED BY <1>1, IInvariant, PTL

\* A socket and its epoll descriptor are closed together, by the destructor of
\* the Manager that holds them, while its thread is in the set or about to be
\* inserted: neither main's optional nor the argument of the jthread, both
\* moved from, closes anything.  No later step opens or closes them again.
ClosedTogether ==
  \A t \in Threads :
    /\ (closes'[t] # closes[t] \/ epcloses'[t] # epcloses[t]) =>
         /\ closes[t] = 0 /\ epcloses[t] = 0 /\ closes'[t] = 1 /\ epcloses'[t] = 1
         /\ DropWorker(t) \/ DropM(t)
         /\ t \in thread_set \/ (main = "insert" /\ t = cur)
    /\ closes[t] = 1 =>
         closes'[t] = 1 /\ epcloses'[t] = 1 /\ fd'[t] = {} /\ epfd'[t] = {}

\* Who closes a descriptor, by OwnerInv and SetInv before and OwnerInv after.
LEMMA CloseStep == IInv /\ IInv' /\ [Next]_vars => ClosedTogether
<1> SUFFICES ASSUME IInv, IInv', [Next]_vars, NEW u \in Threads
             PROVE  ClosedTogether!(u)
  BY DEF ClosedTogether
<1>1. \/ Owns(u, {}, {}, 1, 1)
      \/ closes[u] = 0 /\ epcloses[u] = 0
  BY DEF IInv, TypeOK, OwnerInv, Owns, Serves, Done, ThreadPC
<1>2. \/ Owns(u, {}, {}, 1, 1)'
      \/ closes'[u] = 0 /\ epcloses'[u] = 0
  BY DEF IInv, TypeOK, OwnerInv, Owns, Serves, Done, ThreadPC
<1>3. ASSUME UNCHANGED <<closes[u], epcloses[u]>> PROVE ClosedTogether!(u)
  BY <1>1, <1>2, <1>3 DEF Owns
<1>4. CASE DropWorker(u) \/ DropM(u)
  <2>1. pc[u] \in Running
    BY <1>4 DEF DropWorker, DropM, At, Running, ThreadPC
  <2>2. u \in thread_set \/ (main = "insert" /\ u = cur)
    BY <2>1 DEF IInv, SetInv
  <2>3. closes[u] = 1 => closes'[u] = 1
    BY <1>1, <1>4 DEF DropWorker, DropM, DestroyManager, DestroyServer, Owns, IInv, TypeOK
  <2> QED BY <1>1, <1>2, <1>4, <2>2, <2>3 DEF Owns
<1>5. CASE MainReturn
  <2>1. pc[u] \in Done
    BY <1>5 DEF MainReturn, IInv, TypeOK, SetInv, Running, Done
  <2>2. fd[u] = {}
    BY <2>1 DEF IInv, OwnerInv, Owns, Done
  <2> QED BY <1>3, <1>5, <2>2 DEF MainReturn, IInv, TypeOK
<1>6. ASSUME NEW t \in Threads, DropArg(t) PROVE ClosedTogether!(u)
  <2>1. fd[t] = {}
    BY <1>6 DEF DropArg, At, IInv, OwnerInv, Owns, Done
  <2> QED BY <1>3, <1>6, <2>1 DEF DropArg, DestroyServer, IInv, TypeOK
<1>7. ASSUME NEW t \in Threads \ {u}, DropWorker(t) \/ DropM(t) PROVE ClosedTogether!(u)
  BY <1>3, <1>7 DEF DropWorker, DropM, DestroyManager, DestroyServer, IInv, TypeOK
<1>8. CASE InsertNewThread \/ WaitAll \/ SpuriousWakeup \/ Finished \/ UNCHANGED vars
  BY <1>3, <1>8 DEF InsertNewThread, WaitAll, SpuriousWakeup, Finished, vars, ownership
<1>9. ASSUME NEW t \in Threads,
             \/ LaunchServerThread(t) \/ CreateNew(t) \/ Login(t) \/ WorkerRun(t)
             \/ SignalLoad(t) \/ SignalCAS(t) \/ LeaveLoop(t)
             \/ TearDownSignalDelivery(t) \/ ThreadCleanupSelf(t)
      PROVE  ClosedTogether!(u)
  BY <1>3, <1>9 DEF LaunchServerThread, CreateNew, Login, WorkerRun, SignalLoad, SignalCAS,
     LeaveLoop, TearDownSignalDelivery, ThreadCleanupSelf, ownership
<1> QED BY <1>4, <1>5, <1>6, <1>7, <1>8, <1>9 DEF Next, MainStep, ThreadStep

\* Descriptors are closed once and for all by the thread that serves them, in
\* every step of every behaviour: what a step may never do.
THEOREM ManagerCloses == Spec => [][ClosedTogether]_vars
<1>1. IInv /\ IInv' /\ [Next]_vars => [ClosedTogether]_vars
  BY CloseStep
<1> QED BY <1>1, IInvariant, PTL DEF Spec

\* WaitAll returns only after the last thread has closed its connection and
\* left the set.
THEOREM WaitAllReturnsLast == Spec => []WaitAllComplete
<1>1. IInv => WaitAllComplete
  <2> SUFFICES ASSUME IInv, main \in {"returned", "exited"}, NEW t \in Threads
               PROVE  pc[t] \in {"detached", "gone"} /\ closes[t] = 1 /\ epcloses[t] = 1
    BY DEF WaitAllComplete
  <2>1. pc[t] \in {"detached", "gone"}
    BY DEF IInv, TypeOK, SetInv, Running
  <2> QED BY <2>1 DEF IInv, OwnerInv, Owns, Done
<1> QED BY <1>1, IInvariant, PTL

\* The assertion of Server's move constructor never fails.
THEOREM MovesInSetup == Spec => []MovedOnlyInSetup
<1>1. IInv => MovedOnlyInSetup
  BY DEF IInv, SetupInv, MovedOnlyInSetup
<1> QED BY <1>1, IInvariant, PTL

-----------------------------------------------------------------------------
(* The signal ids                                                          *)

\* Thread t holds a signal id; thread t has been through WorkerRun.
Holds(t) == pc[t] \in {"loop", "teardown"} /\ Claimed(t)
WasServed(t) == /\ "worker" \in connected[t]
                /\ pc[t] \in {"drop_worker", "drop_m", "cleanup", "detached", "gone"}

\* A thread that serves has recorded kConnected in WorkerRun's parameter.
ConnectedInv ==
  \A t \in Threads : pc[t] \in Serves => "worker" \in connected[t]

\* SigIdAccounting, exactly, with the finiteness that makes Cardinality mean
\* something: the code subtracts one for each of the Drifted.
CountInv ==
  /\ IsFiniteSet(Holders) /\ IsFiniteSet(Drifted)
  /\ sig_id = SIGRTMIN + Cardinality(Holders) - Cardinality(Drifted)

\* Until the first thread tears down the counter is above every id that is
\* held, so the next one is new.
FreshInv ==
  (\A t \in Threads : ~WasServed(t)) =>
    \A t \in Threads : Holds(t) =>
      /\ cur_sig_id[t] < sig_id
      /\ \A u \in Threads \ {t} : Holds(u) => cur_sig_id[t] # cur_sig_id[u]

SigIInv == IInv /\ ConnectedInv /\ CountInv /\ FreshInv

\* The three things a step can be with respect to the ids: one that touches
\* nobody's id, the successful compare-exchange of t, the teardown of t.
KeepsIds(T) ==
  \A u \in T :
    /\ Holds(u)' <=> Holds(u)
    /\ WasServed(u)' <=> WasServed(u)
    /\ Holds(u) \/ WasServed(u) => cur_sig_id'[u] = cur_sig_id[u]

Claims(t) ==
  /\ KeepsIds(Threads \ {t})
  /\ ~Holds(t) /\ Holds(t)' /\ ~WasServed(t) /\ ~WasServed(t)'
  /\ cur_sig_id'[t] = sig_id /\ sig_id' = sig_id + 1

GivesBack(t) ==
  /\ KeepsIds(Threads \ {t})
  /\ Holds(t) <=> Claimed(t)
  /\ ~Holds(t)' /\ ~WasServed(t) /\ WasServed(t)'
  /\ cur_sig_id'[t] = cur_sig_id[t] /\ sig_id' = sig_id - 1

\* A step of thread t within one of the classes of places.
LEMMA QuietThread ==
  ASSUME IInv, NEW t \in Threads, NEW there, pc' = [pc EXCEPT ![t] = there],
         connected' = connected, cur_sig_id' = cur_sig_id,
         there \in {"loop", "teardown"} <=> pc[t] \in {"loop", "teardown"},
         there \in {"drop_worker", "drop_m", "cleanup", "detached", "gone"} <=>
           (pc[t] \in {"drop_worker", "drop_m", "cleanup", "detached", "gone"})
  PROVE  KeepsIds(Threads)
BY DEF KeepsIds, Holds, WasServed, Claimed, IInv, TypeOK

\* Every step is one of the three.
LEMMA SignalEffect ==
  ASSUME IInv, ConnectedInv, [Next]_vars
  PROVE  \/ KeepsIds(Threads) /\ sig_id' = sig_id
         \/ \E t \in Threads : Claims(t)
         \/ \E t \in Threads : GivesBack(t)
<1> USE DEF At, ownership, signals
<1>1. CASE MainStep \/ SpuriousWakeup
  BY <1>1 DEF MainStep, InsertNewThread, WaitAll, MainReturn, SpuriousWakeup,
              KeepsIds, Holds, WasServed, Claimed
<1>2. ASSUME NEW t \in Threads, LaunchServerThread(t)
      PROVE  KeepsIds(Threads) /\ sig_id' = sig_id
  BY <1>2, QuietThread DEF LaunchServerThread
<1>3. ASSUME NEW t \in Threads, CreateNew(t) PROVE KeepsIds(Threads) /\ sig_id' = sig_id
  BY <1>3, QuietThread DEF CreateNew
<1>4. ASSUME NEW t \in Threads, Login(t) PROVE KeepsIds(Threads) /\ sig_id' = sig_id
  <2>1. pc[t] = "login" /\ connected[t] = {}
    BY <1>4 DEF Login, IInv, SetupInv
  <2> QED BY <1>4, <2>1 DEF Login, KeepsIds, Holds, WasServed, Claimed, IInv, TypeOK
<1>5. ASSUME NEW t \in Threads, WorkerRun(t) PROVE KeepsIds(Threads) /\ sig_id' = sig_id
  BY <1>5 DEF WorkerRun, KeepsIds, Holds, WasServed, Claimed, IInv, TypeOK
<1>6. ASSUME NEW t \in Threads, SignalLoad(t) PROVE KeepsIds(Threads) /\ sig_id' = sig_id
  BY <1>6 DEF SignalLoad, KeepsIds, Holds, WasServed, Claimed, IInv, TypeOK
<1>7. ASSUME NEW t \in Threads, SignalCAS(t), sig_id = cur_sig_id[t] PROVE Claims(t)
  <2>1. pc[t] = "sig_cas" /\ cur_sig_id[t] # SIGRTMAX
    BY <1>7, SigAssumption DEF SignalCAS, IInv, SigInv
  <2> QED BY <1>7, <2>1 DEF SignalCAS, Claims, KeepsIds, Holds, WasServed, Claimed,
                            IInv, TypeOK
<1>8. ASSUME NEW t \in Threads, SignalCAS(t), sig_id # cur_sig_id[t]
      PROVE  KeepsIds(Threads) /\ sig_id' = sig_id
  BY <1>8, QuietThread DEF SignalCAS
<1>9. ASSUME NEW t \in Threads, TearDownSignalDelivery(t) PROVE GivesBack(t)
  <2>1. pc[t] = "teardown" /\ "worker" \in connected[t]
    BY <1>9 DEF TearDownSignalDelivery, ConnectedInv, Serves
  <2> QED BY <1>9, <2>1 DEF TearDownSignalDelivery, GivesBack, KeepsIds, Holds, WasServed,
                            Claimed, IInv, TypeOK
<1>10. ASSUME NEW t \in Threads, DropWorker(t) \/ DropM(t) \/ DropArg(t) \/ LeaveLoop(t)
       PROVE  KeepsIds(Threads) /\ sig_id' = sig_id
  BY <1>10, QuietThread DEF DropWorker, DropM, DropArg, LeaveLoop
<1>11. ASSUME NEW t \in Threads, ThreadCleanupSelf(t)
       PROVE  KeepsIds(Threads) /\ sig_id' = sig_id
  BY <1>11, QuietThread DEF ThreadCleanupSelf
<1>12. CASE Finished \/ UNCHANGED vars
  BY <1>12 DEF Finished, vars, KeepsIds, Holds, WasServed, Claimed
<1> QED BY <1>1, <1>2, <1>3, <1>4, <1>5, <1>6, <1>7, <1>8, <1>9, <1>10, <1>11, <1>12
        DEF Next, ThreadStep

\* Who is connected after every step.
LEMMA ConnectedStep == IInv /\ ConnectedInv /\ [Next]_vars => ConnectedInv'
<1> SUFFICES ASSUME IInv, ConnectedInv, [Next]_vars PROVE ConnectedInv'
  OBVIOUS
<1> USE DEF IInv, TypeOK, ConnectedInv, Serves, At, ownership, signals
<1>1. CASE MainStep \/ SpuriousWakeup
  BY <1>1 DEF MainStep, InsertNewThread, WaitAll, MainReturn, SpuriousWakeup
<1>2. ASSUME NEW t \in Threads, LaunchServerThread(t) PROVE ConnectedInv'
  BY <1>2 DEF LaunchServerThread
<1>3. ASSUME NEW t \in Threads, ThreadStep(t) PROVE ConnectedInv'
  <2>1. CASE CreateNew(t)              BY <2>1 DEF CreateNew
  <2>2. CASE Login(t)                  BY <2>2 DEF Login
  <2>3. CASE WorkerRun(t)              BY <2>3 DEF WorkerRun
  <2>4. CASE SignalLoad(t)             BY <2>4 DEF SignalLoad
  <2>5. CASE SignalCAS(t)              BY <2>5 DEF SignalCAS
  <2>6. CASE TearDownSignalDelivery(t) BY <2>6 DEF TearDownSignalDelivery
  <2>7. CASE DropWorker(t)             BY <2>7 DEF DropWorker
  <2>8. CASE DropM(t)                  BY <2>8 DEF DropM
  <2>9. CASE ThreadCleanupSelf(t)      BY <2>9 DEF ThreadCleanupSelf
  <2>10. CASE DropArg(t)               BY <2>10 DEF DropArg
  <2> QED BY <1>3, <2>1, <2>2, <2>3, <2>4, <2>5, <2>6, <2>7, <2>8, <2>9, <2>10
          DEF ThreadStep
<1>4. ASSUME NEW t \in Threads, LeaveLoop(t) PROVE ConnectedInv'
  BY <1>4 DEF LeaveLoop
<1>5. CASE Finished \/ UNCHANGED vars
  BY <1>5 DEF Finished, vars
<1> QED BY <1>1, <1>2, <1>3, <1>4, <1>5 DEF Next

\* The counter after every step.
LEMMA CountStep == IInv /\ ConnectedInv /\ CountInv /\ [Next]_vars => CountInv'
<1> SUFFICES ASSUME IInv, ConnectedInv, CountInv, [Next]_vars PROVE CountInv'
  OBVIOUS
<1>1. /\ Holders = {u \in Threads : Holds(u)}
      /\ Drifted = {u \in Threads : WasServed(u) /\ ~Claimed(u)}
      /\ Holders' = {u \in Threads : Holds(u)'}
      /\ Drifted' = {u \in Threads : WasServed(u)' /\ ~Claimed(u)'}
  BY DEF Holders, Drifted, Serving, TornDown, Holds, WasServed
<1>2. Cardinality(Holders) \in Nat /\ Cardinality(Drifted) \in Nat
  BY FS_CardinalityType DEF CountInv
<1>3. CASE KeepsIds(Threads) /\ sig_id' = sig_id
  <2>1. Holders' = Holders /\ Drifted' = Drifted
    BY <1>1, <1>3 DEF KeepsIds, Claimed
  <2> QED BY <1>3, <2>1 DEF CountInv
<1>4. ASSUME NEW t \in Threads, Claims(t) PROVE CountInv'
  <2>1. Holders' = Holders \cup {t} /\ t \notin Holders /\ Drifted' = Drifted
    BY <1>1, <1>4 DEF Claims, KeepsIds, Claimed
  <2>2. IsFiniteSet(Holders') /\ Cardinality(Holders') = Cardinality(Holders) + 1
    BY <2>1, FS_AddElement DEF CountInv
  <2> QED BY <1>2, <1>4, <2>1, <2>2, SigAssumption DEF Claims, CountInv
<1>5. ASSUME NEW t \in Threads, GivesBack(t) PROVE CountInv'
  <2>1. CASE Claimed(t)
    <3>1. Holders' = Holders \ {t} /\ t \in Holders /\ Drifted' = Drifted
      BY <1>1, <1>5, <2>1 DEF GivesBack, KeepsIds, Claimed
    <3>2. IsFiniteSet(Holders') /\ Cardinality(Holders') = Cardinality(Holders) - 1
      BY <3>1, FS_RemoveElement DEF CountInv
    <3> QED BY <1>2, <1>5, <3>1, <3>2, SigAssumption DEF GivesBack, CountInv
  <2>2. CASE ~Claimed(t)
    <3>1. Holders' = Holders /\ Drifted' = Drifted \cup {t} /\ t \notin Drifted
      BY <1>1, <1>5, <2>2 DEF GivesBack, KeepsIds, Claimed
    <3>2. IsFiniteSet(Drifted') /\ Cardinality(Drifted') = Cardinality(Drifted) + 1
      BY <3>1, FS_AddElement DEF CountInv
    <3> QED BY <1>2, <1>5, <3>1, <3>2, SigAssumption DEF GivesBack, CountInv
  <2> QED BY <2>1, <2>2
<1> QED BY <1>3, <1>4, <1>5, SignalEffect

\* The counter stays above the ids that are held.
LEMMA FreshStep == IInv /\ ConnectedInv /\ FreshInv /\ [Next]_vars => FreshInv'
<1> SUFFICES ASSUME IInv, ConnectedInv, FreshInv, [Next]_vars,
                    \A t \in Threads : ~WasServed(t)'
             PROVE  \A t \in Threads : Holds(t)' =>
                      /\ cur_sig_id'[t] < sig_id'
                      /\ \A u \in Threads \ {t} : Holds(u)' => cur_sig_id'[t] # cur_sig_id'[u]
  BY DEF FreshInv
<1>1. sig_id \in Int /\ \A t \in Threads : cur_sig_id[t] \in Int
  BY SigAssumption DEF IInv, TypeOK, SigIds
<1>2. CASE KeepsIds(Threads) /\ sig_id' = sig_id
  BY <1>2 DEF KeepsIds, FreshInv
<1>3. ASSUME NEW t \in Threads, Claims(t)
      PROVE  \A v \in Threads : Holds(v)' =>
               /\ cur_sig_id'[v] < sig_id'
               /\ \A u \in Threads \ {v} : Holds(u)' => cur_sig_id'[v] # cur_sig_id'[u]
  <2>1. \A v \in Threads : ~WasServed(v)
    BY <1>3 DEF Claims, KeepsIds
  <2>2. \A v \in Threads \ {t} :
          Holds(v)' => Holds(v) /\ cur_sig_id'[v] = cur_sig_id[v] /\ cur_sig_id[v] < sig_id
    BY <1>3, <2>1 DEF Claims, KeepsIds, FreshInv
  <2>3. cur_sig_id'[t] = sig_id /\ sig_id' = sig_id + 1
    BY <1>3 DEF Claims
  <2> QED BY <1>1, <2>1, <2>2, <2>3 DEF FreshInv
<1>4. ASSUME NEW t \in Threads, GivesBack(t) PROVE FALSE
  BY <1>4 DEF GivesBack
<1> QED BY <1>2, <1>3, <1>4, SignalEffect

\* All of it together.
LEMMA SigInvariant == Spec => []SigIInv
<1>1. Init => SigIInv
  <2> SUFFICES ASSUME Init PROVE ConnectedInv /\ CountInv /\ FreshInv /\ IInv
    BY DEF SigIInv
  <2>1. IInv
    BY InitIInv
  <2>2. ConnectedInv /\ FreshInv
    BY DEF Init, ConnectedInv, FreshInv, Holds, Serves
  <2>3. Holders = {} /\ Drifted = {} /\ sig_id = SIGRTMIN
    BY DEF Init, Holders, Drifted, Serving, TornDown
  <2>4. CountInv
    BY <2>3, FS_EmptySet, SigAssumption DEF CountInv
  <2> QED BY <2>1, <2>2, <2>4
<1>2. SigIInv /\ [Next]_vars => SigIInv'
  BY IInvStep, ConnectedStep, CountStep, FreshStep DEF SigIInv
<1> QED BY <1>1, <1>2, PTL DEF Spec

\* No id leaks and none is lost to a race of loads, compare-exchanges and
\* teardowns: sig_id is off by no more than the teardowns of threads that never
\* got an id, for every number of threads and signals.
THEOREM SigIdsAccounted == Spec => []SigIdAccounting
<1>1. SigIInv => SigIdAccounting
  <2> SUFFICES ASSUME SigIInv PROVE SigIdAccounting
    OBVIOUS
  <2>1. Cardinality(Holders) \in Nat /\ Cardinality(Drifted) \in Nat
    BY FS_CardinalityType DEF SigIInv, CountInv
  <2> QED BY <2>1, SigAssumption DEF SigIInv, CountInv, SigIdAccounting
<1> QED BY <1>1, SigInvariant, PTL

\* No two threads claim the same signal id before the first teardown, however
\* their loads and compare-exchanges interleave.
THEOREM SigIdsUnique == Spec => []SigIdsDistinct
<1>1. SigIInv => SigIdsDistinct
  <2> SUFFICES ASSUME SigIInv, TornDown = {}, NEW t \in Serving, NEW u \in Serving,
                      t # u, Claimed(t)
               PROVE  cur_sig_id[t] # cur_sig_id[u]
    BY DEF SigIdsDistinct
  <2>1. \A v \in Threads : ~WasServed(v)
    BY DEF TornDown, WasServed
  <2>2. Holds(t) /\ t \in Threads /\ u \in Threads
    BY DEF Serving, Holds
  <2>3. CASE Claimed(u)
    BY <2>1, <2>2, <2>3 DEF SigIInv, FreshInv, Serving, Holds
  <2>4. CASE ~Claimed(u)
    BY <2>4 DEF Claimed
  <2> QED BY <2>3, <2>4
<1> QED BY <1>1, SigInvariant, PTL

-----------------------------------------------------------------------------
(* The refinement: every step is one of ServerPool or a stutter            *)

\* A step that changes neither the process nor what is said of a connection.
LEMMA Stutters ==
  ASSUME UNCHANGED ProcessState,
         \A t \in Threads : UNCHANGED ConnectionState(t)
  PROVE  UNCHANGED Pool!vars
BY DEF Pool!vars

\* A step that changes what is said of one connection.
LEMMA MovesOne ==
  ASSUME NEW t \in Threads, NEW from, NEW to,
         ProcessState = "running", UNCHANGED ProcessState,
         \A u \in Threads \ {t} : UNCHANGED ConnectionState(u),
         ConnectionState(t) = from, ConnectionState(t)' = to
  PROVE  Pool!Move(t, from, to)
<1> DEFINE state == [u \in Threads |-> ConnectionState(u)]
<1>1. state' = [state EXCEPT ![t] = to]
  <2>1. \A u \in Threads : ConnectionState(u)' = IF u = t THEN to ELSE ConnectionState(u)
    OBVIOUS
  <2> QED BY <2>1
<1>2. state[t] = from
  OBVIOUS
<1> QED BY <1>1, <1>2 DEF Pool!Move

\* What a step of thread t does to the process and to the connections: it may
\* close its own connection or bring the process down, and main has not exited.
LEMMA ThreadEffect ==
  ASSUME IInv, IInv', NEW t \in Threads, ThreadStep(t) \/ LeaveLoop(t)
  PROVE  /\ Alive /\ main' # "exited"
         /\ pc[t] # "unborn" /\ pc'[t] # "unborn"
         /\ \A u \in Threads \ {t} : pc'[u] = pc[u] /\ closes'[u] = closes[u]
         /\ closes'[t] = 0 => closes[t] = 0
         /\ crash' # "none" => UNCHANGED <<pc, closes>>
<1> USE DEF At, Alive, IInv, TypeOK, SetupInv, ownership
<1>1. CASE CreateNew(t)              BY <1>1 DEF CreateNew, MoveServer
<1>2. CASE Login(t)                  BY <1>2 DEF Login
<1>3. CASE WorkerRun(t)              BY <1>3 DEF WorkerRun, MoveServer
<1>4. CASE SignalLoad(t)             BY <1>4 DEF SignalLoad
<1>5. CASE SignalCAS(t)              BY <1>5 DEF SignalCAS
<1>6. CASE TearDownSignalDelivery(t) BY <1>6 DEF TearDownSignalDelivery
<1>7. CASE DropWorker(t)             BY <1>7 DEF DropWorker, DestroyManager, DestroyServer
<1>8. CASE DropM(t)                  BY <1>8 DEF DropM, DestroyManager, DestroyServer
<1>9. CASE ThreadCleanupSelf(t)      BY <1>9 DEF ThreadCleanupSelf, Notified
<1>10. CASE DropArg(t)               BY <1>10 DEF DropArg, DestroyServer
<1>11. CASE LeaveLoop(t)             BY <1>11 DEF LeaveLoop
<1> QED BY <1>1, <1>2, <1>3, <1>4, <1>5, <1>6, <1>7, <1>8, <1>9, <1>10, <1>11
        DEF ThreadStep

\* Every step of the threads is a step of the pool.
LEMMA PoolStep == IInv /\ IInv' /\ [Next]_vars => [Pool!Next]_(Pool!vars)
<1> SUFFICES ASSUME IInv, IInv', [Next]_vars PROVE [Pool!Next]_(Pool!vars)
  OBVIOUS
<1>1. CASE InsertNewThread \/ WaitAll \/ SpuriousWakeup
  <2>1. UNCHANGED <<pc, closes, crash>> /\ main # "exited" /\ main' # "exited"
    BY <1>1 DEF InsertNewThread, WaitAll, SpuriousWakeup, ownership, Alive
  <2> QED BY <2>1, Stutters DEF ConnectionState, ProcessState
<1>2. CASE MainReturn
  <2>1. \A t \in Threads : pc[t] \in Done /\ UNCHANGED pc[t]
    BY <1>2 DEF MainReturn, IInv, TypeOK, SetInv, Running, Done
  <2>2. \A t \in Threads : ConnectionState(t) = "closed" /\ ConnectionState(t)' = "closed"
    <3>1. \A t \in Threads : closes[t] = 1 /\ closes'[t] = 1
      BY <2>1 DEF IInv, OwnerInv, Owns, Done
    <3> QED BY <2>1, <3>1 DEF Done, ConnectionState
  <2>3. ProcessState = "running" /\ ProcessState' = "exited"
    BY <1>2 DEF MainReturn, ProcessState, Alive
  <2> QED BY <2>2, <2>3 DEF Pool!Next, Pool!Exit
<1>3. ASSUME NEW t \in Threads, LaunchServerThread(t) PROVE [Pool!Next]_(Pool!vars)
  <2>1. ProcessState = "running" /\ UNCHANGED ProcessState
    BY <1>3 DEF LaunchServerThread, MoveServer, ProcessState, Alive, IInv, SetupInv,
                TypeOK, Crashes
  <2>2. pc[t] = "unborn" /\ pc'[t] = "start" /\ UNCHANGED closes
    BY <1>3 DEF LaunchServerThread, IInv, TypeOK
  <2>3. \A u \in Threads \ {t} : UNCHANGED ConnectionState(u)
    BY <1>3 DEF LaunchServerThread, ConnectionState, IInv, TypeOK
  <2>4. ConnectionState(t) = "waiting" /\ ConnectionState(t)' = "serving"
    BY <2>2 DEF ConnectionState, IInv, OwnerInv, Owns
  <2>5. Pool!Move(t, "waiting", "serving")
    BY <2>1, <2>3, <2>4, MovesOne
  <2> QED BY <2>5 DEF Pool!Next, Pool!Launch
<1>4. ASSUME NEW t \in Threads, ThreadStep(t) \/ LeaveLoop(t)
      PROVE  [Pool!Next]_(Pool!vars)
  <2>1. ProcessState = "running"
    BY <1>4, ThreadEffect DEF Alive, ProcessState
  <2>2. CASE crash' # "none"
    <3>1. ProcessState' = "died" /\ \A u \in Threads : UNCHANGED ConnectionState(u)
      BY <1>4, <2>2, ThreadEffect DEF ProcessState, ConnectionState
    <3> QED BY <2>1, <3>1 DEF Pool!Next, Pool!Die
  <2>3. CASE crash' = "none"
    <3>1. UNCHANGED ProcessState
      BY <1>4, <2>1, <2>3, ThreadEffect DEF ProcessState
    <3>2. \A u \in Threads \ {t} : UNCHANGED ConnectionState(u)
      BY <1>4, ThreadEffect DEF ConnectionState
    <3>3. \/ ConnectionState(t) = "serving" /\ ConnectionState(t)' = "closed"
          \/ UNCHANGED ConnectionState(t)
      BY <1>4, ThreadEffect DEF ConnectionState
    <3>4. CASE UNCHANGED ConnectionState(t)
      BY <3>1, <3>2, <3>4, Stutters
    <3>5. CASE ConnectionState(t) = "serving" /\ ConnectionState(t)' = "closed"
      <4>1. Pool!Move(t, "serving", "closed")
        BY <2>1, <3>1, <3>2, <3>5, MovesOne
      <4> QED BY <4>1 DEF Pool!Next, Pool!Close
    <3> QED BY <3>3, <3>4, <3>5
  <2> QED BY <2>2, <2>3
<1>5. CASE Finished \/ UNCHANGED vars
  BY <1>5, Stutters DEF Finished, vars, ownership, ConnectionState, ProcessState
<1> QED BY <1>1, <1>2, <1>3, <1>4, <1>5 DEF Next, MainStep

\* The safety part of the refinement: seen from outside, the threads, with
\* their moves, destructors and WaitAll, only ever do what ServerPool allows:
\* a connection is served and closed once, and main returns behind the last one.
THEOREM ThreadsImplementPool == Spec => Pool!Init /\ [][Pool!Next]_(Pool!vars)
<1>1. Init => Pool!Init
  BY DEF Init, Pool!Init, ConnectionState, ProcessState
<1> QED BY <1>1, PoolStep, IInvariant, PTL DEF Spec
=============================================================================
