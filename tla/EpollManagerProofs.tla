------------------------ MODULE EpollManagerProofs ------------------------
(***************************************************************************)
(* Proofs about EpollManager for every finite set of descriptors and every *)
(* choice of flags, callbacks and static events: the map and the kernel    *)
(* agree, the assertions on errno hold, the vector of events is large      *)
(* enough, no event is lost, and well-behaved callbacks cannot crash it.   *)
(***************************************************************************)
EXTENDS EpollManager, FiniteSetTheorems, TLAPS

\* A batch exists only while it is being dispatched.
BatchInv == phase \notin {"dispatch", "callback"} => batch = {}

\* A descriptor that was harvested, skipped because it was disabled, and is
\* enabled again has been listed anew since the harvest.
SkippedInv ==
  Alive => \A f \in taken \ batch : f \in enabled => f \in armed /\ f \in edge

IInv == /\ TypeOK
        /\ MapMatchesKernel
        /\ CtlAssertsHold
        /\ RoomForAll
        /\ BatchInv
        /\ SkippedInv

-----------------------------------------------------------------------------
(* The operations on the map                                               *)

\* Operations are never called while epoll_wait blocks, nor by a dead manager.
LEMMA CallPhase ==
  ASSUME IInv, NEW op, MayCall(op)
  PROVE  phase \notin {"wait", "dispatch", "dead"} /\ crash = "none"
BY StaticAssumption DEF IInv, TypeOK, MayCall, Alive, Hook

\* The step that lists a descriptor with a word its context records too.
LEMMA ListStep ==
  ASSUME IInv, NEW op, MayCall(op), NEW f \in Fds, NEW ev \in SUBSET Flags,
         SetInterest(f, ev), f \in fd_map', fd_map' \subseteq Fds,
         fd_map \subseteq fd_map', enabled' = enabled \cup {f},
         events' = [events EXCEPT ![f] = ev],
         crash' \in {"none", "uaf"},
         UNCHANGED <<static_events, ready, loop_vars>>
  PROVE  IInv'
<1>1. phase' \notin {"wait", "dispatch", "dead"} /\ crash = "none"
  BY CallPhase DEF loop_vars
<1> USE DEF IInv, SetInterest, loop_vars
<1>2. TypeOK'
  BY DEF TypeOK, Crashes
<1>3. MapMatchesKernel'
  BY DEF TypeOK, MapMatchesKernel
<1>4. CtlAssertsHold' /\ RoomForAll' /\ BatchInv'
  BY <1>1 DEF CtlAssertsHold, RoomForAll, BatchInv
<1>5. SkippedInv'
  BY <1>1 DEF SkippedInv, Alive
<1> QED BY <1>2, <1>3, <1>4, <1>5

\* The step that takes a descriptor off the list.
LEMMA UnlistStep ==
  ASSUME IInv, NEW op, MayCall(op), NEW f \in Fds,
         DropInterest(f), fd_map' \subseteq Fds, enabled' = enabled \ {f},
         enabled' \subseteq fd_map',
         events' \in [Fds -> SUBSET Flags],
         \A g \in Fds \ {f} : events'[g] = events[g],
         crash' \in {"none", "uaf"},
         UNCHANGED <<static_events, ready, loop_vars>>
  PROVE  IInv'
<1>1. phase' \notin {"wait", "dispatch", "dead"} /\ crash = "none"
  BY CallPhase DEF loop_vars
<1> USE DEF IInv, DropInterest, loop_vars
<1>2. TypeOK'
  BY DEF TypeOK, Crashes
<1>3. MapMatchesKernel'
  BY DEF TypeOK, MapMatchesKernel
<1>4. CtlAssertsHold' /\ RoomForAll' /\ BatchInv'
  BY <1>1 DEF CtlAssertsHold, RoomForAll, BatchInv
<1>5. SkippedInv'
  BY <1>1 DEF SkippedInv, Alive
<1> QED BY <1>2, <1>3, <1>4, <1>5

\* The step that leaves both sides as they are but may end the process.
LEMMA IdleStep ==
  ASSUME IInv, NEW op, MayCall(op), crash' \in {"none", "uaf", "logic_error"},
         fd_map' \subseteq Fds, enabled' \subseteq fd_map',
         enabled' = enabled,
         events' \in [Fds -> SUBSET Flags],
         \A g \in interest : events'[g] = events[g],
         static_events' \subseteq StaticTypes,
         UNCHANGED <<kernel_vars, ready, loop_vars>>
  PROVE  IInv'
<1>1. phase' \notin {"wait", "dispatch", "dead"} /\ crash = "none"
  BY CallPhase DEF loop_vars
<1> USE DEF IInv, kernel_vars, loop_vars
<1>2. TypeOK'
  BY DEF TypeOK, Crashes
<1>3. MapMatchesKernel'
  BY DEF TypeOK, MapMatchesKernel
<1>4. CtlAssertsHold' /\ RoomForAll' /\ BatchInv'
  BY <1>1 DEF CtlAssertsHold, RoomForAll, BatchInv
<1>5. SkippedInv'
  BY <1>1 DEF SkippedInv, Alive
<1> QED BY <1>2, <1>3, <1>4, <1>5

\* Both Modify operations, once their arguments passed the checks.
LEMMA ModifyStep ==
  ASSUME IInv, NEW op, MayCall(op), NEW f \in Fds, NEW ev \in SUBSET Flags,
         Modify(f, ev), UNCHANGED <<fd_map, enabled, static_events, ready, loop_vars, crash>>
  PROVE  IInv'
<1>1. crash = "none"
  BY CallPhase
<1>2. CASE SetInterest(f, ev) /\ events' = [events EXCEPT ![f] = ev] /\ f \in interest
  <2>1. enabled' = enabled \cup {f}
    BY <1>2 DEF IInv, MapMatchesKernel
  <2> QED BY <1>1, <1>2, <2>1, ListStep DEF Modify, IInv, TypeOK
<1>3. CASE UNCHANGED <<events, kernel_vars>>
  BY <1>1, <1>3, IdleStep DEF IInv, TypeOK
<1> QED BY <1>2, <1>3 DEF Modify, ModResult

\* Every operation on the map keeps the invariant.
LEMMA MapStepKeeps == IInv /\ MapStep => IInv'
<1> SUFFICES ASSUME IInv, NEW f \in Fds, MapStep!(f) PROVE IInv'
  BY DEF MapStep
<1>1. ASSUME NEW ev \in EventArgs, NEW config \in ConfigArgs, RegisterFd(f, ev, config)
      PROVE  IInv'
  <2>1. ev \cup config \in SUBSET Flags
    BY ArgsAssumption
  <2>2. MayCall("RegisterFd") /\ crash = "none"
    BY <1>1, CallPhase DEF RegisterFd
  <2>3. CASE UNCHANGED <<map_vars, kernel_vars, crash>>
    BY <1>1, <2>2, <2>3, IdleStep DEF RegisterFd, map_vars, IInv, TypeOK
  <2>4. CASE /\ SetInterest(f, ev \cup config)
             /\ fd_map' = fd_map \cup {f}
             /\ events' = [events EXCEPT ![f] = ev \cup config]
             /\ enabled' = enabled \cup {f}
             /\ crash' \in {"none", "uaf"}
    <3>1. f \in fd_map' /\ fd_map' \subseteq Fds /\ fd_map \subseteq fd_map'
      BY <2>4 DEF IInv, TypeOK
    <3>2. UNCHANGED <<static_events, ready, loop_vars>>
      BY <1>1 DEF RegisterFd
    <3> HIDE <1>1
    <3> QED BY <2>1, <2>2, <2>4, <3>1, <3>2, ListStep
  <2> QED BY <1>1, <2>3, <2>4 DEF RegisterFd
<1>2. CASE EnableFd(f)
  <2>1. MayCall("EnableFd") /\ crash = "none"
    BY <1>2, CallPhase DEF EnableFd, CanEnable
  <2>2. f \notin interest
    BY <1>2 DEF EnableFd, CanEnable, IInv, MapMatchesKernel
  <2>3. CASE SetInterest(f, events[f]) /\ enabled' = enabled \cup {f} /\ UNCHANGED crash
    <3>1. events' = [events EXCEPT ![f] = events[f]] /\ events[f] \in SUBSET Flags
      BY <1>2 DEF EnableFd, CanEnable, IInv, TypeOK
    <3>2. f \in fd_map' /\ fd_map' \subseteq Fds /\ fd_map \subseteq fd_map'
      BY <1>2 DEF EnableFd, CanEnable, IInv, TypeOK
    <3>3. UNCHANGED <<static_events, ready, loop_vars>>
      BY <1>2 DEF EnableFd, CanEnable
    <3> QED BY <2>1, <2>3, <3>1, <3>2, <3>3, ListStep
  <2>4. CASE UNCHANGED <<enabled, kernel_vars, crash>>
    BY <1>2, <2>1, <2>4, IdleStep DEF EnableFd, CanEnable, IInv, TypeOK
  <2> QED BY <1>2, <2>2, <2>3, <2>4 DEF EnableFd, CanEnable, AddResult
<1>3. CASE DisableFd(f)
  <2>1. MayCall("DisableFd") /\ crash = "none"
    BY <1>3, CallPhase DEF DisableFd
  <2>2. f \in interest
    BY <1>3 DEF DisableFd, IInv, MapMatchesKernel
  <2>3. DropInterest(f) /\ enabled' = enabled \ {f} /\ UNCHANGED crash
    BY <1>3, <2>2 DEF DisableFd, DelResult
  <2> QED BY <1>3, <2>1, <2>3, UnlistStep DEF DisableFd, IInv, TypeOK
<1>4. CASE ModifyFdCallback(f)
  BY <1>4, IdleStep DEF ModifyFdCallback, DestroysCallback, map_vars, IInv, TypeOK
<1>5. CASE DeleteFd(f)
  <2>1. MayCall("DeleteFd") /\ crash' \in {"none", "uaf"}
    BY <1>5 DEF DeleteFd, DestroysCallback
  <2>2. /\ fd_map' \subseteq Fds /\ enabled' \subseteq fd_map'
        /\ enabled' = enabled \ {f}
        /\ events' \in [Fds -> SUBSET Flags]
        /\ \A g \in Fds \ {f} : events'[g] = events[g]
    BY <1>5 DEF DeleteFd, IInv, TypeOK
  <2>3. UNCHANGED <<static_events, ready, loop_vars>>
    BY <1>5 DEF DeleteFd
  <2>4. CASE f \in interest
    <3>1. DropInterest(f)
      BY <1>5, <2>4 DEF DeleteFd, DelResult
    <3> QED BY <2>1, <2>2, <2>3, <3>1, UnlistStep
  <2>5. CASE f \notin interest
    <3>1. UNCHANGED kernel_vars
      BY <1>5, <2>5 DEF DeleteFd, DelResult
    <3>2. enabled' = enabled /\ \A g \in interest : events'[g] = events[g]
      BY <2>2, <2>5 DEF IInv, MapMatchesKernel, TypeOK
    <3>3. static_events' \subseteq StaticTypes
      BY <2>3 DEF IInv, TypeOK
    <3> QED BY <2>1, <2>2, <2>3, <3>1, <3>2, <3>3, IdleStep
  <2> QED BY <2>4, <2>5
<1>6. ASSUME NEW ev \in EventArgs, ModifyFdEvents(f, ev) PROVE IInv'
  <2>1. GetConfigMask(events[f]) \cup ev \in SUBSET Flags
    BY ArgsAssumption DEF GetConfigMask, Flags, ConfigFlags
  <2>2. CASE Throw
    BY <1>6, <2>2, IdleStep DEF Throw, ModifyFdEvents, IInv, TypeOK
  <2>3. CASE Modify(f, GetConfigMask(events[f]) \cup ev) /\ UNCHANGED crash
    BY <1>6, <2>1, <2>3, ModifyStep DEF ModifyFdEvents
  <2> QED BY <1>6, <2>2, <2>3 DEF ModifyFdEvents
<1>7. ASSUME NEW config \in ConfigArgs, ModifyFdConfig(f, config) PROVE IInv'
  <2>1. GetEventMask(events[f]) \cup config \in SUBSET Flags
    BY ArgsAssumption DEF GetEventMask, Flags, EventFlags
  <2>2. CASE Throw
    BY <1>7, <2>2, IdleStep DEF Throw, ModifyFdConfig, IInv, TypeOK
  <2>3. CASE Modify(f, GetEventMask(events[f]) \cup config) /\ UNCHANGED crash
    BY <1>7, <2>1, <2>3, ModifyStep DEF ModifyFdConfig
  <2> QED BY <1>7, <2>2, <2>3 DEF ModifyFdConfig
<1> QED BY <1>1, <1>2, <1>3, <1>4, <1>5, <1>6, <1>7

-----------------------------------------------------------------------------
(* RunEventLoop                                                            *)

\* Every step of the loop keeps the invariant.
LEMMA LoopStepKeeps == IInv /\ LoopStep => IInv'
<1> SUFFICES ASSUME IInv, LoopStep PROVE IInv'
  OBVIOUS
<1> USE DEF IInv, TypeOK, MapMatchesKernel, CtlAssertsHold, RoomForAll, BatchInv,
            SkippedInv, Alive, Goto, Step, Phases, Crashes, map_vars, kernel_vars
<1>1. CASE RunEventLoop \/ CallbackReturns \/ BatchDone \/ LoopReturns \/ WaitFails
  BY <1>1 DEF RunEventLoop, CallbackReturns, BatchDone, LoopReturns, WaitFails
<1>2. CASE Resize
  <2>1. /\ IsFiniteSet(fd_map) /\ Cardinality(fd_map) \in Nat
        /\ Cardinality(fd_map) <= Cardinality(Fds)
        /\ Cardinality(Fds) \in Nat
        /\ Cardinality(interest) <= Cardinality(fd_map)
    BY FdsAssumption, FS_Subset, FS_CardinalityType
  <2> QED BY <1>2, <2>1 DEF Resize, Step, Size
<1>3. CASE EpollWait
  <2>1. PICK S \in SUBSET {f \in Fds : CanReport(f)} :
          /\ batch' = S
          /\ taken' = taken \cup S
          /\ armed' = armed \ {f \in S : "ONESHOT" \in kev[f]}
          /\ edge' = edge \ {f \in S : "ET" \in kev[f]}
    BY <1>3 DEF EpollWait
  <2>2. /\ batch = {} /\ phase' = "dispatch"
        /\ UNCHANGED <<fd_map, events, enabled, static_events, interest, kev, ready,
                       cap, cur, crash>>
    BY <1>3 DEF EpollWait
  <2>3. S \subseteq Fds
    BY <2>1
  <2>4. TypeOK'
    BY <2>1, <2>2, <2>3
  <2>5. SkippedInv'
    BY <1>3, <2>1, <2>2 DEF EpollWait
  <2> QED BY <2>2, <2>4, <2>5
<1>4. CASE WaitTimesOut
  BY <1>4 DEF WaitTimesOut
<1>5. ASSUME NEW f \in Fds, Dispatch(f) PROVE IInv'
  BY <1>5 DEF Dispatch, Rest
<1> QED BY <1>1, <1>2, <1>3, <1>4, <1>5 DEF LoopStep

\* IInv is an invariant of the specification.
LEMMA IInvariant == Spec => []IInv
<1>1. Init => IInv
  <2>1. Cardinality(Fds) \in Nat
    BY FdsAssumption, FS_CardinalityType
  <2> QED BY <2>1 DEF Init, IInv, TypeOK, MapMatchesKernel, CtlAssertsHold,
               RoomForAll, BatchInv, SkippedInv, Phases, Crashes
<1>2. IInv /\ [Next]_vars => IInv'
  <2> SUFFICES ASSUME IInv, [Next]_vars PROVE IInv'
    OBVIOUS
  <2>1. ASSUME NEW type \in StaticTypes, RegisterStaticEvent(type) PROVE IInv'
    BY <2>1, IdleStep, CallPhase DEF RegisterStaticEvent, map_vars, IInv, TypeOK
  <2>2. ASSUME NEW f \in Fds, Drain(f) PROVE IInv'
    BY <2>2 DEF Drain, IInv, TypeOK, MapMatchesKernel, CtlAssertsHold, RoomForAll,
       BatchInv, SkippedInv, Alive, map_vars, kernel_vars, loop_vars
  <2>3. ASSUME NEW f \in Fds, NEW e \in Occurring, Arrive(f, e) PROVE IInv'
    BY <2>3, OccurringAssumption DEF Arrive, IInv, TypeOK, MapMatchesKernel,
       CtlAssertsHold, RoomForAll, BatchInv, SkippedInv, Alive, map_vars, loop_vars
  <2>4. CASE Destroy \/ Close
    BY <2>4 DEF Destroy, Close, Goto, Step, IInv, TypeOK, MapMatchesKernel, CtlAssertsHold,
       RoomForAll, BatchInv, SkippedInv, Alive, Phases, map_vars, kernel_vars
  <2>5. CASE WaitInterrupted \/ Finished \/ UNCHANGED vars
    BY <2>5 DEF WaitInterrupted, Finished, vars, IInv, TypeOK, MapMatchesKernel,
       CtlAssertsHold, RoomForAll, BatchInv, SkippedInv, Alive, map_vars, kernel_vars,
       loop_vars
  <2> QED BY <2>1, <2>2, <2>3, <2>4, <2>5, MapStepKeeps, LoopStepKeeps DEF Next
<1> QED BY <1>1, <1>2, PTL DEF Spec

-----------------------------------------------------------------------------
\* The variables keep their types for every finite set of descriptors.
THEOREM TypeCorrect == Spec => []TypeOK
<1>1. IInv => TypeOK
  BY DEF IInv
<1> QED BY <1>1, IInvariant, PTL

\* fd_map and the kernel's interest list agree in every reachable state.
THEOREM MapAgreesWithKernel == Spec => []MapMatchesKernel
<1>1. IInv => MapMatchesKernel
  BY DEF IInv
<1> QED BY <1>1, IInvariant, PTL

\* The assertions on errno in EnableFd and DisableFd hold.
THEOREM ErrnoAssertions == Spec => []CtlAssertsHold
<1>1. IInv => CtlAssertsHold
  BY DEF IInv
<1> QED BY <1>1, IInvariant, PTL

\* events_vec has room for every listed descriptor when epoll_wait is called.
THEOREM VectorLargeEnough == Spec => []RoomForAll
<1>1. IInv => RoomForAll
  BY DEF IInv
<1> QED BY <1>1, IInvariant, PTL

\* An event whose callback was skipped is reported again.
THEOREM EventsNotLost == Spec => []NoEventLost
<1>1. IInv => NoEventLost
  BY DEF IInv, SkippedInv, MapMatchesKernel, NoEventLost, CanReport, Wanted
<1> QED BY <1>1, IInvariant, PTL

-----------------------------------------------------------------------------
(* Well-behaved callbacks                                                  *)

\* What is asked of the clients: callbacks neither delete nor register nor
\* replace a callback, the flags are of the right kind, the wait is for ever.
WellBehaved ==
  /\ CallbackOps \cap {"RegisterFd", "DeleteFd", "ModifyFdCallback"} = {}
  /\ \A ev \in EventArgs : ev \cap ConfigFlags = {}
  /\ \A config \in ConfigArgs : config \cap (EventFlags \cup {"EXCLUSIVE"}) = {}
  /\ Timeout < 0

\* With clients like that the loop never fails an assertion, never throws and
\* never destroys a running callback.
THEOREM WellBehavedClientsSafe == WellBehaved => (Spec => []NoCrash)
<1> SUFFICES ASSUME WellBehaved PROVE Spec => []NoCrash
  OBVIOUS
<1> DEFINE Safe == crash = "none" /\ batch \subseteq fd_map
<1>1. Init => Safe
  BY DEF Init
<1>2. IInv /\ Safe /\ [Next]_vars => Safe'
  <2> SUFFICES ASSUME IInv, Safe, [Next]_vars PROVE Safe'
    OBVIOUS
  <2> USE DEF WellBehaved
  <2>1. ASSUME NEW f \in Fds, MapStep!(f) PROVE Safe'
    <3>1. ASSUME NEW ev \in EventArgs, NEW config \in ConfigArgs,
                 RegisterFd(f, ev, config)
          PROVE  Safe'
      <4>1. phase # "callback"
        BY <3>1, StaticAssumption DEF RegisterFd, MayCall, Hook, IInv, TypeOK
      <4> QED BY <3>1, <4>1 DEF RegisterFd, loop_vars, map_vars
    <3>2. CASE EnableFd(f)
      BY <3>2 DEF EnableFd, CanEnable, AddResult, IInv, MapMatchesKernel, loop_vars
    <3>3. CASE DisableFd(f)
      BY <3>3 DEF DisableFd, DelResult, IInv, MapMatchesKernel, loop_vars
    <3>4. CASE ModifyFdCallback(f)
      <4>1. phase # "callback"
        BY <3>4, StaticAssumption DEF ModifyFdCallback, MayCall, Hook, IInv, TypeOK
      <4> QED BY <3>4, <4>1 DEF ModifyFdCallback, DestroysCallback, loop_vars, map_vars
    <3>5. CASE DeleteFd(f)
      <4>1. phase \notin {"callback", "dispatch"}
        BY <3>5, StaticAssumption DEF DeleteFd, MayCall, Hook, IInv, TypeOK
      <4> QED BY <3>5, <4>1 DEF DeleteFd, DestroysCallback, IInv, BatchInv, loop_vars
    <3>6. ASSUME NEW ev \in EventArgs, ModifyFdEvents(f, ev) PROVE Safe'
      BY <3>6 DEF ModifyFdEvents, loop_vars
    <3>7. ASSUME NEW config \in ConfigArgs, ModifyFdConfig(f, config) PROVE Safe'
      BY <3>7 DEF ModifyFdConfig, loop_vars
    <3> QED BY <2>1, <3>1, <3>2, <3>3, <3>4, <3>5, <3>6, <3>7
  <2>2. CASE LoopStep
    <3>1. CASE EpollWait
      BY <3>1 DEF EpollWait, CanReport, IInv, MapMatchesKernel, TypeOK, map_vars
    <3>2. ASSUME NEW f \in Fds, Dispatch(f) PROVE Safe'
      BY <3>2 DEF Dispatch, Rest, map_vars
    <3>3. CASE \/ RunEventLoop \/ Resize \/ WaitTimesOut \/ WaitFails
               \/ CallbackReturns \/ BatchDone \/ LoopReturns
      BY <3>3, TimeoutAssumption DEF RunEventLoop, Step, Resize, WaitTimesOut, WaitFails,
         CallbackReturns, BatchDone, LoopReturns, map_vars
    <3> QED BY <2>2, <3>1, <3>2, <3>3 DEF LoopStep
  <2>3. ASSUME NEW type \in StaticTypes, RegisterStaticEvent(type) PROVE Safe'
    BY <2>3 DEF RegisterStaticEvent, map_vars, loop_vars
  <2>4. ASSUME NEW f \in Fds, Drain(f) \/ \E e \in Occurring : Arrive(f, e) PROVE Safe'
    BY <2>4 DEF Drain, Arrive, map_vars, loop_vars
  <2>5. CASE \/ Destroy \/ Close \/ WaitInterrupted \/ Finished \/ UNCHANGED vars
    BY <2>5 DEF Destroy, Close, Step, WaitInterrupted, Finished, vars, map_vars, loop_vars
  <2> QED BY <2>1, <2>2, <2>3, <2>4, <2>5 DEF Next, MapStep
<1>3. Safe => NoCrash
  BY DEF NoCrash
<1> QED BY <1>1, <1>2, <1>3, IInvariant, PTL DEF Spec
=============================================================================
