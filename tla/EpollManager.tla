---------------------------- MODULE EpollManager ----------------------------
(***************************************************************************)
(* io::EpollManager: a map of registered descriptors kept next to the      *)
(* kernel's interest list, and RunEventLoop, which harvests a batch of     *)
(* events and calls the registered callbacks.  Callbacks get at the        *)
(* manager again and change the map in the middle of the batch; that is    *)
(* where the map, the kernel and the batch can come apart.                 *)
(*                                                                         *)
(* An epoll_event's event word is the set of its flags.  Which functor a   *)
(* descriptor's callback is makes no difference here; whether the one that *)
(* runs is destroyed does.  The kernel's side is external: what epoll_ctl  *)
(* and epoll_wait do to the interest list.  Clients delete a descriptor    *)
(* before they close it, as WorkerRun does, and callbacks do not call      *)
(* RunEventLoop again.                                                     *)
(***************************************************************************)
EXTENDS Integers, FiniteSets

CONSTANTS
  Fds,          \* descriptors clients may register
  EventArgs,    \* event words passed to RegisterFd and ModifyFdEvents
  ConfigArgs,   \* config words passed to RegisterFd and ModifyFdConfig
  Occurring,    \* events that happen on the descriptors
  CallbackOps,  \* operations that descriptor callbacks call
  StaticTypes,  \* static events clients register
  Timeout       \* the argument of RunEventLoop

EventFlags  == {"IN", "OUT", "RDHUP", "PRI", "ERR"}
ConfigFlags == {"ET", "ONESHOT", "WAKEUP", "EXCLUSIVE"}
Flags == EventFlags \cup ConfigFlags

ASSUME FdsAssumption == IsFiniteSet(Fds)
ASSUME ArgsAssumption ==
  EventArgs \subseteq SUBSET Flags /\ ConfigArgs \subseteq SUBSET Flags
ASSUME OccurringAssumption == Occurring \subseteq EventFlags
ASSUME StaticAssumption == StaticTypes \subseteq {"Pre", "Post", "Exit"}
ASSUME TimeoutAssumption == Timeout \in Int

VARIABLES
  fd_map,         \* keys of fd_map
  events,         \* EpollContext::ev.events of every key
  enabled,        \* keys whose EpollContext::enabled is true
  static_events,  \* the types with a registered static event
  interest,       \* kernel: descriptors on the interest list
  kev,            \* kernel: the event word of each of them
  armed,          \* kernel: those a one-shot delivery has not silenced
  edge,           \* kernel: descriptors with an edge not yet reported
  ready,          \* kernel: the events each descriptor is ready for
  phase,          \* where RunEventLoop is, "idle" outside of it
  cap,            \* events_vec.size()
  batch,          \* harvested events the loop has not come to yet
  cur,            \* the descriptor whose callback was called last
  taken,          \* history: harvested, and no callback called since
  crash           \* why the process died, "none" while it lives

map_vars    == <<fd_map, events, enabled>>
kernel_vars == <<interest, kev, armed, edge>>
loop_vars   == <<phase, cap, batch, cur, taken>>
vars == <<map_vars, static_events, kernel_vars, ready, loop_vars, crash>>

Phases == {"idle", "pre", "wait", "dispatch", "callback", "post", "exit", "dead"}
Crashes == {"none", "assert_eexist", "assert_enoent", "assert_r", "assert_find",
            "logic_error", "uaf"}

Alive == crash = "none" /\ phase # "dead"

\* The phase in which the callbacks of a static event run.
Hook == [Pre |-> "pre", Post |-> "post", Exit |-> "exit"]

\* Clients act between two loops and from inside callbacks.
MayCall(op) ==
  /\ Alive
  /\ \/ phase = "idle"
     \/ \E type \in static_events : phase = Hook[type]
     \/ phase = "callback" /\ op \in CallbackOps

\* The outcomes of destroying the functor of descriptor f: undefined when f's
\* callback is the one running.
DestroysCallback(f) ==
  IF phase = "callback" /\ cur = f THEN {"none", "uaf"} ELSE {"none"}

-----------------------------------------------------------------------------
(* The kernel                                                              *)

\* Errors and hang-ups are reported without being asked for.
Wanted(f) == (kev[f] \cap EventFlags) \cup {"ERR"}

CanReport(f) ==
  /\ f \in interest \cap armed
  /\ ready[f] \cap Wanted(f) # {}
  /\ "ET" \in kev[f] => f \in edge

BadExclusive(ev) ==
  "EXCLUSIVE" \in ev /\ ev \cap {"RDHUP", "PRI", "ONESHOT"} # {}

\* What epoll_ctl may return; ENOSPC stands for the limits it may run into.
AddResult(f, ev) ==
  IF BadExclusive(ev) THEN {"EINVAL"}
  ELSE IF f \in interest THEN {"EEXIST"} ELSE {"ok", "ENOSPC"}

ModResult(f, ev) ==
  IF "EXCLUSIVE" \in ev THEN {"EINVAL"}
  ELSE IF f \notin interest THEN {"ENOENT"}
  ELSE IF "EXCLUSIVE" \in kev[f] THEN {"EINVAL"} ELSE {"ok", "ENOSPC"}

DelResult(f) == IF f \notin interest THEN {"ENOENT"} ELSE {"ok"}

\* ADD and MOD look at the descriptor again and forget an earlier one-shot.
SetInterest(f, ev) ==
  /\ interest' = interest \cup {f}
  /\ kev' = [kev EXCEPT ![f] = ev]
  /\ armed' = armed \cup {f}
  /\ edge' = edge \cup {f}

DropInterest(f) ==
  /\ interest' = interest \ {f}
  /\ kev' = [kev EXCEPT ![f] = {}]
  /\ armed' = armed \ {f}
  /\ edge' = edge \ {f}

\* The world outside: data arrives, or somebody reads it all.
Arrive(f, e) ==
  /\ Alive
  /\ ready' = [ready EXCEPT ![f] = @ \cup {e}]
  /\ edge' = IF f \in interest THEN edge \cup {f} ELSE edge
  /\ UNCHANGED <<map_vars, static_events, interest, kev, armed, loop_vars, crash>>

Drain(f) ==
  /\ Alive
  /\ ready[f] # {}
  /\ ready' = [ready EXCEPT ![f] = {}]
  /\ UNCHANGED <<map_vars, static_events, kernel_vars, loop_vars, crash>>

-----------------------------------------------------------------------------
(* The operations on the map                                               *)

\* EpollContext::GetConfigMask and GetEventMask.
GetConfigMask(ev) == ev \cap {"ET", "ONESHOT", "WAKEUP", "EXCLUSIVE"}
GetEventMask(ev)  == ev \cap {"IN", "OUT", "RDHUP", "PRI"}

\* A successful insertion may rehash the map and move the running functor.
RegisterFd(f, ev, config) ==
  /\ MayCall("RegisterFd")
  /\ f \notin fd_map
  /\ \E r \in AddResult(f, ev \cup config) :
       \/ /\ r = "ok"
          /\ SetInterest(f, ev \cup config)
          /\ fd_map' = fd_map \cup {f}
          /\ events' = [events EXCEPT ![f] = ev \cup config]
          /\ enabled' = enabled \cup {f}
          /\ crash' \in IF phase = "callback" THEN {"none", "uaf"} ELSE {"none"}
       \/ r # "ok" /\ UNCHANGED <<map_vars, kernel_vars, crash>>
  /\ UNCHANGED <<static_events, ready, loop_vars>>

\* Mutant: EnableFd does not look whether the descriptor is enabled already.
CanEnableAny(f) == f \in fd_map

CanEnable(f) == f \in fd_map \ enabled

\* An enabled descriptor is left as it is, a silenced one-shot too.
EnableFd(f) ==
  /\ MayCall("EnableFd")
  /\ CanEnable(f)
  /\ \E r \in AddResult(f, events[f]) :
       \/ /\ r = "ok"
          /\ SetInterest(f, events[f])
          /\ enabled' = enabled \cup {f}
          /\ UNCHANGED crash
       \/ /\ r # "ok"
          /\ crash' = IF r = "EEXIST" THEN "assert_eexist" ELSE crash
          /\ UNCHANGED <<enabled, kernel_vars>>
  /\ UNCHANGED <<fd_map, events, static_events, ready, loop_vars>>

\* Mutant: DisableFd forgets the descriptor altogether.
DisableErases(f) ==
  /\ MayCall("DisableFd")
  /\ f \in fd_map \cap enabled
  /\ DropInterest(f)
  /\ enabled' = enabled \ {f}
  /\ fd_map' = fd_map \ {f}
  /\ UNCHANGED <<events, static_events, ready, loop_vars, crash>>

DisableFd(f) ==
  /\ MayCall("DisableFd")
  /\ f \in fd_map \cap enabled
  /\ \E r \in DelResult(f) :
       \/ /\ r = "ok"
          /\ DropInterest(f)
          /\ enabled' = enabled \ {f}
          /\ UNCHANGED crash
       \/ /\ r # "ok"
          /\ crash' = IF r = "ENOENT" THEN "assert_enoent" ELSE crash
          /\ UNCHANGED <<enabled, kernel_vars>>
  /\ UNCHANGED <<fd_map, events, static_events, ready, loop_vars>>

\* Mutant: the context is updated before the outcome of epoll_ctl is known.
ModifyEarly(f, ev) ==
  /\ f \in fd_map
  /\ events' = [events EXCEPT ![f] = ev]
  /\ \E r \in ModResult(f, ev) :
       \/ r = "ok" /\ SetInterest(f, ev)
       \/ r # "ok" /\ UNCHANGED kernel_vars

\* EPOLL_CTL_MOD with the new word, and the context follows on success.
Modify(f, ev) ==
  /\ f \in fd_map
  /\ \E r \in ModResult(f, ev) :
       \/ r = "ok" /\ SetInterest(f, ev) /\ events' = [events EXCEPT ![f] = ev]
       \/ r # "ok" /\ UNCHANGED <<events, kernel_vars>>

\* The exceptions of the two Modify operations: nobody catches a logic_error.
Throw ==
  /\ crash' = "logic_error"
  /\ UNCHANGED <<events, kernel_vars>>

ModifyFdEvents(f, ev) ==
  /\ MayCall("ModifyFdEvents")
  /\ \/ ev \cap ConfigFlags # {} /\ Throw
     \/ /\ ev \cap ConfigFlags = {}
        /\ Modify(f, GetConfigMask(events[f]) \cup ev)
        /\ UNCHANGED crash
  /\ UNCHANGED <<fd_map, enabled, static_events, ready, loop_vars>>

ModifyFdConfig(f, config) ==
  /\ MayCall("ModifyFdConfig")
  /\ \/ config \cap (EventFlags \cup {"EXCLUSIVE"}) # {} /\ Throw
     \/ /\ config \cap (EventFlags \cup {"EXCLUSIVE"}) = {}
        /\ Modify(f, GetEventMask(events[f]) \cup config)
        /\ UNCHANGED crash
  /\ UNCHANGED <<fd_map, enabled, static_events, ready, loop_vars>>

ModifyFdCallback(f) ==
  /\ MayCall("ModifyFdCallback")
  /\ f \in fd_map
  /\ crash' \in DestroysCallback(f)
  /\ UNCHANGED <<map_vars, static_events, kernel_vars, ready, loop_vars>>

\* The key is erased first; EPOLL_CTL_DEL fails on a disabled descriptor.
DeleteFd(f) ==
  /\ MayCall("DeleteFd")
  /\ f \in fd_map
  /\ fd_map' = fd_map \ {f}
  /\ events' = [events EXCEPT ![f] = {}]
  /\ enabled' = enabled \ {f}
  /\ \E r \in DelResult(f) :
       \/ r = "ok" /\ DropInterest(f)
       \/ r # "ok" /\ UNCHANGED kernel_vars
  /\ crash' \in DestroysCallback(f)
  /\ UNCHANGED <<static_events, ready, loop_vars>>

\* Appending to the vector that is being iterated is left out.
RegisterStaticEvent(type) ==
  /\ MayCall("RegisterStaticEvent")
  /\ phase # Hook[type]
  /\ static_events' = static_events \cup {type}
  /\ UNCHANGED <<map_vars, kernel_vars, ready, loop_vars, crash>>

-----------------------------------------------------------------------------
(* RunEventLoop                                                            *)

Goto(here, there) == Alive /\ phase = here /\ phase' = there

\* The loop goes on without touching anything else.
Step(here, there) ==
  /\ Goto(here, there)
  /\ UNCHANGED <<map_vars, static_events, kernel_vars, ready, cap, batch, cur,
                 taken, crash>>

RunEventLoop == Step("idle", "pre")

\* Mutant: the vector keeps the size of an earlier, smaller map.
OldSize == IF fd_map = {} THEN 0 ELSE 1

\* Mutant: one slot too many.
SizePlusOne == Cardinality(fd_map) + 1

\* The argument of events_vec.resize.
Size == Cardinality(fd_map)

\* The static pre callbacks ran in phase "pre"; events_vec follows the map.
Resize ==
  /\ Goto("pre", "wait")
  /\ cap' = Size
  /\ UNCHANGED <<map_vars, static_events, kernel_vars, ready, batch, cur,
                 taken, crash>>

\* epoll_wait reports at most cap descriptors.
EpollWait ==
  /\ Goto("wait", "dispatch")
  /\ \E S \in SUBSET {f \in Fds : CanReport(f)} :
       /\ S # {} /\ Cardinality(S) <= cap
       /\ Cardinality(S) = cap \/ \A f \in Fds : CanReport(f) => f \in S
       /\ batch' = S
       /\ taken' = taken \cup S
       /\ armed' = armed \ {f \in S : "ONESHOT" \in kev[f]}
       /\ edge' = edge \ {f \in S : "ET" \in kev[f]}
  /\ UNCHANGED <<map_vars, static_events, interest, kev, ready, cap, cur, crash>>

\* A wait that is not for ever may report nothing: assert(r).
WaitTimesOut ==
  /\ Timeout >= 0 /\ cap > 0
  /\ Goto("wait", "dispatch")
  /\ {f \in Fds : CanReport(f)} = {}
  /\ crash' = "assert_r"
  /\ UNCHANGED <<map_vars, static_events, kernel_vars, ready, cap, batch, cur, taken>>

\* EINTR: the loop waits again.
WaitInterrupted ==
  /\ Alive
  /\ phase = "wait"
  /\ UNCHANGED vars

\* A vector of no events is an invalid argument, and RunEventLoop returns -1
\* without its post callbacks.
WaitFails == cap = 0 /\ Step("wait", "idle")

\* Mutant: the break that leaves the outer loop leaves the inner one, after the
\* first callback.
RestNone(f) == IF f \in enabled THEN {} ELSE batch \ {f}

\* What is left of the batch after f.
Rest(f) == batch \ {f}

\* One iteration of the loop over the batch.  The kernel's order of the
\* events is not known: the next one is any of them.
Dispatch(f) ==
  /\ Alive
  /\ phase = "dispatch"
  /\ f \in batch
  /\ batch' = Rest(f)
  /\ \/ /\ f \notin fd_map
        /\ crash' = "assert_find"
        /\ UNCHANGED <<phase, cur, taken>>
     \/ /\ f \in fd_map \ enabled
        /\ UNCHANGED <<phase, cur, taken, crash>>
     \/ /\ f \in fd_map \cap enabled
        /\ phase' = "callback"
        /\ cur' = f
        /\ taken' = taken \ {f}
        /\ UNCHANGED crash
  /\ UNCHANGED <<map_vars, static_events, kernel_vars, ready, cap>>

CallbackReturns == Step("callback", "dispatch")

BatchDone == batch = {} /\ Step("dispatch", "post")

\* RunEventLoop returns 0 after the static post callbacks.
LoopReturns == Step("post", "idle")

\* ~EpollManager: the exit callbacks, which may still use the manager ...
Destroy == Step("idle", "exit")

\* ... and the close of the epoll descriptor.
Close == Step("exit", "dead")

-----------------------------------------------------------------------------
Init ==
  /\ fd_map = {}
  /\ events = [f \in Fds |-> {}]
  /\ enabled = {}
  /\ static_events = {}
  /\ interest = {}
  /\ kev = [f \in Fds |-> {}]
  /\ armed = {}
  /\ edge = {}
  /\ ready = [f \in Fds |-> {}]
  /\ phase = "idle"
  /\ cap = 0
  /\ batch = {}
  /\ cur \in Fds
  /\ taken = {}
  /\ crash = "none"

MapStep ==
  \E f \in Fds :
    \/ \E ev \in EventArgs, config \in ConfigArgs : RegisterFd(f, ev, config)
    \/ EnableFd(f) \/ DisableFd(f) \/ ModifyFdCallback(f) \/ DeleteFd(f)
    \/ \E ev \in EventArgs : ModifyFdEvents(f, ev)
    \/ \E config \in ConfigArgs : ModifyFdConfig(f, config)

LoopStep ==
  \/ RunEventLoop \/ Resize \/ EpollWait \/ WaitTimesOut \/ WaitFails
  \/ \E f \in Fds : Dispatch(f)
  \/ CallbackReturns \/ BatchDone \/ LoopReturns

\* The manager is gone, or the process is.
Finished == ~Alive /\ UNCHANGED vars

Next ==
  \/ MapStep
  \/ \E type \in StaticTypes : RegisterStaticEvent(type)
  \/ LoopStep
  \/ WaitInterrupted
  \/ \E f \in Fds : Drain(f) \/ \E e \in Occurring : Arrive(f, e)
  \/ Destroy \/ Close
  \/ Finished

\* WorkerRun calls RunEventLoop again and again, and callbacks return.
Spec == Init /\ [][Next]_vars /\ WF_vars(LoopStep)

-----------------------------------------------------------------------------
(* Properties                                                              *)

\* Every variable stays in its type; events_vec never outgrows the set of
\* descriptors, and the kernel's sets stay within the interest list.
TypeOK ==
  /\ fd_map \subseteq Fds
  /\ events \in [Fds -> SUBSET Flags]
  /\ enabled \subseteq fd_map
  /\ static_events \subseteq StaticTypes
  /\ interest \subseteq Fds
  /\ kev \in [Fds -> SUBSET Flags]
  /\ armed \subseteq interest
  /\ edge \subseteq interest
  /\ ready \in [Fds -> SUBSET EventFlags]
  /\ phase \in Phases
  /\ cap \in 0..Cardinality(Fds)
  /\ batch \subseteq Fds
  /\ cur \in Fds
  /\ taken \subseteq Fds
  /\ crash \in Crashes

\* The kernel's interest list holds exactly the enabled descriptors of
\* fd_map, with the very flags their contexts record, whatever mixture of
\* operations, failed epoll_ctl calls and callbacks came before.
MapMatchesKernel ==
  /\ interest = enabled
  /\ \A f \in interest : kev[f] = events[f]

\* The assertions on errno in EnableFd and DisableFd never fail: EPOLL_CTL_ADD
\* never meets a listed descriptor and EPOLL_CTL_DEL never an unlisted one.
CtlAssertsHold == crash \notin {"assert_eexist", "assert_enoent"}

\* When epoll_wait is called there is room in events_vec for every listed
\* descriptor, also after pre callbacks registered more of them.
RoomForAll == phase = "wait" => Cardinality(interest) <= cap

\* No event taken from the kernel is lost: if the callback was not called
\* because the descriptor was disabled in the middle of the batch, then once
\* it is enabled again, and still ready, the kernel will report it again.
NoEventLost ==
  Alive =>
    \A f \in taken \ batch :
      f \in enabled /\ ready[f] \cap Wanted(f) # {} => CanReport(f)

\* A callback that only enables, disables and modifies descriptors cannot
\* bring the loop down.
NoCrash == crash = "none"

\* No descriptor starves: one the kernel can report gets its callback called,
\* unless it stops being reportable or the manager goes away.
ReadyFdServed ==
  \A f \in Fds :
    CanReport(f) ~> \/ phase = "callback" /\ cur = f
                    \/ ~CanReport(f)
                    \/ ~Alive \/ phase = "exit"
=============================================================================
