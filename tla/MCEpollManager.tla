--------------------------- MODULE MCEpollManager ---------------------------
(* EpollManager for TLC: the flag words a run passes, and all operations.  *)
EXTENDS EpollManager, TLC

FdSymmetry == Permutations(Fds)

\* Events and configs that a correct client passes.
GoodEvents  == {{"IN"}, {"OUT"}}
GoodConfigs == {{}, {"ET"}, {"ONESHOT"}}

\* With a config flag among the events, an event flag among the configs, and
\* EPOLLEXCLUSIVE, which cannot be modified.
AllEvents  == {{"IN"}, {"ET"}}
AllConfigs == {{}, {"ET"}, {"ONESHOT"}, {"EXCLUSIVE"}, {"OUT"}}

Readable == {"IN"}

AllOps == {"RegisterFd", "EnableFd", "DisableFd", "ModifyFdEvents",
           "ModifyFdConfig", "ModifyFdCallback", "DeleteFd", "RegisterStaticEvent"}
SafeOps == {"EnableFd", "DisableFd", "ModifyFdEvents", "ModifyFdConfig"}
Hooks == {"Pre", "Post", "Exit"}
PreHook == {"Pre"}
Forever == -1
=============================================================================
