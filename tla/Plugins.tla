------------------------------ MODULE Plugins -------------------------------
(***************************************************************************)
(* Command plugins.  Each server keeps the plugins it has loaded in        *)
(* plugins_map and their commands in user_command_map, each map under a    *)
(* shared_mutex of its own; only the server's thread uses them.  The       *)
(* libraries themselves belong to the process: dlopen counts how often     *)
(* each one is open, and takes its code away at zero, under whatever entry *)
(* still points into it.  So the threads meet in the counts, and a thread  *)
(* meets itself in the locks, which are not recursive.                     *)
(*                                                                         *)
(* A thread's step ends where another thread's could come in between or    *)
(* where it waits for a lock.  dlopen and the body of a plugin's command   *)
(* are external.  The replies to the user are left out.                    *)
(***************************************************************************)
EXTENDS Integers, FiniteSets

CONSTANTS
  Servers,    \* servers, each with its thread
  Libs,       \* libraries dlopen may find in the working directory
  Plugins,    \* those of them that were built with DECLARE_PLUGIN
  Names,      \* command names
  Exports,    \* the names in the COMMAND_VECTOR of each library
  Builtins,   \* names of built-in commands
  None        \* no library

ASSUME LibsAssumption == Plugins \subseteq Libs /\ None \notin Libs
ASSUME NamesAssumption ==
  Builtins \subseteq Names /\ Exports \in [Libs -> SUBSET Names]
ASSUME FiniteAssumption == IsFiniteSet(Servers)

VARIABLES
  plugins_map,        \* per server: libraries with an entry (and a handle) in it
  user_command_map,   \* per server and name: the library of the callback, or None
  plugins_map_mtx,    \* per server: "free", "shared" or "unique"
  user_command_mtx,   \* per server: likewise
  pc,                 \* per server: where its thread is
  lib,                \* per server: the library its thread is working on
  refs,               \* per library: how often it is open in the process
  crash               \* the assertion that failed, or "none"

maps  == <<plugins_map, user_command_map>>
locks == <<plugins_map_mtx, user_command_mtx>>
vars  == <<maps, locks, pc, lib, refs, crash>>

PCs == {"idle", "register", "insert", "remove", "erase", "running", "helping",
        "gone"}
LockStates == {"free", "shared", "unique"}

Alive == crash = "none"

At(s, place) == Alive /\ pc[s] = place
Goto(s, place) == pc' = [pc EXCEPT ![s] = place]

-----------------------------------------------------------------------------
(* Handles                                                                 *)

\* dlopen of a library that is there.
OpenHandle(l) == refs' = [refs EXCEPT ![l] = @ + 1]

CloseHandle(l) == refs' = [refs EXCEPT ![l] = @ - 1]

\* dlsym finds the registration, deletion and help functions.
GetFunc(l) == l \in Plugins

-----------------------------------------------------------------------------
(* Loading                                                                 *)

\* Mutant: BuiltinPrivMsg takes the shared lock before it knows the command.
LoadUnderLock(s, l) ==
  /\ At(s, "idle")
  /\ user_command_mtx[s] = "free"
  /\ user_command_mtx' = [user_command_mtx EXCEPT ![s] = "shared"]
  /\ OpenHandle(l)
  /\ Goto(s, "register")
  /\ lib' = [lib EXCEPT ![s] = l]
  /\ UNCHANGED <<maps, plugins_map_mtx, crash>>

\* BuiltinCommandLoadPlugin as far as OpenHandle; when that fails nothing has
\* changed but for the reply.
LoadPlugin(s, l) ==
  /\ At(s, "idle")
  /\ OpenHandle(l)
  /\ Goto(s, "register")
  /\ lib' = [lib EXCEPT ![s] = l]
  /\ UNCHANGED <<maps, locks, crash>>

\* Mutant: the last command of the vector is left out.
AddPluginCommandsButOne(s, l) ==
  \E last \in Exports[l] :
    user_command_map' = [user_command_map EXCEPT ![s] =
      [n \in Names |-> IF n \in Exports[l] \ {last} /\ @[n] = None THEN l ELSE @[n]]]

\* Insertion leaves a name alone that another plugin has taken.
AddPluginCommands(s, l) ==
  user_command_map' = [user_command_map EXCEPT ![s] =
    [n \in Names |-> IF n \in Exports[l] /\ @[n] = None THEN l ELSE @[n]]]

\* The registration function, which the plugin has to have.
Register(s) ==
  /\ At(s, "register")
  /\ \/ /\ ~GetFunc(lib[s])
        /\ crash' = "assert_reg_func"
        /\ UNCHANGED <<user_command_map, pc>>
     \/ /\ GetFunc(lib[s])
        /\ user_command_mtx[s] = "free"
        /\ AddPluginCommands(s, lib[s])
        /\ Goto(s, "insert")
        /\ UNCHANGED crash
  /\ UNCHANGED <<plugins_map, locks, lib, refs>>

\* Mutant: the move constructor copies the handle, so the local closes it too.
InsertCopy(s) ==
  /\ At(s, "insert")
  /\ plugins_map_mtx[s] = "free"
  /\ plugins_map' = [plugins_map EXCEPT ![s] = @ \cup {lib[s]}]
  /\ CloseHandle(lib[s])
  /\ Goto(s, "idle")
  /\ UNCHANGED <<user_command_map, locks, lib, crash>>

\* The handle moves into the map; if the plugin is there already, nothing is
\* inserted and the temporary closes the second handle.
Insert(s) ==
  /\ At(s, "insert")
  /\ plugins_map_mtx[s] = "free"
  /\ plugins_map' = [plugins_map EXCEPT ![s] = @ \cup {lib[s]}]
  /\ IF lib[s] \in plugins_map[s] THEN CloseHandle(lib[s]) ELSE UNCHANGED refs
  /\ Goto(s, "idle")
  /\ UNCHANGED <<user_command_map, locks, lib, crash>>

-----------------------------------------------------------------------------
(* Unloading                                                               *)

\* BuiltinCommandUnloadPlugin as far as the deletion function.
UnloadPlugin(s, l) ==
  /\ At(s, "idle")
  /\ plugins_map_mtx[s] = "free"
  /\ l \in plugins_map[s]
  /\ plugins_map_mtx' = [plugins_map_mtx EXCEPT ![s] = "unique"]
  /\ Goto(s, "remove")
  /\ lib' = [lib EXCEPT ![s] = l]
  /\ UNCHANGED <<maps, user_command_mtx, refs, crash>>

\* Mutant: names that another loaded plugin has too are kept for that one.
RemoveUnshared(s) ==
  /\ At(s, "remove")
  /\ user_command_mtx[s] = "free"
  /\ user_command_map' = [user_command_map EXCEPT ![s] =
       [n \in Names |->
          IF /\ n \in Exports[lib[s]]
             /\ \A k \in plugins_map[s] \ {lib[s]} : n \notin Exports[k]
          THEN None ELSE @[n]]]
  /\ Goto(s, "erase")
  /\ UNCHANGED <<plugins_map, locks, lib, refs, crash>>

\* The deletion function erases the plugin's names, whoever owns them.
RemovePluginCommands(s) ==
  /\ At(s, "remove")
  /\ user_command_mtx[s] = "free"
  /\ user_command_map' = [user_command_map EXCEPT ![s] =
       [n \in Names |-> IF n \in Exports[lib[s]] THEN None ELSE @[n]]]
  /\ Goto(s, "erase")
  /\ UNCHANGED <<plugins_map, locks, lib, refs, crash>>

\* The entry and its handle go, then the lock.
Erase(s) ==
  /\ At(s, "erase")
  /\ plugins_map' = [plugins_map EXCEPT ![s] = @ \ {lib[s]}]
  /\ CloseHandle(lib[s])
  /\ plugins_map_mtx' = [plugins_map_mtx EXCEPT ![s] = "free"]
  /\ Goto(s, "idle")
  /\ UNCHANGED <<user_command_map, user_command_mtx, lib, crash>>

-----------------------------------------------------------------------------
(* Commands of plugins                                                     *)

\* BuiltinPrivMsg for a name the built-in table does not have.
Call(s, n) ==
  /\ At(s, "idle")
  /\ n \notin Builtins
  /\ user_command_mtx[s] = "free"
  /\ user_command_map[s][n] # None
  /\ user_command_mtx' = [user_command_mtx EXCEPT ![s] = "shared"]
  /\ Goto(s, "running")
  /\ lib' = [lib EXCEPT ![s] = user_command_map[s][n]]
  /\ UNCHANGED <<maps, plugins_map_mtx, refs, crash>>

\* The plugin's command returns; the caller drops the lock.
CallReturns(s) ==
  /\ At(s, "running")
  /\ user_command_mtx' = [user_command_mtx EXCEPT ![s] = "free"]
  /\ Goto(s, "idle")
  /\ UNCHANGED <<maps, plugins_map_mtx, lib, refs, crash>>

\* BuiltinCommandHelp for a loaded plugin runs the plugin's help function.
Help(s, l) ==
  /\ At(s, "idle")
  /\ plugins_map_mtx[s] = "free"
  /\ l \in plugins_map[s]
  /\ plugins_map_mtx' = [plugins_map_mtx EXCEPT ![s] = "shared"]
  /\ Goto(s, "helping")
  /\ lib' = [lib EXCEPT ![s] = l]
  /\ UNCHANGED <<maps, user_command_mtx, refs, crash>>

\* It looks up the help command itself in the plugin's table, which throws; the
\* handler in BuiltinPrivMsg catches that, and the lock is dropped on the way.
HelpThrows(s) ==
  /\ At(s, "helping")
  /\ plugins_map_mtx' = [plugins_map_mtx EXCEPT ![s] = "free"]
  /\ Goto(s, "idle")
  /\ UNCHANGED <<maps, user_command_mtx, lib, refs, crash>>

\* The server is destroyed, and with its plugins_map all the handles in it.
DestroyServer(s) ==
  /\ At(s, "idle")
  /\ refs' = [l \in Libs |-> IF l \in plugins_map[s] THEN refs[l] - 1 ELSE refs[l]]
  /\ plugins_map' = [plugins_map EXCEPT ![s] = {}]
  /\ user_command_map' = [user_command_map EXCEPT ![s] = [n \in Names |-> None]]
  /\ Goto(s, "gone")
  /\ UNCHANGED <<locks, lib, crash>>

-----------------------------------------------------------------------------
Init ==
  /\ plugins_map = [s \in Servers |-> {}]
  /\ user_command_map = [s \in Servers |-> [n \in Names |-> None]]
  /\ plugins_map_mtx = [s \in Servers |-> "free"]
  /\ user_command_mtx = [s \in Servers |-> "free"]
  /\ pc = [s \in Servers |-> "idle"]
  /\ lib = [s \in Servers |-> None]
  /\ refs = [l \in Libs |-> 0]
  /\ crash = "none"

\* A message to the server, or its end.
Request(s) ==
  \/ \E l \in Libs : LoadPlugin(s, l) \/ UnloadPlugin(s, l) \/ Help(s, l)
  \/ \E n \in Names : Call(s, n)
  \/ DestroyServer(s)

\* What a thread does with the request it is at.
ThreadStep(s) ==
  \/ Register(s) \/ Insert(s)
  \/ RemovePluginCommands(s) \/ Erase(s)
  \/ CallReturns(s) \/ HelpThrows(s)

Next == \E s \in Servers : Request(s) \/ ThreadStep(s)

\* Threads are scheduled, and a plugin's command returns.  Nobody has to ask
\* for anything.
Spec == Init /\ [][Next]_vars /\ \A s \in Servers : WF_vars(ThreadStep(s))

-----------------------------------------------------------------------------
(* Properties                                                              *)

\* Every variable stays in its type.  Only libraries that have the functions of
\* a plugin get into the maps, so that the deletion function and the help
\* function, whose results are asserted or just called, are found.
TypeOK ==
  /\ plugins_map \in [Servers -> SUBSET Plugins]
  /\ user_command_map \in [Servers -> [Names -> Plugins \cup {None}]]
  /\ plugins_map_mtx \in [Servers -> LockStates]
  /\ user_command_mtx \in [Servers -> LockStates]
  /\ pc \in [Servers -> PCs]
  /\ lib \in [Servers -> Libs \cup {None}]
  /\ refs \in [Libs -> Int]
  /\ crash \in {"none", "assert_reg_func"}

\* A thread that loads l holds a handle of its own until it is in the map.
Loading(s, l) == pc[s] \in {"register", "insert"} /\ lib[s] = l

\* The handles of a library: those in the maps and those on their way there.
Handles(l) ==
  {<<s, "map">> : s \in {t \in Servers : l \in plugins_map[t]}}
    \cup {<<s, "local">> : s \in {t \in Servers : Loading(t, l)}}

\* dlopen and dlclose balance: a library is open exactly as often as servers
\* hold a handle of it, through loads of what is loaded already, unloads on
\* other servers and the end of servers.
RefsAccounted == \A l \in Libs : refs[l] = Cardinality(Handles(l))

\* The maps hold plugins only, and exactly the handles that are open.
HandlesInv == TypeOK /\ RefsAccounted

\* No entry of user_command_map points into a library that is gone, and no
\* code of such a library is run, however the loads and unloads of several
\* servers and of plugins with common names interleave.
CallbacksMapped ==
  \A s \in Servers :
    /\ \A n \in Names :
         LET l == user_command_map[s][n]
         IN l # None => refs[l] > 0 /\ (l \in plugins_map[s] \/ Loading(s, l))
    /\ pc[s] \in {"remove", "running", "helping"} =>
         refs[lib[s]] > 0 /\ lib[s] \in plugins_map[s]

\* The names that no other plugin exports.
OwnNames(l) == {n \in Exports[l] : \A k \in Plugins \ {l} : n \notin Exports[k]}

\* A loaded plugin answers to its own names: they are in user_command_map as
\* long as the plugin is loaded, and not longer.  (A name that two plugins have
\* is lost to both when either is unloaded.)
LoadedCommandsAvailable ==
  \A s \in Servers, l \in Plugins : \A n \in OwnNames(l) :
    user_command_map[s][n] = l <=>
      \/ l \in plugins_map[s] /\ ~(pc[s] = "erase" /\ lib[s] = l)
      \/ pc[s] = "insert" /\ lib[s] = l

\* Loading, unloading, help and plugin commands come to an end: no thread waits
\* for a lock it holds itself, which is what the comment in BuiltinPrivMsg
\* warns of.
CommandFinishes ==
  \A s \in Servers : pc[s] # "idle" ~> pc[s] \in {"idle", "gone"} \/ ~Alive
=============================================================================
