--------------------------- MODULE PluginsProofs ----------------------------
(***************************************************************************)
(* Proof that the handles of the libraries balance and that no server runs *)
(* code of a library that is gone, for every number of servers, libraries  *)
(* and names and whatever names the plugins have in common.                *)
(***************************************************************************)
EXTENDS Plugins, FiniteSetTheorems, TLAPS

\* What a thread works on is a library, a plugin once the registration
\* function was found, and in plugins_map while the thread uses its code.
LibInv ==
  \A s \in Servers :
    /\ pc[s] = "register" => lib[s] \in Libs
    /\ pc[s] = "insert" => lib[s] \in Plugins
    /\ pc[s] \in {"remove", "erase", "running", "helping"} => lib[s] \in plugins_map[s]

\* An entry belongs to a plugin that exports its name and that is in
\* plugins_map or about to be, and that is not about to leave it.
EntryInv ==
  \A s \in Servers, n \in Names :
    user_command_map[s][n] # None =>
      /\ n \in Exports[user_command_map[s][n]]
      /\ \/ user_command_map[s][n] \in plugins_map[s]
         \/ pc[s] = "insert" /\ lib[s] = user_command_map[s][n]
      /\ pc[s] = "erase" => user_command_map[s][n] # lib[s]

\* The names only one plugin has are there while it is loaded.
OwnInv ==
  \A s \in Servers, l \in Plugins : \A n \in OwnNames(l) :
    \/ l \in plugins_map[s] /\ ~(pc[s] = "erase" /\ lib[s] = l)
    \/ pc[s] = "insert" /\ lib[s] = l
    => user_command_map[s][n] = l

\* RefsAccounted with the finiteness that makes Cardinality mean something.
CountInv ==
  \A l \in Libs : IsFiniteSet(Handles(l)) /\ refs[l] = Cardinality(Handles(l))

IInv == TypeOK /\ LibInv /\ EntryInv /\ OwnInv /\ CountInv

-----------------------------------------------------------------------------
\* The members of Handles, one by one.
LEMMA HandlesMembers ==
  ASSUME NEW l
  PROVE  /\ \A s \in Servers : <<s, "map">> \in Handles(l) <=> l \in plugins_map[s]
         /\ \A s \in Servers : <<s, "local">> \in Handles(l) <=> Loading(s, l)
         /\ \A x \in Handles(l) : \E s \in Servers : x = <<s, "map">> \/ x = <<s, "local">>
BY DEF Handles

\* The same after a step.
LEMMA HandlesMembersNext ==
  ASSUME NEW l
  PROVE  /\ \A s \in Servers : <<s, "map">> \in Handles(l)' <=> l \in plugins_map'[s]
         /\ \A s \in Servers : <<s, "local">> \in Handles(l)' <=> Loading(s, l)'
         /\ \A x \in Handles(l)' : \E s \in Servers : x = <<s, "map">> \/ x = <<s, "local">>
BY DEF Handles

\* A library none of whose holders changes keeps its handles.
LEMMA HandlesSame ==
  ASSUME NEW l,
         \A s \in Servers : l \in plugins_map'[s] <=> l \in plugins_map[s],
         \A s \in Servers : Loading(s, l)' <=> Loading(s, l)
  PROVE  Handles(l)' = Handles(l)
<1>1. ASSUME NEW x, x \in Handles(l)' PROVE x \in Handles(l)
  BY <1>1, HandlesMembers, HandlesMembersNext
<1>2. ASSUME NEW x, x \in Handles(l) PROVE x \in Handles(l)'
  BY <1>2, HandlesMembers, HandlesMembersNext
<1> QED BY <1>1, <1>2

\* One handle more.
LEMMA HandleOpened ==
  ASSUME NEW l \in Libs, NEW x, CountInv, x \notin Handles(l),
         Handles(l)' = Handles(l) \cup {x}, refs'[l] = refs[l] + 1
  PROVE  IsFiniteSet(Handles(l)') /\ refs'[l] = Cardinality(Handles(l)')
BY FS_AddElement DEF CountInv

\* One handle less.
LEMMA HandleClosed ==
  ASSUME NEW l \in Libs, NEW x, CountInv, x \in Handles(l),
         Handles(l)' = Handles(l) \ {x}, refs'[l] = refs[l] - 1
  PROVE  IsFiniteSet(Handles(l)') /\ refs'[l] = Cardinality(Handles(l)')
BY FS_RemoveElement DEF CountInv

\* A library that some server holds is open.
LEMMA HeldIsOpen ==
  ASSUME CountInv, NEW l \in Libs, NEW s \in Servers, l \in plugins_map[s] \/ Loading(s, l)
  PROVE  refs[l] > 0
<1>1. Handles(l) # {}
  BY HandlesMembers
<1>2. Cardinality(Handles(l)) \in Nat /\ Cardinality(Handles(l)) # 0
  BY <1>1, FS_EmptySet, FS_CardinalityType DEF CountInv
<1> QED BY <1>2 DEF CountInv

-----------------------------------------------------------------------------
\* What each step does, as far as the invariant is concerned: the step is one
\* of server s, and leaves the other servers' state alone.
LEMMA OthersUntouched ==
  ASSUME TypeOK, NEW s \in Servers, Request(s) \/ ThreadStep(s)
  PROVE  \A t \in Servers \ {s} :
           /\ plugins_map'[t] = plugins_map[t] /\ user_command_map'[t] = user_command_map[t]
           /\ pc'[t] = pc[t] /\ lib'[t] = lib[t]
<1>1. ASSUME NEW l \in Libs, LoadPlugin(s, l) \/ UnloadPlugin(s, l) \/ Help(s, l)
      PROVE  \A t \in Servers \ {s} : /\ UNCHANGED maps
                                        /\ pc'[t] = pc[t] /\ lib'[t] = lib[t]
  BY <1>1 DEF LoadPlugin, UnloadPlugin, Help, Goto, maps, TypeOK
<1>2. ASSUME NEW n \in Names, Call(s, n)
      PROVE  \A t \in Servers \ {s} : /\ UNCHANGED maps
                                        /\ pc'[t] = pc[t] /\ lib'[t] = lib[t]
  BY <1>2 DEF Call, Goto, maps, TypeOK
<1>3. CASE DestroyServer(s)
  BY <1>3 DEF DestroyServer, Goto, TypeOK
<1>4. CASE Register(s)
  BY <1>4 DEF Register, AddPluginCommands, Goto, TypeOK
<1>5. CASE Insert(s)
  BY <1>5 DEF Insert, Goto, TypeOK
<1>6. CASE RemovePluginCommands(s)
  BY <1>6 DEF RemovePluginCommands, Goto, TypeOK
<1>7. CASE Erase(s)
  BY <1>7 DEF Erase, Goto, TypeOK
<1>8. CASE CallReturns(s) \/ HelpThrows(s)
  BY <1>8 DEF CallReturns, HelpThrows, Goto, maps, TypeOK
<1> QED BY <1>1, <1>2, <1>3, <1>4, <1>5, <1>6, <1>7, <1>8 DEF Request, ThreadStep, maps

-----------------------------------------------------------------------------
\* Type correctness of every step.
LEMMA TypeStep == TypeOK /\ LibInv /\ [Next]_vars => TypeOK'
<1> SUFFICES ASSUME TypeOK, LibInv, [Next]_vars PROVE TypeOK'
  OBVIOUS
<1> USE DEF Goto, PCs, LockStates, maps, locks
<1>1. ASSUME NEW s \in Servers, NEW l \in Libs,
             LoadPlugin(s, l) \/ UnloadPlugin(s, l) \/ Help(s, l)
      PROVE  TypeOK'
  <2>1. CASE LoadPlugin(s, l)
    BY <2>1 DEF LoadPlugin, OpenHandle, TypeOK
  <2>2. CASE UnloadPlugin(s, l)
    BY <2>2 DEF UnloadPlugin, TypeOK
  <2>3. CASE Help(s, l)
    BY <2>3 DEF Help, TypeOK
  <2> QED BY <1>1, <2>1, <2>2, <2>3
<1>2. ASSUME NEW s \in Servers, NEW n \in Names, Call(s, n) PROVE TypeOK'
  <2>1. user_command_map[s][n] \in Libs
    BY <1>2, LibsAssumption DEF Call, TypeOK
  <2> QED BY <1>2, <2>1 DEF Call, TypeOK
<1>3. ASSUME NEW s \in Servers, DestroyServer(s) PROVE TypeOK'
  BY <1>3 DEF DestroyServer, TypeOK
<1>4. ASSUME NEW s \in Servers, Register(s) PROVE TypeOK'
  <2>1. CASE GetFunc(lib[s])
    <3>1. user_command_map' \in [Servers -> [Names -> Plugins \cup {None}]]
      <4> DEFINE entries == [n \in Names |->
                    IF n \in Exports[lib[s]] /\ user_command_map[s][n] = None
                    THEN lib[s] ELSE user_command_map[s][n]]
      <4>1. entries \in [Names -> Plugins \cup {None}]
        BY <2>1 DEF GetFunc, TypeOK
      <4>2. user_command_map' = [user_command_map EXCEPT ![s] = entries]
        BY <1>4, <2>1 DEF Register, AddPluginCommands
      <4> QED BY <4>1, <4>2 DEF TypeOK
    <3> QED BY <1>4, <2>1, <3>1 DEF Register, TypeOK
  <2>2. CASE ~GetFunc(lib[s])
    BY <1>4, <2>2 DEF Register, TypeOK
  <2> QED BY <2>1, <2>2
<1>5. ASSUME NEW s \in Servers, Insert(s) PROVE TypeOK'
  <2>1. lib[s] \in Plugins /\ lib[s] \in Libs
    BY <1>5, LibsAssumption DEF Insert, At, LibInv
  <2>2. refs' \in [Libs -> Int]
    BY <1>5, <2>1 DEF Insert, CloseHandle, TypeOK
  <2> QED BY <1>5, <2>1, <2>2 DEF Insert, TypeOK
<1>6. ASSUME NEW s \in Servers, RemovePluginCommands(s) PROVE TypeOK'
  <2> DEFINE entries == [n \in Names |->
                IF n \in Exports[lib[s]] THEN None ELSE user_command_map[s][n]]
  <2>1. entries \in [Names -> Plugins \cup {None}]
    BY DEF TypeOK
  <2>2. user_command_map' = [user_command_map EXCEPT ![s] = entries]
    BY <1>6 DEF RemovePluginCommands
  <2>3. user_command_map' \in [Servers -> [Names -> Plugins \cup {None}]]
    BY <2>1, <2>2 DEF TypeOK
  <2> QED BY <1>6, <2>3 DEF RemovePluginCommands, TypeOK
<1>7. ASSUME NEW s \in Servers, Erase(s) PROVE TypeOK'
  <2>1. lib[s] \in Libs
    BY <1>7, LibsAssumption DEF Erase, At, LibInv, TypeOK
  <2>2. refs' \in [Libs -> Int]
    BY <1>7, <2>1 DEF Erase, CloseHandle, TypeOK
  <2> QED BY <1>7, <2>2 DEF Erase, TypeOK
<1>8. ASSUME NEW s \in Servers, CallReturns(s) \/ HelpThrows(s) PROVE TypeOK'
  BY <1>8 DEF CallReturns, HelpThrows, TypeOK
<1>9. CASE UNCHANGED vars
  BY <1>9 DEF vars, TypeOK
<1> QED BY <1>1, <1>2, <1>3, <1>4, <1>5, <1>6, <1>7, <1>8, <1>9
        DEF Next, Request, ThreadStep

\* What a thread works on.  A command runs under an entry, so EntryInv says
\* that its plugin is loaded.
LEMMA LibStep == TypeOK /\ LibInv /\ EntryInv /\ [Next]_vars => LibInv'
<1> SUFFICES ASSUME TypeOK, LibInv, EntryInv, [Next]_vars PROVE LibInv'
  OBVIOUS
<1> DEFINE Here(s) ==
      /\ pc[s] = "register" => lib[s] \in Libs
      /\ pc[s] = "insert" => lib[s] \in Plugins
      /\ pc[s] \in {"remove", "erase", "running", "helping"} => lib[s] \in plugins_map[s]
<1>1. ASSUME NEW s \in Servers, Request(s) \/ ThreadStep(s) PROVE Here(s)'
  <2> USE DEF Goto, At, maps, TypeOK
  <2>1. ASSUME NEW l \in Libs, LoadPlugin(s, l) \/ UnloadPlugin(s, l) \/ Help(s, l)
        PROVE  Here(s)'
    BY <2>1 DEF LoadPlugin, UnloadPlugin, Help
  <2>2. ASSUME NEW n \in Names, Call(s, n) PROVE Here(s)'
    BY <2>2 DEF Call, EntryInv
  <2>3. CASE DestroyServer(s)
    BY <2>3 DEF DestroyServer
  <2>4. CASE Register(s)
    BY <2>4 DEF Register, GetFunc, LibInv
  <2>5. CASE Insert(s) \/ Erase(s)
    BY <2>5 DEF Insert, Erase
  <2>6. CASE RemovePluginCommands(s)
    BY <2>6 DEF RemovePluginCommands, LibInv
  <2>7. CASE CallReturns(s) \/ HelpThrows(s)
    BY <2>7 DEF CallReturns, HelpThrows
  <2> QED BY <1>1, <2>1, <2>2, <2>3, <2>4, <2>5, <2>6, <2>7 DEF Request, ThreadStep
<1>2. CASE UNCHANGED vars
  BY <1>2 DEF vars, maps, LibInv
<1>3. ASSUME NEW s \in Servers, Request(s) \/ ThreadStep(s) PROVE LibInv'
  <2>1. \A t \in Servers \ {s} : Here(t)'
    BY <1>3, OthersUntouched DEF LibInv
  <2> QED BY <1>1, <1>3, <2>1 DEF LibInv
<1> QED BY <1>2, <1>3 DEF Next

\* The entries after the registration function.
LEMMA RegisteredEntries ==
  ASSUME TypeOK, NEW s \in Servers, AddPluginCommands(s, lib[s]), NEW n \in Names
  PROVE  user_command_map'[s][n] =
           IF n \in Exports[lib[s]] /\ user_command_map[s][n] = None
           THEN lib[s] ELSE user_command_map[s][n]
BY DEF AddPluginCommands, TypeOK

\* The entries after the deletion function.
LEMMA RemainingEntries ==
  ASSUME TypeOK, NEW s \in Servers, RemovePluginCommands(s), NEW n \in Names
  PROVE  user_command_map'[s][n] =
           IF n \in Exports[lib[s]] THEN None ELSE user_command_map[s][n]
BY DEF RemovePluginCommands, TypeOK

\* Where the entries point.
LEMMA EntryStep == TypeOK /\ LibInv /\ EntryInv /\ [Next]_vars => EntryInv'
<1> SUFFICES ASSUME TypeOK, LibInv, EntryInv, [Next]_vars PROVE EntryInv'
  OBVIOUS
<1> DEFINE Here(s, n) ==
      user_command_map[s][n] # None =>
        /\ n \in Exports[user_command_map[s][n]]
        /\ \/ user_command_map[s][n] \in plugins_map[s]
           \/ pc[s] = "insert" /\ lib[s] = user_command_map[s][n]
        /\ pc[s] = "erase" => user_command_map[s][n] # lib[s]
<1>1. ASSUME NEW s \in Servers, NEW n \in Names, Request(s) \/ ThreadStep(s)
      PROVE  Here(s, n)'
  <2> Here(s, n)
    BY DEF EntryInv
  <2> USE DEF Goto, At, maps, TypeOK
  <2>1. ASSUME NEW l \in Libs, LoadPlugin(s, l) \/ UnloadPlugin(s, l) \/ Help(s, l)
        PROVE  Here(s, n)'
    BY <2>1 DEF LoadPlugin, UnloadPlugin, Help
  <2>2. ASSUME NEW m \in Names, Call(s, m) PROVE Here(s, n)'
    BY <2>2 DEF Call
  <2>3. CASE DestroyServer(s)
    <3>1. user_command_map'[s][n] = None
      BY <2>3 DEF DestroyServer
    <3> QED BY <3>1
  <2>4. CASE Register(s)
    <3>1. CASE GetFunc(lib[s])
      <4>1. AddPluginCommands(s, lib[s]) /\ UNCHANGED <<plugins_map, lib>> /\ pc'[s] = "insert"
        BY <2>4, <3>1 DEF Register
      <4>2. pc[s] = "register"
        BY <2>4 DEF Register
      <4> QED BY <4>1, <4>2, RegisteredEntries
    <3>2. CASE ~GetFunc(lib[s])
      BY <2>4, <3>2 DEF Register
    <3> QED BY <3>1, <3>2
  <2>5. CASE Insert(s)
    BY <2>5 DEF Insert
  <2>6. CASE RemovePluginCommands(s)
    <3>1. UNCHANGED <<plugins_map, lib>> /\ pc'[s] = "erase" /\ pc[s] = "remove"
      BY <2>6 DEF RemovePluginCommands
    <3> QED BY <2>6, <3>1, RemainingEntries
  <2>7. CASE Erase(s)
    BY <2>7 DEF Erase
  <2>8. CASE CallReturns(s) \/ HelpThrows(s)
    BY <2>8 DEF CallReturns, HelpThrows
  <2> QED BY <1>1, <2>1, <2>2, <2>3, <2>4, <2>5, <2>6, <2>7, <2>8 DEF Request, ThreadStep
<1>2. CASE UNCHANGED vars
  BY <1>2 DEF vars, maps, EntryInv
<1>3. ASSUME NEW s \in Servers, Request(s) \/ ThreadStep(s) PROVE EntryInv'
  <2>1. \A t \in Servers \ {s}, n \in Names : Here(t, n)'
    BY <1>3, OthersUntouched DEF EntryInv
  <2> QED BY <1>1, <1>3, <2>1 DEF EntryInv
<1> QED BY <1>2, <1>3 DEF Next

\* The names of one plugin only.  The registration function finds such a name
\* free or its own, because by EntryInv whoever has it exports it.
LEMMA OwnStep == TypeOK /\ LibInv /\ EntryInv /\ OwnInv /\ [Next]_vars => OwnInv'
<1> SUFFICES ASSUME TypeOK, LibInv, EntryInv, OwnInv, [Next]_vars PROVE OwnInv'
  OBVIOUS
<1> DEFINE Here(s, l, n) ==
      \/ l \in plugins_map[s] /\ ~(pc[s] = "erase" /\ lib[s] = l)
      \/ pc[s] = "insert" /\ lib[s] = l
      => user_command_map[s][n] = l
<1>1. ASSUME NEW s \in Servers, NEW l \in Plugins, NEW n \in OwnNames(l),
             Request(s) \/ ThreadStep(s)
      PROVE  Here(s, l, n)'
  <2> Here(s, l, n)
    BY DEF OwnInv
  <2>n. l \in Libs /\ n \in Names /\ n \in Exports[l]
    BY LibsAssumption, NamesAssumption DEF OwnNames
  <2> USE DEF Goto, At, maps, TypeOK
  <2>1. ASSUME NEW k \in Libs, LoadPlugin(s, k) \/ UnloadPlugin(s, k) \/ Help(s, k)
        PROVE  Here(s, l, n)'
    BY <2>1 DEF LoadPlugin, UnloadPlugin, Help
  <2>2. ASSUME NEW m \in Names, Call(s, m) PROVE Here(s, l, n)'
    BY <2>2 DEF Call
  <2>3. CASE DestroyServer(s)
    BY <2>3 DEF DestroyServer
  <2>4. CASE Register(s)
    <3>1. CASE GetFunc(lib[s])
      <4>1. AddPluginCommands(s, lib[s]) /\ UNCHANGED <<plugins_map, lib>> /\ pc'[s] = "insert"
        BY <2>4, <3>1 DEF Register
      <4>2. pc[s] = "register"
        BY <2>4 DEF Register
      <4>3. user_command_map[s][n] \in {l, None}
        BY <2>n DEF EntryInv, OwnNames
      <4>4. CASE lib[s] = l
        <5>1. user_command_map'[s][n] = l
          BY <2>n, <4>1, <4>3, <4>4, RegisteredEntries
        <5> QED BY <5>1
      <4>5. CASE lib[s] # l
        <5>1. n \notin Exports[lib[s]]
          BY <3>1, <4>5 DEF OwnNames, GetFunc
        <5>2. user_command_map'[s][n] = user_command_map[s][n]
          BY <2>n, <4>1, <5>1, RegisteredEntries
        <5> QED BY <4>1, <4>2, <4>5, <5>2
      <4> QED BY <4>4, <4>5
    <3>2. CASE ~GetFunc(lib[s])
      BY <2>4, <3>2 DEF Register
    <3> QED BY <3>1, <3>2
  <2>5. CASE Insert(s)
    BY <2>5 DEF Insert
  <2>6. CASE RemovePluginCommands(s)
    <3>1. UNCHANGED <<plugins_map, lib>> /\ pc'[s] = "erase" /\ pc[s] = "remove"
      BY <2>6 DEF RemovePluginCommands
    <3>2. CASE lib[s] = l
      BY <3>1, <3>2
    <3>3. CASE lib[s] # l
      <4>1. lib[s] \in Plugins
        BY <3>1 DEF LibInv
      <4>2. n \notin Exports[lib[s]]
        BY <3>3, <4>1 DEF OwnNames
      <4>3. user_command_map'[s][n] = user_command_map[s][n]
        BY <2>n, <2>6, <4>2, RemainingEntries
      <4> QED BY <3>1, <3>3, <4>3
    <3> QED BY <3>2, <3>3
  <2>7. CASE Erase(s)
    BY <2>7 DEF Erase
  <2>8. CASE CallReturns(s) \/ HelpThrows(s)
    BY <2>8 DEF CallReturns, HelpThrows
  <2> QED BY <1>1, <2>1, <2>2, <2>3, <2>4, <2>5, <2>6, <2>7, <2>8 DEF Request, ThreadStep
<1>2. CASE UNCHANGED vars
  BY <1>2 DEF vars, maps, OwnInv, OwnNames
<1>3. ASSUME NEW s \in Servers, Request(s) \/ ThreadStep(s) PROVE OwnInv'
  <2>1. \A t \in Servers \ {s}, l \in Plugins : \A n \in OwnNames(l) : Here(t, l, n)'
    BY <1>3, OthersUntouched DEF OwnInv
  <2> QED BY <1>1, <1>3, <2>1 DEF OwnInv
<1> QED BY <1>2, <1>3 DEF Next

-----------------------------------------------------------------------------
\* The handles of one library after a step of server s: they can only have
\* changed by those of s.
LEMMA CountStep == TypeOK /\ LibInv /\ CountInv /\ [Next]_vars => CountInv'
<1> SUFFICES ASSUME TypeOK, LibInv, CountInv, [Next]_vars PROVE CountInv'
  OBVIOUS
<1> DEFINE Counted(l) == IsFiniteSet(Handles(l)) /\ refs[l] = Cardinality(Handles(l))
<1>1. ASSUME NEW l \in Libs, refs'[l] = refs[l],
             \A t \in Servers : l \in plugins_map'[t] <=> l \in plugins_map[t],
             \A t \in Servers : Loading(t, l)' <=> Loading(t, l)
      PROVE  Counted(l)'
  <2>1. Handles(l)' = Handles(l)
    BY <1>1, HandlesSame
  <2> QED BY <1>1, <2>1 DEF CountInv
<1>2. ASSUME NEW s \in Servers, Request(s) \/ ThreadStep(s), NEW l \in Libs
      PROVE  Counted(l)'
  <2>o. \A t \in Servers \ {s} : /\ l \in plugins_map'[t] <=> l \in plugins_map[t]
                                 /\ Loading(t, l)' <=> Loading(t, l)
    BY <1>2, OthersUntouched DEF Loading
  <2> USE DEF Goto, At, maps
  <2>1. ASSUME NEW k \in Libs, LoadPlugin(s, k) PROVE Counted(l)'
    <3>1. UNCHANGED plugins_map /\ pc[s] = "idle" /\ pc'[s] = "register" /\ lib'[s] = k
      BY <2>1 DEF LoadPlugin, TypeOK
    <3>2. CASE l = k
      <4>1. ~Loading(s, l) /\ Loading(s, l)'
        BY <3>1, <3>2 DEF Loading
      <4>2. <<s, "local">> \notin Handles(l)
        BY <4>1, HandlesMembers
      <4>3. ASSUME NEW x, x \in Handles(l)' PROVE x \in Handles(l) \cup {<<s, "local">>}
        BY <4>3, <3>1, <2>o, HandlesMembers, HandlesMembersNext
      <4>4. ASSUME NEW x, x \in Handles(l) \cup {<<s, "local">>} PROVE x \in Handles(l)'
        BY <4>4, <4>1, <3>1, <2>o, HandlesMembers, HandlesMembersNext
      <4>5. Handles(l)' = Handles(l) \cup {<<s, "local">>}
        BY <4>3, <4>4
      <4>6. refs'[l] = refs[l] + 1
        BY <2>1, <3>2 DEF LoadPlugin, OpenHandle, TypeOK
      <4> QED BY <4>2, <4>5, <4>6, HandleOpened
    <3>3. CASE l # k
      <4>1. ~Loading(s, l) /\ ~Loading(s, l)'
        BY <3>1, <3>3 DEF Loading
      <4>2. refs'[l] = refs[l]
        BY <2>1, <3>3 DEF LoadPlugin, OpenHandle, TypeOK
      <4> QED BY <4>1, <4>2, <3>1, <2>o, <1>1
    <3> QED BY <3>2, <3>3
  <2>2. CASE \/ \E k \in Libs : UnloadPlugin(s, k) \/ Help(s, k)
             \/ \E n \in Names : Call(s, n)
             \/ RemovePluginCommands(s) \/ CallReturns(s) \/ HelpThrows(s)
    <3>1. UNCHANGED <<plugins_map, refs>>
      BY <2>2 DEF UnloadPlugin, Help, Call, RemovePluginCommands, CallReturns, HelpThrows
    <3>2. pc[s] \notin {"register", "insert"} /\ pc'[s] \notin {"register", "insert"}
      BY <2>2 DEF UnloadPlugin, Help, Call, RemovePluginCommands, CallReturns, HelpThrows,
                  TypeOK
    <3> QED BY <3>1, <3>2, <2>o, <1>1 DEF Loading
  <2>3. CASE Register(s)
    <3>1. UNCHANGED <<plugins_map, refs, lib>> /\ pc[s] = "register"
          /\ pc'[s] \in {"register", "insert"}
      BY <2>3 DEF Register, TypeOK
    <3> QED BY <3>1, <2>o, <1>1 DEF Loading
  <2>4. CASE Insert(s)
    <3>1. /\ pc[s] = "insert" /\ pc'[s] = "idle"
          /\ plugins_map'[s] = plugins_map[s] \cup {lib[s]}
          /\ lib[s] \in plugins_map[s] => refs' = [refs EXCEPT ![lib[s]] = @ - 1]
          /\ lib[s] \notin plugins_map[s] => refs' = refs
      BY <2>4 DEF Insert, CloseHandle, TypeOK
    <3>2. ~Loading(s, l)' /\ (Loading(s, l) <=> lib[s] = l)
      BY <3>1 DEF Loading
    <3>3. CASE lib[s] # l
      <4>1. refs'[l] = refs[l] /\ (l \in plugins_map'[s] <=> l \in plugins_map[s])
        BY <3>1, <3>3 DEF TypeOK
      <4> QED BY <4>1, <3>2, <3>3, <2>o, <1>1
    <3>4. CASE lib[s] = l /\ l \in plugins_map[s]
      <4>1. <<s, "local">> \in Handles(l)
        BY <3>2, <3>4, HandlesMembers
      <4>2. ASSUME NEW x, x \in Handles(l)' PROVE x \in Handles(l) \ {<<s, "local">>}
        BY <4>2, <3>1, <3>2, <3>4, <2>o, HandlesMembers, HandlesMembersNext
      <4>3. ASSUME NEW x, x \in Handles(l) \ {<<s, "local">>} PROVE x \in Handles(l)'
        BY <4>3, <3>1, <3>2, <3>4, <2>o, HandlesMembers, HandlesMembersNext
      <4>4. Handles(l)' = Handles(l) \ {<<s, "local">>}
        BY <4>2, <4>3
      <4>5. refs'[l] = refs[l] - 1
        BY <3>1, <3>4 DEF TypeOK
      <4> QED BY <4>1, <4>4, <4>5, HandleClosed
    <3>5. CASE lib[s] = l /\ l \notin plugins_map[s]
      <4> DEFINE rest == Handles(l) \ {<<s, "local">>}
      <4>1. <<s, "local">> \in Handles(l) /\ <<s, "map">> \notin rest
        BY <3>2, <3>5, HandlesMembers
      <4>2. ASSUME NEW x, x \in Handles(l)' PROVE x \in rest \cup {<<s, "map">>}
        BY <4>2, <3>1, <3>2, <3>5, <2>o, HandlesMembers, HandlesMembersNext
      <4>3. ASSUME NEW x, x \in rest \cup {<<s, "map">>} PROVE x \in Handles(l)'
        BY <4>3, <3>1, <3>2, <3>5, <2>o, HandlesMembers, HandlesMembersNext
      <4>4. Handles(l)' = rest \cup {<<s, "map">>}
        BY <4>2, <4>3
      <4>5. IsFiniteSet(rest) /\ Cardinality(rest) = Cardinality(Handles(l)) - 1
        BY <4>1, FS_RemoveElement DEF CountInv
      <4>6. /\ IsFiniteSet(rest \cup {<<s, "map">>})
            /\ Cardinality(rest \cup {<<s, "map">>}) = Cardinality(rest) + 1
        BY <4>1, <4>5, FS_AddElement
      <4>7. Cardinality(Handles(l)) \in Nat
        BY FS_CardinalityType DEF CountInv
      <4>8. Cardinality(Handles(l)') = Cardinality(Handles(l))
        BY <4>4, <4>5, <4>6, <4>7
      <4>9. refs'[l] = refs[l]
        BY <3>1, <3>5
      <4> QED BY <4>4, <4>6, <4>8, <4>9 DEF CountInv
    <3> QED BY <3>3, <3>4, <3>5
  <2>5. CASE Erase(s) \/ DestroyServer(s)
    <3>1. /\ pc[s] \in {"erase", "idle"} /\ pc'[s] \in {"idle", "gone"}
          /\ l \notin plugins_map[s] => refs'[l] = refs[l]
          /\ l \in plugins_map[s] =>
               \/ l \in plugins_map'[s] /\ refs'[l] = refs[l]
               \/ l \notin plugins_map'[s] /\ refs'[l] = refs[l] - 1
          /\ l \in plugins_map'[s] => l \in plugins_map[s]
      BY <2>5 DEF Erase, DestroyServer, CloseHandle, TypeOK, LibInv
    <3>2. ~Loading(s, l) /\ ~Loading(s, l)'
      BY <3>1 DEF Loading
    <3>3. CASE l \in plugins_map'[s] <=> l \in plugins_map[s]
      BY <3>1, <3>2, <3>3, <2>o, <1>1
    <3>4. CASE l \in plugins_map[s] /\ l \notin plugins_map'[s]
      <4>1. <<s, "map">> \in Handles(l)
        BY <3>4, HandlesMembers
      <4>2. ASSUME NEW x, x \in Handles(l)' PROVE x \in Handles(l) \ {<<s, "map">>}
        BY <4>2, <3>2, <3>4, <2>o, HandlesMembers, HandlesMembersNext
      <4>3. ASSUME NEW x, x \in Handles(l) \ {<<s, "map">>} PROVE x \in Handles(l)'
        BY <4>3, <3>2, <3>4, <2>o, HandlesMembers, HandlesMembersNext
      <4>4. Handles(l)' = Handles(l) \ {<<s, "map">>}
        BY <4>2, <4>3
      <4> QED BY <4>1, <4>4, <3>1, <3>4, HandleClosed
    <3> QED BY <3>1, <3>3, <3>4
  <2> QED BY <1>2, <2>1, <2>2, <2>3, <2>4, <2>5 DEF Request, ThreadStep
<1>3. CASE UNCHANGED vars
  <2>1. \A l \in Libs : Counted(l)'
    BY <1>1, <1>3 DEF vars, maps, Loading
  <2> QED BY <2>1 DEF CountInv
<1>4. ASSUME NEW s \in Servers, Request(s) \/ ThreadStep(s) PROVE CountInv'
  BY <1>2, <1>4 DEF CountInv
<1> QED BY <1>3, <1>4 DEF Next

-----------------------------------------------------------------------------
\* Everything holds at the start, where nothing is loaded.
LEMMA InitIInv == Init => IInv
<1> SUFFICES ASSUME Init PROVE IInv
  OBVIOUS
<1>1. TypeOK /\ LibInv
  BY DEF Init, TypeOK, LibInv, PCs, LockStates
<1>2. EntryInv /\ OwnInv
  BY DEF Init, EntryInv, OwnInv
<1>3. CountInv
  <2>1. \A l \in Libs : Handles(l) = {}
    BY DEF Init, Handles, Loading
  <2>2. \A l \in Libs : refs[l] = 0
    BY DEF Init
  <2> QED BY <2>1, <2>2, FS_EmptySet DEF CountInv
<1> QED BY <1>1, <1>2, <1>3 DEF IInv

\* The inductive invariant.
THEOREM Invariant == Spec => []IInv
<1>1. IInv /\ [Next]_vars => IInv'
  BY TypeStep, LibStep, EntryStep, OwnStep, CountStep DEF IInv
<1> QED BY <1>1, InitIInv, PTL DEF Spec

\* dlopen and dlclose balance for every number of servers and libraries, and
\* only plugins get into the maps (Server.cc's plugin handles).
THEOREM HandlesCorrect == Spec => []HandlesInv
<1>1. IInv => HandlesInv
  BY DEF IInv, CountInv, HandlesInv, RefsAccounted
<1> QED BY <1>1, Invariant, PTL

\* No entry of user_command_map points into an unmapped library, and none is
\* run: a server that has an entry of a plugin, or runs its code, holds one of
\* the handles that are counted.
THEOREM CallbacksCorrect == Spec => []CallbacksMapped
<1>1. IInv => CallbacksMapped
  <2> SUFFICES ASSUME IInv PROVE CallbacksMapped
    OBVIOUS
  <2>1. ASSUME NEW s \in Servers, NEW n \in Names, user_command_map[s][n] # None
        PROVE  LET l == user_command_map[s][n]
               IN refs[l] > 0 /\ (l \in plugins_map[s] \/ Loading(s, l))
    <3>1. PICK l \in Libs : l = user_command_map[s][n]
      BY <2>1, LibsAssumption DEF IInv, TypeOK
    <3>2. l \in plugins_map[s] \/ Loading(s, l)
      BY <2>1, <3>1 DEF IInv, EntryInv, Loading
    <3>3. refs[l] > 0
      BY <3>2, HeldIsOpen DEF IInv
    <3> QED BY <3>1, <3>2, <3>3
  <2>2. ASSUME NEW s \in Servers, pc[s] \in {"remove", "running", "helping"}
        PROVE  refs[lib[s]] > 0 /\ lib[s] \in plugins_map[s]
    <3>1. lib[s] \in plugins_map[s]
      BY <2>2 DEF IInv, LibInv
    <3>2. PICK l \in Libs : l = lib[s]
      BY <3>1, LibsAssumption DEF IInv, TypeOK
    <3>3. refs[l] > 0
      BY <3>1, <3>2, HeldIsOpen DEF IInv
    <3> QED BY <3>1, <3>2, <3>3
  <2> QED BY <2>1, <2>2 DEF CallbacksMapped
<1> QED BY <1>1, Invariant, PTL

\* A loaded plugin answers to the names it has for itself, exactly as long as
\* it is loaded, whatever the other plugins are and in whatever order they
\* come and go.
THEOREM CommandsAvailable == Spec => []LoadedCommandsAvailable
<1>1. IInv => LoadedCommandsAvailable
  <2> SUFFICES ASSUME IInv, NEW s \in Servers, NEW l \in Plugins, NEW n \in OwnNames(l)
               PROVE  user_command_map[s][n] = l <=>
                        \/ l \in plugins_map[s] /\ ~(pc[s] = "erase" /\ lib[s] = l)
                        \/ pc[s] = "insert" /\ lib[s] = l
    BY DEF LoadedCommandsAvailable
  <2>1. n \in Names /\ l # None
    BY LibsAssumption, NamesAssumption DEF OwnNames
  <2> QED BY <2>1 DEF IInv, EntryInv, OwnInv
<1> QED BY <1>1, Invariant, PTL
=============================================================================
