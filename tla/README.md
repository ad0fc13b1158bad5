# kbot, verified

kbot is an IRC bot in C++20: one thread per server, an epoll event loop in each
thread, a parser for IRC messages, built-in and plugin commands. This directory
holds TLA+ models of its parts, the TLC runs that check them on small instances
and the TLAPS proofs about them. `PROJECT.json` maps every definition to the
lines it models; source paths below are relative to `src/src/`.

## 1. Inventory

| Component | State | Operations | Hard part |
|---|---|---|---|
| Server threads (`main.cc`, `Manager.hh`, `Manager.cc`) | `ServerThreadSet::thread_set` under its mutex and condition variable, the `Server` and `EpollManager` objects that own descriptors, the atomic `sig_id` | `LaunchServerThread`, `InsertNewThread`, `WaitAll`, `~ThreadCleanupSelf`, the moves of `Server`, `SetupSignalDelivery`, `TearDownSignalDelivery` | threads against main, order of destruction, lost wakeups, a counter raced on |
| EpollManager (`Epoll.hh`, `Epoll.cc`) | `fd_map` of contexts, the kernel's interest list, `static_events`, `events_vec` | `RegisterFd`, `EnableFd`, `DisableFd`, `ModifyFd*`, `DeleteFd`, `RegisterStaticEvent`, `RunEventLoop` | callbacks that change the map the loop is walking, failing `epoll_ctl`, one-shot and edge-triggered registrations |
| Channel map (`Server.cc`, `Server.hh`) | `chan_map` | `JoinChannel`, `PartChannel`, `UpdateJoinChannel`, `UpdatePartChannel` | requests and echoes cross; other users' messages look like echoes |
| Nickname and replies (`Server.hh`, `UserCommand.cc`) | `nickname` | `SetNickname`, `UpdateNickname`, `SendInvokerReply` | the nickname is a cache of what the server knows |
| Worker and `RecvMsg` (`Manager.cc`, `IRC.cc`) | the buffer of `RecvMsg`, the flag `r` of `WorkerRun` | `RecvMsg`, `TokenizeMessageMultiple`, `ProcessMessageLine` | TCP splits lines; end of stream; a flag written by every line |
| IRC messages (`IRC.hh`, `IRC.cc`, `Manager.cc`) | none | `IRCMessage`, `ParseSourceUser`, `IsQuitMessage`, `GetIRCMessageVariantFrom`, `ProcessMessageLine` | index arithmetic; assertions about what a peer sends |
| Plugins and commands (`Server.*`, `UserCommand.*`, `plugins/`) | `plugins_map`, `user_command_map`, handles of `dlopen` | load, unload, dispatch | two locks, reference counts, callbacks into unloaded code |
| Connection set-up (`Server.cc`, `IRC.cc`, `main.cc`) | the socket, what was sent | `GetConnectionFd`, `ConnectionNew`, `Login`, `SendMsg`, `Quit` | addresses and sends that fail one by one; failures that are overwritten; line ends |
| Database, `StackPtr`, command line | | | not used, or sequential start-up code |

How they interact: `main` creates a `Server` and hands it to a thread
(`LaunchServerThread`). The thread logs in, wraps the `Server` in a `Manager`
(an `EpollManager` with a server) and moves it into `WorkerRun`, which registers
the socket and runs the event loop. The callback reads (`RecvMsg`), splits into
lines and dispatches each one (`ProcessMessageLine`) to a built-in handler,
which updates the channel map or the nickname, or runs a user command. When the
loop ends, destructors send QUIT, close the descriptors and take the thread out
of the set; `WaitAll` in `main` waits for the set to be empty.

What makes each part correct:

* Server threads: each descriptor has one owner and is closed once; `WaitAll`
  returns exactly when the last thread is through; signal ids are not shared.
* EpollManager: map and kernel agree whatever fails; no event is lost; nothing
  starves; a well-behaved client cannot bring the loop down.
* Channel map, nickname: never wrong, only late; settled once nothing is in flight.
* Plugins: no callback into a library that is gone; handles balance; no self-deadlock.
* Worker: nothing received disappears unnoticed; lines stay whole; quit stops it.
* IRC messages: the parser accepts the grammar and loses nothing; what a server
  sends reaches its handler and fails no assertion.
* Connection set-up: only a connected and identified socket is served; sockets
  that serve are closed; one message per line.

The hazards behind these properties are listed in `PROJECT.json`, each at its line.

## 2. Modules

| Module | Models |
|---|---|
| `ServerThreads` | main, the thread set and the life of every server thread |
| `ServerPool` | what the threads promise: the abstract specification that `ServerThreads` implements |
| `MCServerThreads` | symmetry for the run `server_threads_cleanup` |
| `ServerThreadsProofs` | theorems about `ServerThreads` |
| `EpollManager` | every operation and the event loop, over a model of the kernel |
| `MCEpollManager` | flag words and the operations a callback may call |
| `EpollManagerProofs` | theorems about `EpollManager` |
| `Channels` | the channel map against the IRC server and other users |
| `ChannelsProofs` | theorems about `Channels` |
| `Nickname` | nickname, permission and argument checks, routing of replies |
| `NicknameProofs` | theorems about `Nickname` |
| `Plugins` | loaded plugins and their commands, over all servers |
| `MCPlugins` | the libraries and names of the run |
| `PluginsProofs` | theorems about `Plugins` |
| `IRCMessage` | one line: parsing, dispatch and the call of its handler, as operators |
| `MCIRCMessage` | the lines of the run, a reference grammar and the messages of a server |
| `IRCMessageProofs` | lemmas about the parser's searches and views, theorems about every line |
| `Worker` | the receiving side of a connection: `RecvMsg`, the batch of lines, the flag; extends `IRCMessage` |
| `MCWorker` | the stream of the runs |
| `WorkerProofs` | theorems about `Worker` |
| `Connection` | a connection from its first socket to QUIT, and what it sends |
| `ConnectionProofs` | theorems about `Connection` |

Definitions called "Mutant" in a module's comments are plausible mistakes; none
is used by the specification. Each one replaces the definition it stands before
in one check that a property notices the mistake.

### ServerThreads

`pc[t]` is a thread's place in the lambda of `main.cc:94-108` and in `WorkerRun`;
`fd[t]` and `epfd[t]` are the objects (`arg`, the `Server` in the `Manager`, the
one in `WorkerRun`) that hold thread t's socket and epoll descriptor. A move
takes the descriptor along and leaves -1; a destructor closes what its object
holds and, for a connected server, sends QUIT. Destructors run in the order of
the language: `WorkerRun`'s parameter, the lambda's `m`, `ThreadCleanupSelf`, the
thread's argument. `SignalLoad` and `SignalCAS` are the two atomic accesses of
`SetupSignalDelivery`. `crash` names the assertion or exception that ended the
process; after it nothing happens (`Finished`).
The epoll event loop is one step, `LeaveLoop`, which nothing obliges to happen.

`ServerPool` says what that amounts to, without threads: a connection waits, is
served and is closed, once each; the process exits when the last one is closed,
not before, and then it must exit unless it dies. `ServerThreads` implements it
(`ImplementsPool`): a connection's state is read off `pc[t]` and `closes[t]`, that of
the process off `main` and `crash`.

### EpollManager

`fd_map`, `events` and `enabled` are the contexts; `interest`, `kev`, `armed` and
`edge` are the kernel's list, its flags, which one-shot registrations are armed
and which edges are new. `epoll_ctl` and `epoll_wait` are external: `AddResult`,
`ModResult` and `DelResult` say which errno values are possible, among them
failures for want of memory, and an operation that fails leaves the map as the
code leaves it. `RunEventLoop` is split at every call that may run client code:
static callbacks, the wait, and each callback of the batch; in each of these
phases any operation of `CallbackOps` may be called. `taken` remembers what the
kernel has reported. Clients close a descriptor only after `DeleteFd`, and a
callback does not call `RunEventLoop`; the program keeps to both.

### Channels, Nickname

Each has the bot's actions from the code and the IRC server's as external
actions, with one ordered queue in each direction. The server ignores a JOIN for
a channel the bot is in, may refuse any other, may kick the bot, and refuses a
nickname in use; the bot looks at none of these errors. `disturbed` marks the
channels where that happened since the last accepted JOIN. A failed send leaves
the state as it was (`SendMsg` returns a negative number); partial sends are not
modelled. In `Nickname` the bot is logged in under `Initial` (a login that meets
a taken nickname is not handled in the code), and a NICK or JOIN parameter stands
for itself, with or without its colon. `NicknameTracks` says that there is a trail
(`IsTrail`) of nicknames, one per message in flight, from the bot's to the one the
server knows.

### Plugins

Each server's thread is at one place of a load, an unload, a help or a plugin's
command; the maps and both mutexes are per server, `refs` counts the open
handles of each library in the process. Several servers interleave only through
`refs`; the locks matter because a thread must not ask for one it holds.
Listing all commands (help without an argument) changes nothing and waits for a
lock that is free whenever the thread is idle. A library without the functions
of a plugin fails the assertion on `reg_func` and ends the process (`crash`).
The moves of `Server` happen before anything is loaded.

### IRCMessage

A line is a sequence of symbols: the characters the parser looks for, and words,
which it only compares. `Parse` follows the constructor's searches one by one,
`0` standing for `npos`; its loops are recursive functions over positions.
`Dispatch` is `GetSetIRCMessageType`, `GetIRCMessageVariantFrom` and the visitor in
one, because nothing happens between them; what a line leads to is the handler
and its arguments, "quit", "malformed" or "assert". `WithoutFirst` is `substr(1)`,
which takes the colon off a last parameter and the first letter off any other.
Assertions are those of the debug build (a release build defines `NDEBUG`).

The reference grammar of `MCIRCMessage` searches for nothing: it says where a line may
be cut (`TagCut`, `SourceCut`, `CommandCut`), where its words begin (`WordStarts`) and
where the keys of its tags do (`KeyStarts`), each by what stands around that place, and
`AreWords` and `PairsKept` say that a list holds all of them in their order.

### Worker

The stream is an interval of positions and so is all the program holds of it.
`Arrive` makes any amount of it readable; `recv` returns what there is, up to
`MaxRecv`. Each token of a batch is parsed and dispatched by `IRCMessage`
(`Reads`): a whole line, or the tail of one whose head `RecvMsg` threw away. A
word is one symbol, so tears inside a word are not distinguished from tears next to it. What
the handlers do to the channel map, the nickname and the plugins is in the
modules above; none of it touches the worker's state. `WorkerRun` returns from "done",
when the flag is down, or from "failed", when `epoll_wait` fails: that happens when the
registration failed, since there is then no room for an event; EINTR is retried and
nothing else can go wrong with a valid epoll descriptor. `WholeLinesHandled` says of a
stream that its whole lines fail no assertion, the hypothesis of one theorem. The
stream of the runs satisfies it: `worker` handles both of its lines whole, with nothing
lost, and `AbortsOnlyAfterLoss` holds there without the hypothesis.

### Connection

`GetConnectionFd` is one action per address, by how `socket` and `connect` end.
`fd`, `open` and `conn` name sockets by their address; a refused one stays open, as
in the code. A `send` may fail at any time and cannot succeed on a socket that
was never connected. `out` is the stream as the IRC server receives it, messages
and line ends, so that framing can be stated: every message but PONG has a line
end on both sides. The lambda of `main.cc` gives the order; replies and PONGs
while the bot serves come in any order, up to `MaxSent` symbols.

## 3. Runs

| Run | Instance | Shows |
|---|---|---|
| `server_threads` | 3 threads, ids 34..36 | single ownership, complete `WaitAll`, moves only in `kSetup`, no signal id leaked or lost to a race, distinct ids, main returns, the refinement of `ServerPool` |
| `server_threads_cleanup` | 2 threads | finding: `~ThreadCleanupSelf` may not find its thread |
| `epoll` | 2 descriptors, all operations and odd flags, timeout 0 | map and kernel agree, errno assertions, room in `events_vec`, no event lost |
| `epoll_safe` | 2 descriptors, callbacks that enable, disable and modify | no crash, no starvation |
| `channels` | 1 channel, 7 messages in flight | the map follows the requests, agrees when settled, parts complete |
| `nickname` | 3 nicknames, 1 other user, 3 in flight | never wrong only late, replies routed, catches up |
| `plugins` | 2 servers, 2 plugins with a common name, a library that is no plugin | handles balance, no callback into a library that is gone, own commands available, no self-deadlock |
| `worker` | a quit and a message, 19 symbols, 7 per recv, 2 tries | text accounted for, torn only by loss, a quit that ends its batch is obeyed and nothing else ends the worker, aborts only after a loss, everything read |
| `worker_quit` | the same, 5 tries | finding: a quit in the middle of a batch |
| `worker_torn` | the same, 5 tries | finding: the tail of a torn line fails an assertion |
| `irc_message` | lines of up to 5 chunks, tags and sources of up to 6 symbols, a server's messages and all their tails | the grammar, nothing lost, users found, handlers called, which tails fail an assertion |
| `connection` | up to 3 addresses, 24 symbols sent | unconnected sockets are not served, served ones are closed, login, framing, set-up ends |

Where a module's type invariant says little by itself, a run checks it together with
the invariants it belongs to: `NicknameInv` (with `NicknameTracks`), `HandlesInv` (with
`RefsAccounted`), `StreamInv` (with `TextAccountedFor`), `SocketsInv` (with
`RefusedEverywhere` and `ConnectedNotLeaked`); `NothingLost` is `PartsMakeLine` and
`TagsKept`.

**Bounds.** Three threads and two free signal ids (the code stops at `SIGRTMAX`)
let the third thread find them exhausted and a late teardown drive the counter
down, which two threads cannot. Two descriptors are enough for a callback to
change the map under another event of its batch. `Channels` keeps a pair of queues per
channel, and handlers of different channels touch different entries, so one
channel is all there is to a run; seven messages allow join, part and join
again to cross with echoes and another user's messages. Three nicknames let the
admin take one the bot has left while the bot is on its way to the third. The
worker's stream has a quit with a message behind it, each cut anywhere by what has
arrived, by `MaxRecv` of 7 and by 2 tries, so that a line is torn with and without
tries left; in the violation runs `Tries` is the code's 5. Five chunks of a line
are tags, source, command and two parameters, each of them empty or odd; six
symbols of tags or source allow three separators in every order. Three addresses
have a first, a middle and a last one; 24 symbols are the login and three messages.

**Fairness.** Weak fairness of what the operating system schedules: the steps of
main and of each thread (not the end of an event loop, not spurious wakeups), the
event loop's own steps, a plugin's command that returns, the handlers of what has
arrived, the set-up of a connection (`connect` returns) and the IRC server's
processing of what it was sent. Nothing makes users act, data arrive, descriptors
become ready or calls fail.

**Deadlock** is checked in every run but `plugins`; ended states stutter explicitly
(`Finished`). `plugins` turns it off, because all servers may have ended; `CommandFinishes` says there that nobody is stuck before.

## 4. Findings

1. `Manager.hh:89` asserts that a finishing thread is in the set, but the thread
   starts before `InsertNewThread`; a login that fails at once is faster
   (`server_threads_cleanup`).
2. `Manager.cc:197` overwrites the flag, so a quit line counts only if it is the
   last of its batch (`worker_quit`). `QuitDecides` bounds the damage: only a later
   line of the same batch makes a quit lost, and no other line stops the worker.
3. `IRC.cc:201` asserts that a PRIVMSG comes from a user; `RecvMsg` throws away the
   head of a line that is split by TCP and hands on its tail, which has no source
   (`worker_torn`). `AbortsOnlyAfterLoss` and `TailAssertsWithoutUser` bound the
   damage: whole messages of a server fail no assertion, and of the tails only
   those without a user do.

Noted, without a run: `Epoll.cc:184` asserts that every event's descriptor is in
the map, which a callback of the same batch that calls `DeleteFd` refutes, and
`Epoll.cc:181` that `epoll_wait` reported something, which the default timeout of 0
refutes; `WorkerRun` does neither, and `WellBehavedClientsSafe` says who else is
safe. The comment at `IRC.cc:129` says the rest is discarded when all tries
failed; it is also discarded at the first EAGAIN. A QUIT or KILL of any user
stops the worker (`IRC.cc:176`), and so does a PRIVMSG of the admin without text
(`IRC.hh:270`). `substr(1)` cuts the first letter of a nickname or PING parameter
sent without a colon. PONG is sent without a line end (`Manager.cc:85`). With a
password, `Login` forgets that USER or NICK could not be sent (`IRC.cc:49`).
Sockets of refused addresses are never closed, and the last one is taken for a
connection (`Server.cc:230`). `BuiltinPart` takes every PART for the completion of the
bot's own, so another user's PART erases an entry early, though `MapFollowsRequests`
and `SettledAgrees` show that the map comes right all the same; `HelpCallbackImpl`
looks up ",help" in the plugin's help table, so help for a plugin always throws
and is logged as missing arguments (`Plugin.hh:75`, `Manager.cc:120`); at the end of the stream `RecvMsg` returns "" like for no
data and the level-triggered loop spins (`IRC.cc:125`); `EnableFd` does not arm a
fired one-shot registration again; `Server.cc:157` logs that a part was
requested when the entry is already joined.

Also noted:

* Signal ids collide after a teardown, because it gives back the highest id and not
  the thread's own (`Manager.cc:56`): with 34 and 35 taken, the thread with 34 ends and
  the next one gets 35 as well. `SigIdsDistinct` therefore speaks only of the time before
  the first teardown. A thread that found the ids exhausted also tears down, so the
  counter drifts below the number of ids in use; `SigIdAccounting` allows for that drift,
  at most one per such thread, and would hold of a program without it.
* Tags without a value are not in `tag_kv`, and one in front of another tag is taken
  for a part of its key: in "@a;b=c" the key is "a;b" (`IRC.hh:116-126`). The reference
  for tags follows the code in this.
* At the end of the stream or at an error of `recv`, `RecvMsg` forgets the whole lines
  it has already in its buffer, too (`IRC.cc:115-126`).
* Two PONGs in a row run together into one line; `OneMessagePerLine` says
  that nothing else does.
* Unloading one of two plugins with a common name takes the name from the other
  (`Server.cc:205`); `LoadedCommandsAvailable` is about the names only one plugin has.
* The result of `RegisterFd` is ignored; without a registration `epoll_wait` fails with
  EINVAL and `WorkerRun` returns (`Manager.cc:190`, `Manager.cc:203-206`).
* A failed `socket` ends the loop over the addresses before all were tried
  (`Server.cc:229`).

## 5. Proofs

TLAPS checks the theorems for every value of the constants that satisfies the
named assumptions of the modules.

* `ServerThreadsProofs`. Assumptions: some threads, finitely many or not
  (`ThreadsAssumption`), and a range of signal ids (`SigAssumption`). Ownership is
  not inductive by itself, because whether a destructor closes a descriptor depends
  on where it was moved before: `OwnerInv` says for each value of `pc[t]` which
  object holds each descriptor and how often it was closed. `SetInv` relates
  `thread_set` to `main` and `pc`: a running thread is in the set or is the one main
  is about to insert. `SetupInv` keeps the servers unconnected until the last move.
  From these follow `SingleOwner`, `WaitAllReturnsLast` and `MovesInSetup`, and of every step
  `ManagerCloses`: socket and epoll descriptor are closed together and for good, by the
  destructor of the Manager that holds them while main still waits for its thread, never by main's
  `optional` or the thread's argument, from which they were moved.
  `ThreadsImplementPool` is the safety part of the refinement: `ThreadEffect` says what
  a step of one thread can do to a connection (close its own) and to the process
  (end it), and `MainReturn` is `Exit` because by `SetInv` and `OwnerInv` every
  connection is closed then.
  `TypeCorrect` includes the bound `sig_id <= SIGRTMAX`; the code tests only for
  equality, and `SigInv` (a thread about to compare-exchange holds a value below
  `SIGRTMAX`) is why that is enough.
* `EpollManagerProofs`. Assumptions: a finite set of descriptors and arguments that
  are flag words. The invariant is `MapMatchesKernel`, `CtlAssertsHold` and
  `RoomForAll`, which need each other (EEXIST cannot come from a descriptor that is
  not listed), with `BatchInv` (no batch outside the dispatch phases) and
  `SkippedInv`: a descriptor that was harvested, skipped while disabled and enabled
  again has been listed anew, hence is armed with a fresh edge. From it
  `MapAgreesWithKernel`, `ErrnoAssertions`, `VectorLargeEnough` and `EventsNotLost`.
  `WellBehavedClientsSafe` adds that a batch stays within the map when callbacks
  neither delete, register nor replace callbacks, flags are of the right
  kind and the wait has no timeout (`WellBehaved`).
* `ChannelsProofs`. `MapFollows`: the map tells where the requests in flight lead.
  The strengthening splits it: while requests are queued the entry agrees with the
  last of them, also for disturbed channels (`InFlightInv`), and otherwise with the
  server's membership (`IdleInv`).
  `SettledCorrect` needs to know in addition why an entry cannot wait for a PART that
  never comes: `PartInv` says that then the server still has the bot as a member,
  or a JOIN is on its way to it, or some PART is already on its way back.
* `ServerThreadsProofs`, the signal ids (`SigIInv`). `CountInv` is `SigIdAccounting`
  with equality (the code drifts by exactly one per thread that tears down without an id) and with
  the finiteness of the two sets that are counted, which no assumption gives when
  the set of threads is infinite: it holds because a step changes them by one
  thread. `FreshInv` is why the ids differ: before the first teardown the counter is
  above every id in use, so a successful compare-exchange yields a new one. A step
  keeps all ids, claims one or tears one down (`SignalEffect`).
* `NicknameProofs`. Assumptions: those of `Nickname` on its constants, and any number of messages
  in flight. `NicknameInv` and `RepliesRouted` need each other's reason: a private
  command is addressed to the nickname the bot has on the trail when it gets there
  (`TrailInv`), because the server delivers in order; and no user has the bot's
  nickname (`NoClash`), so another user's NICK never looks like the bot's own. The
  trail is extended at one end by what the server sends (`LeadsAppend`) and shortened
  at the other by what the bot handles.
* `PluginsProofs`. Assumptions: plugins are libraries, finitely many servers. `CountInv` is
  `RefsAccounted` with finiteness. `EntryInv` says that an entry belongs to a plugin in
  the same server's `plugins_map`, or to the one it is about to insert, and not to the one
  whose commands were just removed; `LibInv` ties the plugin a thread is at to the map, and
  `OwnInv` the names only one plugin has. A server with an entry thus holds a handle,
  and a library with a handle is mapped: `CallbacksCorrect`.
* `WorkerProofs`. Assumptions: any stream of symbols, any positive `MaxRecv` and any
  `Tries`. The intervals of the model are compared by their ends: `PlaceInv` says that
  buffer and batch begin behind a line, behind lost text or at the start, and that a batch ends in
  a newline, `HandledInv` and `LostInv` where handled and lost text may lie, `ApartInv` and
  `FoundInv` that nothing is in two places and everything in one. `LastNewline` and
  `TokenEnd` are defined by CHOOSE; that what they choose exists is the least number principle
  (`Least`), taken from the library's `WFMin`. `AbortsByLossOnly` has the hypothesis
  `WholeLinesHandled`. `HandledInOrder` is about steps: text newly handled lies behind
  all that was handled before, and nothing handled or lost is taken back. `QuitObeyed` rests on
  `FlagInv`: the flag is down whenever the piece handled last reads like a quit, so the loop is
  not entered again, and it is only ever down when some piece read like one.
* `ConnectionProofs`. Any number of addresses, any bound on the stream. `FdInv` says how far
  the list of addresses `GetConnectionFd` is at each place and which sockets are
  open: those tried before, less the one that was closed. `OnePerLine` needs
  `Lines`, that the stream also ends in a line end or a PONG, since the next message begins
  with a line end unless it is a PONG.
* `IRCMessageProofs`. About lines of any length over any symbols: `FindsFirst`
  is what `std::string::find` promises, `ViewOf` what a `string_view` holds. From them
  `UserFieldsMakeSource` (the fields of a user make up the source), `SourceParsedBack` (they are
  the names the server put there, if the nickname has no '!' and the username no '@'),
  and `QuitsOnlyForAdmin` with its converse `QuitsForAdmin`: comparing the three fields with
  the admin's is as good as comparing the whole source.
  `ParserAcceptsGrammar` and `ParserLosesNothing` are about the constructor with its loops. `CutsFound`
  says that its searches find the cuts of the grammar, which are unique. Its two loops are
  recursive functions from positions to lists: `RecursionExists` shows that
  the equation of such a function has a solution, `UnrollsInto` that the function unrolls
  along the positions the loop visits, and `ChainElements` that the list then has one element
  for each of them, in order; `NextWordStart` and `NextKeyStart` say that the positions
  visited are exactly the starts of words and of keys. The induction is the least number
  principle (`MinIsLeast`), which the library has without an operator parameter.
  `AssertsOnIncomplete` tells from the line alone when one of the assertions in `IRC.cc:191`,
  `IRC.cc:201` and `Manager.cc:106` fails, and `UserMessagesReachHandler` with which arguments a
  user's NICK, JOIN, PART or PRIVMSG reaches its handler.
  The theorems about `line` assume that it is a sequence of strings, as in the run.
  `Space` and `Semicolon` have names because the SMT backend cannot encode these literals.

Only model-checked: liveness under fairness (`MainReturns`, the fairness part of
`ImplementsPool`, `ReadyFdServed`, `PartCompletes`, `NicknameCatchesUp`, `CommandFinishes`,
`EverythingRead`, `Settles`), which the proof system does not handle; and `ServerMessagesHandled`
and `TailAssertsWithoutUser`, which are about the finite list of messages in `Conforming` and their
tails: TLC evaluates all of them, and the two theorems above generalize them to every line
as far as users' messages and assertions go (PING and numerics are left to the list).
Every other invariant of a passing run is a theorem.

## 6. Not modelled

Every component with state or control of its own is modelled. What is left is the
composition of `Worker` with `EpollManager`'s loop: they meet in one level-triggered
registration (`Readable`), so little is to be learned from the product.

Left out for good: `Database` (a handle nobody opens, a declared but unimplemented
cache), `StackPtr` (a staging template without a user), option parsing (sequential,
nothing left of it after start-up), logging, formatting, `DumpInfo` and the unused
predicates of namespace `Message`. The views of a parsed line into the string it
was made from, which is moved (`IRC.hh:169`), are below the level of the models: the
original outlives them in `ProcessMessageLine`.
