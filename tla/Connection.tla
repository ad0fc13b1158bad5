----------------------------- MODULE Connection -----------------------------
(***************************************************************************)
(* A connection from its first socket to its QUIT: GetConnectionFd tries   *)
(* the addresses of the server, ConnectionNew and main decide whether      *)
(* there is a server, the thread's lambda logs in, joins and serves, and   *)
(* ~Server sends QUIT and closes.  What is sent is kept as the server sees *)
(* it, a stream of messages and line ends: a message is complete for the   *)
(* server when a line end follows it.                                      *)
(***************************************************************************)
EXTENDS Integers, Sequences, FiniteSets, SequencesExt

CONSTANTS
  MaxAddrs,  \* how many addresses getaddrinfo finds at most
  MaxSent    \* bound on the length of the stream while the bot serves

ASSUME BoundsAssumption == MaxAddrs \in Nat \ {0} /\ MaxSent \in Nat

VARIABLES
  pc,        \* where main or the server's thread is
  addrs,     \* the number of addresses
  i,         \* the one to try next
  fd,        \* the socket, by the address it is for, or -1
  open,      \* the sockets that are open
  conn,      \* the sockets that were connected
  password,  \* a password was given with -x
  out        \* what the server has received

sockets == <<addrs, i, fd, open, conn>>
vars == <<pc, sockets, password, out>>

PCs == {"resolve", "try", "made", "login", "join", "hello", "serve", "drop",
        "ended", "usage"}
Messages == {"USER", "NICK", "IDENTIFY", "JOIN", "HELLO", "REPLY", "PONG", "QUIT"}
LineEnds == {"CR", "LF"}

-----------------------------------------------------------------------------
(* GetConnectionFd                                                         *)

\* getaddrinfo finds some addresses, or fails and leaves fd at -1.
Resolve ==
  /\ pc = "resolve"
  /\ pc' \in {"try", "made"}
  /\ UNCHANGED <<sockets, password, out>>

\* socket() fails: the loop ends with fd at -1, whatever is left to try.
SocketFails ==
  /\ pc = "try"
  /\ fd' = -1
  /\ pc' = "made"
  /\ UNCHANGED <<addrs, i, open, conn, password, out>>

\* Mutant: the loop goes on to the next address after a success.
ConnectedNext == IF i < addrs THEN pc' = "try" /\ i' = i + 1
                 ELSE pc' = "made" /\ i' = i

\* connect() == 0: the loop ends.
Connected == pc' = "made" /\ i' = i

Connect ==
  /\ pc = "try"
  /\ fd' = i
  /\ open' = open \cup {i}
  /\ conn' = conn \cup {i}
  /\ Connected
  /\ UNCHANGED <<addrs, password, out>>

\* Mutant: after the last address the list is tried again.
RefusedRetries == pc' = "try" /\ i' = (i % addrs) + 1

\* On to the next address; behind the last one fd is the socket just made.
Refused == IF i < addrs THEN pc' = "try" /\ i' = i + 1
           ELSE pc' = "made" /\ i' = i

\* connect() fails, and nobody closes the socket.
ConnectFails ==
  /\ pc = "try"
  /\ fd' = i
  /\ open' = open \cup {i}
  /\ Refused
  /\ UNCHANGED <<addrs, conn, password, out>>

\* ConnectionNew and main: a server for any descriptor, usage() and exit
\* without one.
ConnectionNew ==
  /\ pc = "made"
  /\ pc' = IF fd < 0 THEN "usage" ELSE "login"
  /\ UNCHANGED <<sockets, password, out>>

-----------------------------------------------------------------------------
(* The server's thread                                                     *)

\* Mutant: a message has no line end in front of it.
FramedBehind(m) == <<m, "CR", "LF">>

\* Every message but PONG has a line end on both sides.
Framed(m) == <<"CR", m, "CR", "LF">>

\* send() may fail on any socket, and does on one that is not connected.
\* The server receives the message if it does not.
MaySucceed(ok) == ok => fd \in conn
Received(m, ok) == IF ok THEN m ELSE << >>

\* Mutant: failures of USER and NICK are logged only.
LoginFailsOnIdentify(ok) == password /\ ~ok[3]

\* The return value of Login: with a password, that of its last message.
LoginFails(ok) == IF password THEN ~ok[3] ELSE ~ok[1] \/ ~ok[2]

\* IRC::Login: USER, NICK and, with a password, a message to NickServ.  The
\* lambda returns when it fails.
Login ==
  /\ pc = "login"
  /\ \E ok \in [1..3 -> BOOLEAN] :
       /\ \A k \in 1..3 : MaySucceed(ok[k])
       /\ ~password => ~ok[3]
       /\ out' = out \o Received(Framed("USER"), ok[1]) \o Received(Framed("NICK"), ok[2])
                     \o Received(Framed("IDENTIFY"), ok[3])
       /\ pc' = IF LoginFails(ok) THEN "drop" ELSE "join"
  /\ UNCHANGED <<sockets, password>>

\* One message whose result the caller only logs.
Send(m, from, to) ==
  /\ pc = from
  /\ pc' = to
  /\ \E ok \in BOOLEAN : MaySucceed(ok) /\ out' = out \o Received(m, ok)
  /\ UNCHANGED <<password>>

JoinChannel == Send(Framed("JOIN"), "join", "hello") /\ UNCHANGED sockets
SendChannel == Send(Framed("HELLO"), "hello", "serve") /\ UNCHANGED sockets

\* WorkerRun answers user commands and PINGs.
Reply == /\ Len(out) < MaxSent
         /\ Send(Framed("REPLY"), "serve", "serve")
         /\ UNCHANGED sockets

BuiltinPong == /\ Len(out) < MaxSent
               /\ Send(<<"PONG">>, "serve", "serve")
               /\ UNCHANGED sockets

LeaveLoop ==
  /\ pc = "serve"
  /\ pc' = "drop"
  /\ UNCHANGED <<sockets, password, out>>

\* ~Server and ~IRC: QUIT, a poll that is over after five seconds, close.
Quit ==
  /\ Send(Framed("QUIT"), "drop", "ended")
  /\ open' = open \ {fd}
  /\ UNCHANGED <<addrs, i, fd, conn>>

-----------------------------------------------------------------------------
Init ==
  /\ pc = "resolve"
  /\ addrs \in 1..MaxAddrs
  /\ i = 1
  /\ fd = -1
  /\ open = {} /\ conn = {}
  /\ password \in BOOLEAN
  /\ out = << >>

SetUpStep == Resolve \/ SocketFails \/ Connect \/ ConnectFails \/ ConnectionNew
ThreadStep == Login \/ JoinChannel \/ SendChannel \/ Quit
Finished == pc \in {"ended", "usage"} /\ UNCHANGED vars

Next == SetUpStep \/ ThreadStep \/ Reply \/ BuiltinPong \/ LeaveLoop \/ Finished

\* main and the thread are scheduled, and connect() returns.
Spec == Init /\ [][Next]_vars /\ WF_vars(SetUpStep \/ ThreadStep)

-----------------------------------------------------------------------------
(* Properties                                                              *)

\* Every variable stays in its type.
TypeOK ==
  /\ pc \in PCs
  /\ addrs \in 1..MaxAddrs /\ i \in 1..addrs
  /\ fd \in {-1} \cup 1..addrs
  /\ conn \subseteq 1..addrs /\ open \subseteq 1..addrs
  /\ password \in BOOLEAN
  /\ out \in Seq(Messages \cup LineEnds)

\* A socket that GetConnectionFd hands out unconnected is that of the last address,
\* after every one of them refused.  (A socket() that fails ends the loop at once,
\* at whichever address, and nothing is handed out.)
RefusedEverywhere ==
  pc = "made" /\ fd # -1 /\ fd \notin conn => conn = {} /\ open = 1..addrs

\* Sockets of refused addresses stay open, but never the one that serves: a
\* connected socket is the server's until it is closed.
ConnectedNotLeaked ==
  /\ conn \cap open \subseteq {fd}
  /\ pc = "ended" => conn \cap open = {}
  /\ Cardinality(open \ {fd}) < addrs

\* The three together: what is known of every socket GetConnectionFd made.
SocketsInv == TypeOK /\ RefusedEverywhere /\ ConnectedNotLeaked

\* ConnectionNew takes an unconnected socket for a server, but such a server
\* never gets to WorkerRun; and when the bot serves, the IRC server has its USER
\* and NICK, or at least its identification where Login forgets a failure.
ServesLoggedIn ==
  pc \in {"join", "hello", "serve"} =>
    /\ fd \in conn
    /\ IF password THEN Contains(out, "IDENTIFY")
       ELSE IsPrefix(Framed("USER") \o Framed("NICK"), out)

\* The server sees one message per line: a PONG, which is sent without a line
\* end, may run into another PONG but into nothing else.
OneMessagePerLine ==
  \A k \in 1..(Len(out) - 1) :
    {out[k], out[k + 1]} \cap LineEnds = {} => out[k] = "PONG" /\ out[k + 1] = "PONG"

\* However many addresses refuse and sends fail, main ends or the bot serves.
Settles == <>(pc \in {"serve", "ended", "usage"})
=============================================================================
