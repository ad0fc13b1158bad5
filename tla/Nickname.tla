------------------------------ MODULE Nickname ------------------------------
(***************************************************************************)
(* The bot's nickname and the routing of its replies.  The nickname member *)
(* of Server is not set by SetNickname, which only sends a request: it     *)
(* follows the NICK messages the IRC server sends, among them those of     *)
(* other users.  SendInvokerReply compares the addressee of a command with *)
(* that nickname to tell a private message from one to a channel, so a     *)
(* nickname that lags behind would send answers to the wrong place.        *)
(*                                                                         *)
(* The IRC server and the other users are external; one ordered connection *)
(* carries the traffic.  The bot is logged in under Initial.               *)
(***************************************************************************)
EXTENDS Naturals, Sequences

CONSTANTS
  Nicks,        \* nicknames
  Users,        \* the other users
  Admin,        \* the user IsUserCapable knows ...
  AdminNick,    \* ... and the nickname it has to have
  Initial,      \* the nickname the bot logged in with
  Channel,      \* a channel the bot and the users are in
  MaxInFlight   \* bound on messages in flight

ASSUME NickAssumption ==
  /\ AdminNick \in Nicks /\ Initial \in Nicks /\ Initial # AdminNick
  /\ Admin \in Users /\ Channel \notin Nicks
ASSUME MaxInFlightAssumption == MaxInFlight \in Nat \ {0}

VARIABLES
  nickname,   \* Server::nickname
  toServer,   \* new nicknames asked for with NICK
  toBot,      \* NICK and PRIVMSG messages not yet handled by the bot
  srvNick,    \* the nickname the server knows the bot by
  userNick,   \* the nickname of every other user
  reply       \* the reply sent by the last handler, if it sent one

vars == <<nickname, toServer, toBot, srvNick, userNick, reply>>

\* A user command: its name, the number of its arguments and the first one.
Commands ==
  [name : {"hi"}, args : {0, 1}, arg : {Initial}]
    \cup [name : {"nick"}, args : {1}, arg : Nicks]
    \cup [name : {"nick"}, args : {0}, arg : {Initial}]

NickMsgs == [type : {"NICK"}, old : Nicks, new : Nicks]
PrivMsgs == [type : {"PRIVMSG"}, user : Users, source : Nicks,
             target : Nicks \cup {Channel}, command : Commands]

\* A reply: where it goes, and the message it answers.
NoReply == [to |-> "nobody"]
Replies == [to : Nicks \cup {Channel}, msg : PrivMsgs]

InFlight == Len(toServer) + Len(toBot)

-----------------------------------------------------------------------------
(* The bot                                                                 *)

\* Mutant: the comparison with the current nickname is dropped.
UpdateAlways(old, new) == nickname' = new

\* Server::UpdateNickname: only a change of the bot's own nickname counts.
UpdateNickname(old, new) ==
  nickname' = IF old = nickname THEN new ELSE nickname

\* BuiltinNickname.
HandleNick ==
  /\ toBot # <<>>
  /\ Head(toBot).type = "NICK"
  /\ UpdateNickname(Head(toBot).old, Head(toBot).new)
  /\ toBot' = Tail(toBot)
  /\ reply' = NoReply
  /\ UNCHANGED <<toServer, srvNick, userNick>>

\* Mutant: the addressee is compared with the nickname of the login.
ReplyToInitial(msg) ==
  reply' = [to |-> IF msg.target = Initial THEN msg.source ELSE msg.target,
            msg |-> msg]

\* A command that was addressed to the bot is answered to its author, one in
\* a channel in the channel.
SendInvokerReply(msg) ==
  reply' = [to |-> IF msg.target = nickname THEN msg.source ELSE msg.target,
            msg |-> msg]

IsUserCapable(msg) == msg.user = Admin /\ msg.source = AdminNick

\* ExpectArgsRange with the bounds of the command table.
ExpectArgsRange(command) ==
  command.args \in (IF command.name = "hi" THEN {0} ELSE {1})

\* Mutant: SetNickname changes the member at once.
SetNicknameNow(new) ==
  /\ toServer' = Append(toServer, new)
  /\ nickname' = new

\* SetNickname: the request may fail to be sent; the member is left alone.
SetNickname(new) ==
  /\ toServer' \in {Append(toServer, new), toServer}
  /\ UNCHANGED nickname

\* BuiltinPrivMsg, UserCommandForward and the commands hi and nick.
HandlePrivMsg ==
  /\ toBot # <<>>
  /\ Head(toBot).type = "PRIVMSG"
  /\ LET msg == Head(toBot)
     IN \/ /\ \/ ~ExpectArgsRange(msg.command)
              \/ msg.command.name = "hi"
              \/ msg.command.name = "nick" /\ ~IsUserCapable(msg)
           /\ SendInvokerReply(msg)
           /\ UNCHANGED <<toServer, nickname>>
        \/ /\ ExpectArgsRange(msg.command)
           /\ msg.command.name = "nick" /\ IsUserCapable(msg)
           /\ SetNickname(msg.command.arg)
           /\ reply' = NoReply
  /\ toBot' = Tail(toBot)
  /\ UNCHANGED <<srvNick, userNick>>

-----------------------------------------------------------------------------
(* The IRC server and the other users                                      *)

InUse == {srvNick} \cup {userNick[u] : u \in Users}

NickMsg(old, new) == [type |-> "NICK", old |-> old, new |-> new]

\* The bot's request: refused when the nickname is taken, with an error the
\* bot does not look at.
ServerNick ==
  /\ toServer # <<>>
  /\ toServer' = Tail(toServer)
  /\ LET new == Head(toServer)
     IN \/ new \in InUse /\ UNCHANGED <<srvNick, toBot>>
        \/ /\ new \notin InUse
           /\ srvNick' = new
           /\ toBot' = Append(toBot, NickMsg(srvNick, new))
  /\ UNCHANGED <<nickname, userNick, reply>>

\* Another user changes its nickname; it may take one the bot gave up.
UserNick(u, new) ==
  /\ InFlight < MaxInFlight
  /\ new \notin InUse
  /\ userNick' = [userNick EXCEPT ![u] = new]
  /\ toBot' = Append(toBot, NickMsg(userNick[u], new))
  /\ UNCHANGED <<nickname, toServer, srvNick, reply>>

\* A user gives a command, in the channel or in private.
UserCommand(u, target, command) ==
  /\ InFlight < MaxInFlight
  /\ toBot' = Append(toBot, [type |-> "PRIVMSG", user |-> u, source |-> userNick[u],
                             target |-> target, command |-> command])
  /\ UNCHANGED <<nickname, toServer, srvNick, userNick, reply>>

-----------------------------------------------------------------------------
Init ==
  /\ nickname = Initial
  /\ toServer = <<>>
  /\ toBot = <<>>
  /\ srvNick = Initial
  /\ userNick \in [Users -> Nicks \ {Initial}]
  /\ \A u, v \in Users : u # v => userNick[u] # userNick[v]
  /\ userNick[Admin] = AdminNick
  /\ reply = NoReply

Handle == HandleNick \/ HandlePrivMsg

Next ==
  \/ Handle
  \/ ServerNick
  \/ \E u \in Users :
       \/ \E new \in Nicks : UserNick(u, new)
       \/ \E target \in {srvNick, Channel}, command \in Commands :
            UserCommand(u, target, command)

\* The event loop handles what arrives and the server what it is sent.
Spec == Init /\ [][Next]_vars /\ WF_vars(Handle) /\ WF_vars(ServerNick)

-----------------------------------------------------------------------------
(* Properties                                                              *)

\* Every variable stays in its type.
TypeOK ==
  /\ nickname \in Nicks
  /\ toServer \in Seq(Nicks)
  /\ toBot \in Seq(NickMsgs \cup PrivMsgs)
  /\ srvNick \in Nicks
  /\ userNick \in [Users -> Nicks]
  /\ reply \in Replies \cup {NoReply}

\* The nickname after a message.
Applied(nick, msg) ==
  IF msg.type = "NICK" /\ msg.old = nick THEN msg.new ELSE nick

\* The nicknames the bot goes through as it handles the messages in flight: the
\* i-th is the one it has after the first i of them.
IsTrail(f) ==
  /\ f[0] = nickname
  /\ \A i \in 1..Len(toBot) : f[i] = Applied(f[i - 1], toBot[i])

\* The nickname member is never wrong, only late: once the messages in flight
\* are applied it is the one the server knows, although other users rename
\* themselves too and take up nicknames the bot has left.
NicknameTracks ==
  \E f \in [0..Len(toBot) -> Nicks] : IsTrail(f) /\ f[Len(toBot)] = srvNick

\* Both: the nickname is one of the network's and the right one, but for delay.
NicknameInv == TypeOK /\ NicknameTracks

\* A reply reaches its reader: a private command is answered to its author
\* and never to the bot itself, a command in the channel in the channel.
RepliesRouted ==
  reply # NoReply =>
    reply.to = IF reply.msg.target = Channel THEN Channel ELSE reply.msg.source

\* Once the server settles on a nickname for the bot, the bot settles on it too.
NicknameCatchesUp == \A n \in Nicks : <>[](srvNick = n) => <>[](nickname = n)
=============================================================================
