--------------------------- MODULE NicknameProofs ---------------------------
(***************************************************************************)
(* Proof that the nickname is only ever late and that replies reach their  *)
(* reader, for every set of nicknames and users and every number of        *)
(* messages in flight.                                                     *)
(***************************************************************************)
EXTENDS Nickname, SequenceTheorems, TLAPS

Msgs == NickMsgs \cup PrivMsgs

\* A command in flight is for the channel or for the nickname the bot will
\* have when it gets to it.
Addressed(nick, msg) == msg.type = "PRIVMSG" => msg.target \in {Channel, nick}

\* f leads from nickname a to nickname b along the messages q, every one of
\* them addressed to the nickname of the moment.
Leads(f, q, a, b) ==
  /\ f \in [0..Len(q) -> Nicks]
  /\ f[0] = a /\ f[Len(q)] = b
  /\ \A i \in 1..Len(q) : f[i] = Applied(f[i - 1], q[i]) /\ Addressed(f[i - 1], q[i])

TrailInv == \E f : Leads(f, toBot, nickname, srvNick)

\* No user has the bot's nickname: the server refuses the second one.
NoClash == \A u \in Users : userNick[u] # srvNick

IInv == TypeOK /\ TrailInv /\ NoClash /\ RepliesRouted

-----------------------------------------------------------------------------
\* Handling a message leaves a nickname a nickname.
LEMMA AppliedType ==
  ASSUME NEW nick \in Nicks, NEW msg \in Msgs
  PROVE  Applied(nick, msg) \in Nicks
BY DEF Applied, Msgs, NickMsgs, PrivMsgs

\* One message more in flight.
LEMMA LeadsAppend ==
  ASSUME NEW q \in Seq(Msgs), NEW m \in Msgs, NEW f, NEW a, NEW b \in Nicks,
         Leads(f, q, a, b), Addressed(b, m)
  PROVE  \E g : Leads(g, Append(q, m), a, Applied(b, m))
<1> DEFINE n == Len(q)
           p == Append(q, m)
           g == [i \in 0..(n + 1) |-> IF i <= n THEN f[i] ELSE Applied(b, m)]
<1>1. n \in Nat /\ Len(p) = n + 1 /\ p[n + 1] = m /\ \A i \in 1..n : p[i] = q[i]
  OBVIOUS
<1>2. /\ f \in [0..n -> Nicks] /\ f[0] = a /\ f[n] = b
      /\ \A i \in 1..n : f[i] = Applied(f[i - 1], q[i]) /\ Addressed(f[i - 1], q[i])
  BY DEF Leads
<1> HIDE DEF n, p
<1>3. g \in [0..Len(p) -> Nicks]
  BY <1>1, <1>2, AppliedType
<1>4. g[0] = a /\ g[Len(p)] = Applied(b, m) /\ g[n] = b
  BY <1>1, <1>2
<1>5. ASSUME NEW i \in 1..n
      PROVE  g[i] = Applied(g[i - 1], p[i]) /\ Addressed(g[i - 1], p[i])
  <2>1. i \in 0..(n + 1) /\ i - 1 \in 0..(n + 1) /\ i <= n /\ i - 1 <= n
    BY <1>1
  <2>2. g[i] = f[i] /\ g[i - 1] = f[i - 1] /\ p[i] = q[i]
    BY <1>1, <2>1
  <2> QED BY <1>2, <2>2
<1>6. g[n + 1] = Applied(g[(n + 1) - 1], p[n + 1]) /\ Addressed(g[(n + 1) - 1], p[n + 1])
  BY <1>1, <1>4
<1>7. \A i \in 1..Len(p) : i \in 1..n \/ i = n + 1
  BY <1>1
<1>8. \A i \in 1..Len(p) : g[i] = Applied(g[i - 1], p[i]) /\ Addressed(g[i - 1], p[i])
  BY <1>5, <1>6, <1>7
<1> HIDE DEF g
<1>9. Leads(g, p, a, Applied(b, m))
  BY <1>3, <1>4, <1>8 DEF Leads
<1> QED BY <1>9 DEF p

\* The first message handled.
LEMMA LeadsTail ==
  ASSUME NEW q \in Seq(Msgs), q # <<>>, NEW f, NEW a, NEW b, Leads(f, q, a, b)
  PROVE  /\ Addressed(a, Head(q))
         /\ \E g : Leads(g, Tail(q), Applied(a, Head(q)), b)
<1> DEFINE n == Len(q)
           p == Tail(q)
           g == [i \in 0..(n - 1) |-> f[i + 1]]
<1>1. n \in Nat /\ n > 0 /\ Len(p) = n - 1 /\ q[1] = Head(q)
      /\ \A i \in 1..(n - 1) : p[i] = q[i + 1]
  OBVIOUS
<1>2. /\ f \in [0..n -> Nicks] /\ f[0] = a /\ f[n] = b
      /\ \A i \in 1..n : f[i] = Applied(f[i - 1], q[i]) /\ Addressed(f[i - 1], q[i])
  BY DEF Leads
<1> HIDE DEF n, p
<1>3. f[1] = Applied(a, Head(q)) /\ Addressed(a, Head(q))
  <2>1. 1 \in 1..n /\ 1 - 1 = 0
    BY <1>1
  <2> QED BY <1>1, <1>2, <2>1
<1>4. g \in [0..Len(p) -> Nicks]
  BY <1>1, <1>2
<1>5. g[0] = Applied(a, Head(q)) /\ g[Len(p)] = b
  BY <1>1, <1>2, <1>3
<1>6. ASSUME NEW i \in 1..Len(p)
      PROVE  g[i] = Applied(g[i - 1], p[i]) /\ Addressed(g[i - 1], p[i])
  <2>1. i \in 0..(n - 1) /\ i - 1 \in 0..(n - 1) /\ i + 1 \in 1..n
        /\ (i - 1) + 1 = i /\ (i + 1) - 1 = i
    BY <1>1
  <2>2. g[i] = f[i + 1] /\ g[i - 1] = f[i] /\ p[i] = q[i + 1]
    BY <1>1, <2>1
  <2>3. f[i + 1] = Applied(f[i], q[i + 1]) /\ Addressed(f[i], q[i + 1])
    BY <1>2, <2>1
  <2> QED BY <2>2, <2>3
<1> HIDE DEF g
<1>7. Leads(g, p, Applied(a, Head(q)), b)
  BY <1>4, <1>5, <1>6 DEF Leads
<1> QED BY <1>3, <1>7 DEF p

-----------------------------------------------------------------------------
\* The message at the head of the queue is one of the two kinds.
LEMMA HeadType ==
  ASSUME TypeOK, toBot # <<>>
  PROVE  /\ toBot \in Seq(Msgs) /\ Tail(toBot) \in Seq(Msgs)
         /\ Head(toBot).type = "NICK" => Head(toBot) \in NickMsgs
         /\ Head(toBot).type = "PRIVMSG" => Head(toBot) \in PrivMsgs
<1>1. toBot \in Seq(Msgs)
  BY DEF TypeOK, Msgs
<1>2. Head(toBot) \in Msgs /\ Tail(toBot) \in Seq(Msgs)
  BY <1>1
<1> QED BY <1>1, <1>2 DEF Msgs, NickMsgs, PrivMsgs

\* Type correctness of every step.
LEMMA TypeStep == TypeOK /\ [Next]_vars => TypeOK'
<1> SUFFICES ASSUME TypeOK, [Next]_vars PROVE TypeOK'
  OBVIOUS
<1>1. CASE HandleNick
  <2>1. Head(toBot) \in NickMsgs /\ Tail(toBot) \in Seq(Msgs)
    BY <1>1, HeadType DEF HandleNick
  <2>2. nickname' \in Nicks
    BY <1>1, <2>1 DEF HandleNick, UpdateNickname, NickMsgs, TypeOK
  <2> QED BY <1>1, <2>1, <2>2 DEF HandleNick, TypeOK, Msgs
<1>2. CASE HandlePrivMsg
  <2> DEFINE msg == Head(toBot)
  <2>1. msg \in PrivMsgs /\ Tail(toBot) \in Seq(Msgs)
    BY <1>2, HeadType DEF HandlePrivMsg
  <2>2. msg.source \in Nicks /\ msg.target \in Nicks \cup {Channel} /\ msg.command.arg \in Nicks
    BY <2>1, NickAssumption DEF PrivMsgs, Commands
  <2>3. SendInvokerReply(msg) => reply' \in Replies
    BY <2>1, <2>2 DEF SendInvokerReply, Replies
  <2>4. SetNickname(msg.command.arg) => toServer' \in Seq(Nicks) /\ UNCHANGED nickname
    BY <2>2 DEF SetNickname, TypeOK
  <2>5. /\ SendInvokerReply(msg) \/ reply' = NoReply
        /\ SetNickname(msg.command.arg) \/ UNCHANGED <<toServer, nickname>>
        /\ toBot' = Tail(toBot) /\ UNCHANGED <<srvNick, userNick>>
    BY <1>2 DEF HandlePrivMsg
  <2> HIDE DEF msg
  <2> QED BY <2>1, <2>3, <2>4, <2>5 DEF TypeOK, Msgs
<1>3. CASE ServerNick
  <2>1. Head(toServer) \in Nicks /\ Tail(toServer) \in Seq(Nicks)
    BY <1>3 DEF ServerNick, TypeOK
  <2>2. NickMsg(srvNick, Head(toServer)) \in NickMsgs
    BY <2>1 DEF NickMsg, NickMsgs, TypeOK
  <2>3. toBot' \in Seq(NickMsgs \cup PrivMsgs) /\ srvNick' \in Nicks
    BY <1>3, <2>1, <2>2 DEF ServerNick, TypeOK
  <2> QED BY <1>3, <2>1, <2>3 DEF ServerNick, TypeOK
<1>4. ASSUME NEW u \in Users, NEW new \in Nicks, UserNick(u, new) PROVE TypeOK'
  <2>1. NickMsg(userNick[u], new) \in NickMsgs
    BY DEF NickMsg, NickMsgs, TypeOK
  <2>2. Append(toBot, NickMsg(userNick[u], new)) \in Seq(NickMsgs \cup PrivMsgs)
    BY <2>1 DEF TypeOK
  <2> QED BY <1>4, <2>2 DEF UserNick, TypeOK
<1>5. ASSUME NEW u \in Users, NEW target \in {srvNick, Channel}, NEW command \in Commands,
             UserCommand(u, target, command)
      PROVE  TypeOK'
  <2>1. [type |-> "PRIVMSG", user |-> u, source |-> userNick[u],
         target |-> target, command |-> command] \in PrivMsgs
    BY DEF PrivMsgs, TypeOK
  <2>2. toBot' \in Seq(NickMsgs \cup PrivMsgs)
    BY <1>5, <2>1 DEF UserCommand, TypeOK
  <2> QED BY <1>5, <2>2 DEF UserCommand, TypeOK
<1>6. CASE UNCHANGED vars
  BY <1>6 DEF vars, TypeOK
<1> QED BY <1>1, <1>2, <1>3, <1>4, <1>5, <1>6 DEF Next, Handle

\* The nicknames of the network stay apart.
LEMMA NoClashStep == TypeOK /\ NoClash /\ [Next]_vars => NoClash'
<1> SUFFICES ASSUME TypeOK, NoClash, [Next]_vars PROVE NoClash'
  OBVIOUS
<1>1. CASE Handle
  BY <1>1 DEF Handle, HandleNick, HandlePrivMsg, NoClash
<1>2. CASE ServerNick
  BY <1>2 DEF ServerNick, InUse, NoClash
<1>3. ASSUME NEW u \in Users, NEW new \in Nicks, UserNick(u, new) PROVE NoClash'
  BY <1>3 DEF UserNick, InUse, NoClash, TypeOK
<1>4. ASSUME NEW u \in Users, NEW target \in {srvNick, Channel}, NEW command \in Commands,
             UserCommand(u, target, command)
      PROVE  NoClash'
  BY <1>4 DEF UserCommand, NoClash
<1>5. CASE UNCHANGED vars
  BY <1>5 DEF vars, NoClash
<1> QED BY <1>1, <1>2, <1>3, <1>4, <1>5 DEF Next

\* Every step keeps the trail, and sends only replies that are routed well.
LEMMA TrailStep == IInv /\ [Next]_vars => TrailInv' /\ RepliesRouted'
<1> SUFFICES ASSUME IInv, [Next]_vars PROVE TrailInv' /\ RepliesRouted'
  OBVIOUS
<1>f. PICK f : Leads(f, toBot, nickname, srvNick)
  BY DEF IInv, TrailInv
<1>t. toBot \in Seq(Msgs) /\ srvNick \in Nicks /\ nickname \in Nicks
  BY DEF IInv, TypeOK, Msgs
<1>h. ASSUME toBot # <<>>, nickname' = Applied(nickname, Head(toBot)), toBot' = Tail(toBot),
             srvNick' = srvNick
      PROVE  TrailInv'
  BY <1>f, <1>h, <1>t, LeadsTail DEF TrailInv
<1>a. ASSUME NEW m \in Msgs, Addressed(srvNick, m), toBot' = Append(toBot, m),
             srvNick' = Applied(srvNick, m), nickname' = nickname
      PROVE  TrailInv'
  <2>1. \E g : Leads(g, Append(toBot, m), nickname, Applied(srvNick, m))
    BY <1>f, <1>a, <1>t, LeadsAppend
  <2> QED BY <1>a, <2>1 DEF TrailInv
<1>r. UNCHANGED reply => RepliesRouted'
  BY DEF IInv, RepliesRouted
<1>1. CASE HandleNick
  <2>1. TrailInv'
    BY <1>1, <1>h DEF HandleNick, UpdateNickname, Applied
  <2> QED BY <1>1, <2>1 DEF HandleNick, RepliesRouted
<1>2. CASE HandlePrivMsg
  <2> DEFINE msg == Head(toBot)
  <2>1. msg \in PrivMsgs
    BY <1>2, HeadType DEF HandlePrivMsg, IInv
  <2>2. toBot # <<>> /\ msg.type = "PRIVMSG" /\ toBot' = Tail(toBot)
        /\ UNCHANGED <<srvNick, nickname>>
    BY <1>2 DEF HandlePrivMsg, SetNickname
  <2>3. nickname' = Applied(nickname, msg)
    BY <2>2 DEF Applied
  <2>4. TrailInv'
    BY <1>h, <2>2, <2>3
  <2>5. msg.target \in {Channel, nickname}
    BY <1>f, <1>t, <2>2, LeadsTail DEF Addressed
  <2>6. SendInvokerReply(msg) => RepliesRouted'
    BY <1>t, <2>5, NickAssumption DEF SendInvokerReply, RepliesRouted
  <2>7. reply' = NoReply => RepliesRouted'
    BY DEF RepliesRouted
  <2> QED BY <1>2, <2>4, <2>6, <2>7 DEF HandlePrivMsg
<1>3. CASE ServerNick
  <2>1. CASE UNCHANGED <<srvNick, toBot>>
    BY <1>3, <1>r, <2>1 DEF ServerNick, IInv, TrailInv
  <2>2. CASE /\ srvNick' = Head(toServer)
             /\ toBot' = Append(toBot, NickMsg(srvNick, Head(toServer)))
    <3>1. Head(toServer) \in Nicks
      BY <1>3 DEF ServerNick, IInv, TypeOK
    <3>2. /\ NickMsg(srvNick, Head(toServer)) \in Msgs
          /\ Applied(srvNick, NickMsg(srvNick, Head(toServer))) = Head(toServer)
          /\ Addressed(srvNick, NickMsg(srvNick, Head(toServer)))
      BY <1>t, <3>1 DEF NickMsg, Msgs, NickMsgs, Applied, Addressed
    <3>3. TrailInv'
      BY <1>3, <1>a, <2>2, <3>2 DEF ServerNick
    <3> QED BY <1>3, <1>r, <3>3 DEF ServerNick
  <2> QED BY <1>3, <2>1, <2>2 DEF ServerNick
<1>4. ASSUME NEW u \in Users, NEW new \in Nicks, UserNick(u, new)
      PROVE  TrailInv' /\ RepliesRouted'
  <2> DEFINE m == NickMsg(userNick[u], new)
  <2>1. m \in Msgs /\ Applied(srvNick, m) = srvNick /\ Addressed(srvNick, m)
    BY DEF NickMsg, Msgs, NickMsgs, Applied, Addressed, IInv, TypeOK, NoClash
  <2>2. toBot' = Append(toBot, m) /\ UNCHANGED <<nickname, srvNick, reply>>
    BY <1>4 DEF UserNick
  <2> QED BY <1>a, <1>r, <2>1, <2>2
<1>5. ASSUME NEW u \in Users, NEW target \in {srvNick, Channel}, NEW command \in Commands,
             UserCommand(u, target, command)
      PROVE  TrailInv' /\ RepliesRouted'
  <2> DEFINE m == [type |-> "PRIVMSG", user |-> u, source |-> userNick[u],
                   target |-> target, command |-> command]
  <2>1. m \in Msgs /\ Applied(srvNick, m) = srvNick /\ Addressed(srvNick, m)
    BY DEF Msgs, PrivMsgs, Applied, Addressed, IInv, TypeOK
  <2>2. toBot' = Append(toBot, m) /\ UNCHANGED <<nickname, srvNick, reply>>
    BY <1>5 DEF UserCommand
  <2> QED BY <1>a, <1>r, <2>1, <2>2
<1>6. CASE UNCHANGED vars
  BY <1>6, <1>r DEF vars, IInv, TrailInv
<1> QED BY <1>1, <1>2, <1>3, <1>4, <1>5, <1>6 DEF Next, Handle

-----------------------------------------------------------------------------
\* The inductive invariant.
THEOREM Invariant == Spec => []IInv
<1>1. Init => IInv
  <2> SUFFICES ASSUME Init PROVE IInv
    OBVIOUS
  <2>1. TypeOK /\ NoClash /\ RepliesRouted
    BY NickAssumption DEF Init, TypeOK, NoClash, RepliesRouted
  <2>2. Leads([i \in 0..0 |-> Initial], toBot, nickname, srvNick)
    BY NickAssumption DEF Init, Leads
  <2> QED BY <2>1, <2>2 DEF IInv, TrailInv
<1>2. IInv /\ [Next]_vars => IInv'
  BY TypeStep, NoClashStep, TrailStep DEF IInv
<1> QED BY <1>1, <1>2, PTL DEF Spec

\* Server::nickname is never wrong, only late by the messages in flight, for
\* every number of them and of users who rename themselves.
THEOREM NicknameCorrect == Spec => []NicknameInv
<1>1. IInv => NicknameInv
  <2> SUFFICES ASSUME IInv PROVE NicknameTracks
    BY DEF IInv, NicknameInv
  <2>1. PICK f : Leads(f, toBot, nickname, srvNick)
    BY DEF IInv, TrailInv
  <2> QED BY <2>1 DEF Leads, NicknameTracks, IsTrail
<1> QED BY <1>1, Invariant, PTL

\* SendInvokerReply sends the answer to a private command to its author and
\* the answer to one in the channel to the channel, although it compares with
\* a nickname that may be late: the message that would make it wrong has not
\* been reached yet.
THEOREM RepliesReachReader == Spec => []RepliesRouted
<1>1. IInv => RepliesRouted
  BY DEF IInv
<1> QED BY <1>1, Invariant, PTL
=============================================================================
