-------------------------- MODULE ConnectionProofs --------------------------
(***************************************************************************)
(* Proof of what is known of the sockets, of the login and of the stream   *)
(* the server receives, for every number of addresses and any length of    *)
(* the stream.                                                             *)
(***************************************************************************)
EXTENDS Connection, FiniteSetTheorems, SequenceTheorems, TLAPS

Serves == {"join", "hello", "serve"}
HasServer == Serves \cup {"login", "drop", "ended"}

\* Where GetConnectionFd leaves the sockets: it ran out of descriptors at
\* address i, it connected to it, or it was refused there and at all others.
NoSocket == fd = -1 /\ conn = {} /\ open = 1..(i - 1)
Socket   == /\ fd = i
            /\ conn = {i} \/ (conn = {} /\ i = addrs)
            /\ open = IF pc = "ended" THEN 1..(i - 1) ELSE 1..i

FdInv ==
  /\ pc = "resolve" => NoSocket
  /\ pc = "try" => conn = {} /\ open = 1..(i - 1)
  /\ pc \in {"made", "usage"} => NoSocket \/ Socket
  /\ pc \in HasServer => Socket

\* Nothing is sent before Login, and only a login that went well gets on.
LoginInv ==
  /\ pc \in {"resolve", "try", "made", "login"} => out = <<>>
  /\ ServesLoggedIn

\* A stream of one message per line that ends where another message may follow.
Lines(s) ==
  /\ \A k \in 1..(Len(s) - 1) :
       {s[k], s[k + 1]} \cap LineEnds = {} => s[k] = "PONG" /\ s[k + 1] = "PONG"
  /\ s # <<>> => s[Len(s)] \in LineEnds \cup {"PONG"}

IInv == TypeOK /\ FdInv /\ LoginInv /\ Lines(out)

Chars == Messages \cup LineEnds

\* What one send may give the server.
Parts == {<<>>, <<"PONG">>} \cup {Framed(m) : m \in Messages}

-----------------------------------------------------------------------------
\* A framed message, element by element.
LEMMA FramedElements ==
  ASSUME NEW m \in Messages
  PROVE  /\ Framed(m) \in Seq(Chars) /\ Len(Framed(m)) = 4
         /\ Framed(m)[1] = "CR" /\ Framed(m)[2] = m
         /\ Framed(m)[3] = "CR" /\ Framed(m)[4] = "LF"
BY DEF Framed, Chars, LineEnds

\* What is sent consists of messages and line ends.
LEMMA PartsType ==
  ASSUME NEW p \in Parts
  PROVE  p \in Seq(Chars)
<1>1. CASE p = <<>>
  BY <1>1
<1>2. CASE p = <<"PONG">>
  BY <1>2 DEF Chars, Messages
<1>3. ASSUME NEW m \in Messages, p = Framed(m) PROVE p \in Seq(Chars)
  BY <1>3, FramedElements
<1> QED BY <1>1, <1>2, <1>3 DEF Parts

\* Four elements behind a stream.
LEMMA Behind ==
  ASSUME NEW S, NEW s \in Seq(S), NEW q \in Seq(S), Len(q) = 4
  PROVE  /\ Len(s) \in Nat /\ Len(s \o q) = Len(s) + 4
         /\ \A k \in 1..Len(s) : (s \o q)[k] = s[k]
         /\ (s \o q)[Len(s) + 1] = q[1] /\ (s \o q)[Len(s) + 2] = q[2]
         /\ (s \o q)[Len(s) + 3] = q[3] /\ (s \o q)[Len(s) + 4] = q[4]
<1>1. Len(s) \in Nat
  OBVIOUS
<1>2. /\ Len(s \o q) = Len(s) + Len(q)
      /\ \A k \in 1..(Len(s) + Len(q)) :
           (s \o q)[k] = IF k <= Len(s) THEN s[k] ELSE q[k - Len(s)]
  BY ConcatProperties
<1>3. (s \o q)[Len(s) + 1] = q[1]
  BY <1>1, <1>2
<1>4. (s \o q)[Len(s) + 2] = q[2]
  BY <1>1, <1>2
<1>5. (s \o q)[Len(s) + 3] = q[3]
  BY <1>1, <1>2
<1>6. (s \o q)[Len(s) + 4] = q[4]
  BY <1>1, <1>2
<1>7. \A k \in 1..Len(s) : (s \o q)[k] = s[k]
  BY <1>1, <1>2
<1> QED BY <1>1, <1>2, <1>3, <1>4, <1>5, <1>6, <1>7

\* Sending a framed message keeps one message per line.
LEMMA LinesFramed ==
  ASSUME NEW s \in Seq(Chars), Lines(s), NEW m \in Messages
  PROVE  Lines(s \o Framed(m))
<1> DEFINE p == s \o Framed(m)
           n == Len(s)
<1>1. /\ n \in Nat /\ Len(p) = n + 4
      /\ \A k \in 1..n : p[k] = s[k]
      /\ p[n + 1] = "CR" /\ p[n + 2] = m /\ p[n + 3] = "CR" /\ p[n + 4] = "LF"
  BY FramedElements, Behind DEF Chars
<1> HIDE DEF p, n
<1>2. ASSUME NEW k \in 1..(Len(p) - 1), {p[k], p[k + 1]} \cap LineEnds = {}
      PROVE  p[k] = "PONG" /\ p[k + 1] = "PONG"
  <2>1. CASE k < n
    <3>1. k \in 1..(n - 1) /\ p[k] = s[k] /\ p[k + 1] = s[k + 1]
      BY <1>1, <2>1
    <3> QED BY <1>2, <3>1 DEF Lines, n
  <2>2. CASE k >= n
    <3>1. k = n \/ k = n + 1 \/ k = n + 2 \/ k = n + 3
      BY <1>1, <2>2
    <3>2. p[k] \in LineEnds \/ p[k + 1] \in LineEnds
      BY <1>1, <3>1 DEF LineEnds
    <3> QED BY <1>2, <3>2
  <2> QED BY <1>1, <2>1, <2>2
<1>3. p[Len(p)] \in LineEnds
  BY <1>1 DEF LineEnds
<1>4. Lines(p)
  BY <1>2, <1>3 DEF Lines
<1> QED BY <1>4 DEF p

\* So does a PONG, which has no line end of its own: what is before it ends a
\* line, or is a PONG too.
LEMMA LinesPong ==
  ASSUME NEW s \in Seq(Chars), Lines(s)
  PROVE  Lines(s \o <<"PONG">>)
<1> DEFINE p == s \o <<"PONG">>
           n == Len(s)
<1>1. /\ n \in Nat /\ Len(p) = n + 1
      /\ \A k \in 1..n : p[k] = s[k]
      /\ p[n + 1] = "PONG"
  OBVIOUS
<1>2. n # 0 => p[n] \in LineEnds \cup {"PONG"}
  BY <1>1 DEF Lines
<1>3. \A k \in 1..(n - 1) : {s[k], s[k + 1]} \cap LineEnds = {} =>
                              s[k] = "PONG" /\ s[k + 1] = "PONG"
  BY DEF Lines
<1> HIDE DEF p, n
<1>4. ASSUME NEW k \in 1..(Len(p) - 1), {p[k], p[k + 1]} \cap LineEnds = {}
      PROVE  p[k] = "PONG" /\ p[k + 1] = "PONG"
  <2>1. CASE k < n
    <3>1. k \in 1..(n - 1) /\ p[k] = s[k] /\ p[k + 1] = s[k + 1]
      BY <1>1, <2>1
    <3> QED BY <1>3, <1>4, <3>1
  <2>2. CASE k >= n
    <3>1. k = n /\ n # 0
      BY <1>1, <2>2
    <3> QED BY <1>1, <1>2, <1>4, <3>1
  <2> QED BY <1>1, <2>1, <2>2
<1>5. Lines(p)
  BY <1>1, <1>4 DEF Lines
<1> QED BY <1>5 DEF p

\* Together: whatever one send delivers.
LEMMA LinesPart ==
  ASSUME NEW s \in Seq(Chars), Lines(s), NEW p \in Parts
  PROVE  s \o p \in Seq(Chars) /\ Lines(s \o p)
<1>1. s \o p \in Seq(Chars)
  BY PartsType
<1>2. CASE p = <<>>
  BY <1>1, <1>2, ConcatEmptySeq
<1>3. CASE p = <<"PONG">>
  BY <1>1, <1>3, LinesPong
<1>4. ASSUME NEW m \in Messages, p = Framed(m) PROVE Lines(s \o p)
  BY <1>4, LinesFramed
<1> QED BY <1>1, <1>2, <1>3, <1>4 DEF Parts

\* What the server has received it keeps.
LEMMA KeptInStream ==
  ASSUME NEW s \in Seq(Chars), NEW p \in Seq(Chars)
  PROVE  /\ \A m : Contains(s, m) => Contains(s \o p, m)
         /\ \A m : Contains(p, m) => Contains(s \o p, m)
<1>1. /\ Len(s) \in Nat /\ Len(p) \in Nat /\ Len(s \o p) = Len(s) + Len(p)
      /\ \A k \in 1..Len(s) : (s \o p)[k] = s[k] /\ k \in 1..Len(s \o p)
  OBVIOUS
<1>2. \A k \in 1..Len(p) : /\ (s \o p)[Len(s) + k] = p[k]
                           /\ Len(s) + k \in 1..Len(s \o p)
  BY <1>1
<1> QED BY <1>1, <1>2 DEF Contains

\* Likewise what it received first.
LEMMA KeptPrefix ==
  ASSUME NEW a \in Seq(Chars), NEW s \in Seq(Chars), NEW p \in Seq(Chars), IsPrefix(a, s)
  PROVE  IsPrefix(a, s \o p)
<1>1. Len(a) \in Nat /\ Len(s) \in Nat /\ Len(p) \in Nat /\ Len(a) <= Len(s)
  BY DEF IsPrefix
<1>2. Len(s \o p) = Len(s) + Len(p) /\ \A k \in 1..Len(s) : (s \o p)[k] = s[k]
  OBVIOUS
<1>3. SubSeq(s \o p, 1, Len(a)) = SubSeq(s, 1, Len(a))
  <2>1. \A k \in 1..Len(a) : (s \o p)[k] = s[k]
    BY <1>1, <1>2
  <2> QED BY <1>1, <1>2, <2>1
<1> QED BY <1>1, <1>2, <1>3 DEF IsPrefix

-----------------------------------------------------------------------------
\* What the server receives in a step that sends one message.
LEMMA SendEffect ==
  ASSUME TypeOK, NEW p \in Parts, NEW from, NEW to, Send(p, from, to)
  PROVE  /\ pc = from /\ pc' = to /\ UNCHANGED password
         /\ \E q \in Parts : out' = out \o q
<1>1. <<>> \in Parts
  BY DEF Parts
<1> QED BY <1>1 DEF Send, Received

\* The messages that are sent.
LEMMA SentParts ==
  /\ \A m \in {"JOIN", "HELLO", "REPLY", "QUIT", "USER", "NICK", "IDENTIFY"} : Framed(m) \in Parts
  /\ <<"PONG">> \in Parts /\ <<>> \in Parts
BY DEF Parts, Messages

\* Login sends up to three messages.
LEMMA LoginEffect ==
  ASSUME TypeOK, Login
  PROVE  \E p, q, r \in Parts : out' = out \o p \o q \o r
<1>1. PICK ok \in [1..3 -> BOOLEAN] :
        out' = out \o Received(Framed("USER"), ok[1]) \o Received(Framed("NICK"), ok[2])
                   \o Received(Framed("IDENTIFY"), ok[3])
  BY DEF Login
<1>2. /\ Received(Framed("USER"), ok[1]) \in Parts
      /\ Received(Framed("NICK"), ok[2]) \in Parts
      /\ Received(Framed("IDENTIFY"), ok[3]) \in Parts
  BY SentParts DEF Received
<1> QED BY <1>1, <1>2

\* Every step appends to the stream, if anything, whole lines or a PONG.
LEMMA StreamStep == TypeOK /\ Lines(out) /\ [Next]_vars => out' \in Seq(Chars) /\ Lines(out)'
<1> SUFFICES ASSUME TypeOK, Lines(out), [Next]_vars PROVE out' \in Seq(Chars) /\ Lines(out')
  OBVIOUS
<1>1. out \in Seq(Chars)
  BY DEF TypeOK, Chars
<1>2. ASSUME NEW p \in Parts, out' = out \o p PROVE out' \in Seq(Chars) /\ Lines(out')
  BY <1>1, <1>2, LinesPart
<1>3. CASE Login
  <2>1. PICK p \in Parts, q \in Parts, r \in Parts : out' = out \o p \o q \o r
    BY <1>3, LoginEffect
  <2>2. out \o p \in Seq(Chars) /\ Lines(out \o p)
    BY <1>1, LinesPart
  <2>3. out \o p \o q \in Seq(Chars) /\ Lines(out \o p \o q)
    BY <2>2, LinesPart
  <2>4. out \o p \o q \o r \in Seq(Chars) /\ Lines(out \o p \o q \o r)
    BY <2>3, LinesPart
  <2> QED BY <2>1, <2>4
<1>4. CASE JoinChannel \/ SendChannel \/ Quit \/ Reply \/ BuiltinPong
  BY <1>2, <1>4, SendEffect, SentParts DEF JoinChannel, SendChannel, Quit, Reply, BuiltinPong
<1>5. CASE SetUpStep \/ LeaveLoop \/ Finished \/ UNCHANGED vars
  BY <1>1, <1>5 DEF SetUpStep, Resolve, SocketFails, Connect, ConnectFails, ConnectionNew,
                    LeaveLoop, Finished, vars
<1> QED BY <1>3, <1>4, <1>5 DEF Next, ThreadStep

\* The addresses up to the n-th, and those before it.
LEMMA AddressesBefore ==
  ASSUME NEW n \in Nat, n >= 1
  PROVE  /\ 1..(n - 1) \cup {n} = 1..n
         /\ IsFiniteSet(1..(n - 1)) /\ Cardinality(1..(n - 1)) = n - 1
<1>1. 1..(n - 1) \cup {n} = 1..n
  OBVIOUS
<1>2. PICK b \in Int : b = n - 1 /\ b >= 0
  OBVIOUS
<1>3. IsFiniteSet(1..b) /\ Cardinality(1..b) = IF 1 > b THEN 0 ELSE b - 1 + 1
  BY FS_Interval
<1>4. Cardinality(1..b) = b
  BY <1>2, <1>3
<1> QED BY <1>1, <1>2, <1>3, <1>4

\* Where every step leaves the sockets.
LEMMA SocketStep ==
  TypeOK /\ FdInv /\ [Next]_vars =>
    /\ FdInv'
    /\ pc' \in PCs /\ addrs' = addrs /\ i' \in 1..addrs /\ fd' \in {-1} \cup 1..addrs
    /\ conn' \subseteq 1..addrs /\ open' \subseteq 1..addrs /\ password' \in BOOLEAN
<1> DEFINE Goal ==
      /\ FdInv'
      /\ pc' \in PCs /\ addrs' = addrs /\ i' \in 1..addrs /\ fd' \in {-1} \cup 1..addrs
      /\ conn' \subseteq 1..addrs /\ open' \subseteq 1..addrs /\ password' \in BOOLEAN
<1> SUFFICES ASSUME TypeOK, FdInv, [Next]_vars PROVE Goal
  OBVIOUS
<1>t. addrs \in Nat /\ i \in Nat /\ 1 <= i /\ i <= addrs
  BY BoundsAssumption DEF TypeOK
<1> USE DEF FdInv, NoSocket, Socket, Serves, HasServer, TypeOK, PCs
<1>1. CASE Resolve
  BY <1>1, <1>t DEF Resolve, sockets
<1>2. CASE SocketFails
  BY <1>2, <1>t DEF SocketFails
<1>3. CASE Connect
  <2>1. open' = 1..i /\ conn' = {i}
    BY <1>3, <1>t, AddressesBefore DEF Connect
  <2> QED BY <1>3, <1>t, <2>1 DEF Connect, Connected
<1>4. CASE ConnectFails
  <2>1. open' = 1..i /\ conn' = {}
    BY <1>4, <1>t, AddressesBefore DEF ConnectFails
  <2>2. CASE i < addrs
    <3>1. i' = i + 1 /\ 1..i = 1..(i' - 1)
      BY <1>4, <1>t, <2>2 DEF ConnectFails, Refused
    <3> QED BY <1>4, <1>t, <2>1, <2>2, <3>1 DEF ConnectFails, Refused
  <2>3. CASE ~(i < addrs)
    BY <1>4, <1>t, <2>1, <2>3 DEF ConnectFails, Refused
  <2> QED BY <2>2, <2>3
<1>5. CASE ConnectionNew
  BY <1>5, <1>t DEF ConnectionNew, sockets
<1>6. CASE Login
  BY <1>6, <1>t DEF Login, sockets
<1>7. CASE JoinChannel \/ SendChannel \/ Reply \/ BuiltinPong
  BY <1>7, <1>t DEF JoinChannel, SendChannel, Reply, BuiltinPong, Send, sockets
<1>8. CASE LeaveLoop
  BY <1>8, <1>t DEF LeaveLoop, sockets
<1>9. CASE Quit
  <2>1. pc = "drop" /\ pc' = "ended" /\ UNCHANGED <<password, addrs, i, fd, conn>>
    BY <1>9 DEF Quit, Send
  <2>2. open = 1..i /\ fd = i
    BY <2>1
  <2>3. open' = 1..(i - 1)
    BY <1>9, <1>t, <2>2 DEF Quit
  <2> QED BY <1>t, <2>1, <2>2, <2>3
<1>10. CASE Finished \/ UNCHANGED vars
  BY <1>10, <1>t DEF Finished, vars, sockets
<1> QED BY <1>1, <1>2, <1>3, <1>4, <1>5, <1>6, <1>7, <1>8, <1>9, <1>10
        DEF Next, SetUpStep, ThreadStep

\* A login that succeeds has told the server who the bot is.
LEMMA LoginStep == TypeOK /\ LoginInv /\ [Next]_vars => LoginInv'
<1> SUFFICES ASSUME TypeOK, LoginInv, [Next]_vars PROVE LoginInv'
  OBVIOUS
<1>o. out \in Seq(Chars)
  BY DEF TypeOK, Chars
<1>1. CASE SetUpStep
  BY <1>1 DEF SetUpStep, Resolve, SocketFails, Connect, ConnectFails, Connected, Refused,
              ConnectionNew, LoginInv, ServesLoggedIn
<1>2. CASE Login
  <2> DEFINE a == Framed("USER")
             b == Framed("NICK")
             c == Framed("IDENTIFY")
  <2>1. PICK ok \in [1..3 -> BOOLEAN] :
          /\ \A k \in 1..3 : MaySucceed(ok[k])
          /\ ~password => ~ok[3]
          /\ out' = out \o Received(a, ok[1]) \o Received(b, ok[2]) \o Received(c, ok[3])
          /\ pc' = IF LoginFails(ok) THEN "drop" ELSE "join"
    BY <1>2 DEF Login
  <2>2. out = <<>> /\ pc = "login" /\ UNCHANGED <<fd, conn, password>>
    BY <1>2 DEF Login, LoginInv, sockets
  <2>3. a \in Seq(Chars) /\ b \in Seq(Chars) /\ c \in Seq(Chars)
    BY FramedElements DEF Messages
  <2>4. CASE LoginFails(ok)
    BY <2>1, <2>4 DEF LoginInv, ServesLoggedIn
  <2>5. CASE ~LoginFails(ok) /\ password
    <3>1. ok[3] /\ fd \in conn
      BY <2>1, <2>5 DEF LoginFails, MaySucceed
    <3>2. Received(a, ok[1]) \in Seq(Chars) /\ Received(b, ok[2]) \in Seq(Chars)
      BY <2>3 DEF Received
    <3>3. out \o Received(a, ok[1]) \in Seq(Chars)
      BY <1>o, <3>2, ConcatProperties
    <3>4. out \o Received(a, ok[1]) \o Received(b, ok[2]) \in Seq(Chars)
      BY <3>2, <3>3, ConcatProperties
    <3>5. Contains(c, "IDENTIFY")
      <4>1. Len(c) = 4 /\ c[2] = "IDENTIFY"
        BY FramedElements DEF Messages
      <4> HIDE DEF c
      <4> QED BY <4>1 DEF Contains
    <3>6. out' = (out \o Received(a, ok[1]) \o Received(b, ok[2])) \o c
      BY <2>1, <3>1 DEF Received
    <3> HIDE DEF a, b, c
    <3>7. Contains(out', "IDENTIFY")
      BY <2>3, <3>4, <3>5, <3>6, KeptInStream
    <3> QED BY <2>1, <2>2, <2>5, <3>1, <3>7 DEF LoginInv, ServesLoggedIn
  <2>6. CASE ~LoginFails(ok) /\ ~password
    <3>1. ok[1] /\ ok[2] /\ ~ok[3] /\ fd \in conn
      BY <2>1, <2>6 DEF LoginFails, MaySucceed
    <3> HIDE DEF a, b, c
    <3>2. a \o b \in Seq(Chars)
      BY <2>3, ConcatProperties
    <3>3. out' = <<>> \o a \o b \o <<>>
      BY <2>1, <2>2, <3>1 DEF Received
    <3>4. <<>> \o a = a /\ (a \o b) \o <<>> = a \o b
      BY <2>3, <3>2, ConcatEmptySeq
    <3>5. out' = a \o b
      BY <3>3, <3>4
    <3>6. IsPrefix(a \o b, out')
      BY <3>2, <3>5 DEF IsPrefix
    <3> QED BY <2>1, <2>2, <2>6, <3>1, <3>6 DEF LoginInv, ServesLoggedIn, a, b
  <2> QED BY <2>4, <2>5, <2>6
<1>3. ASSUME NEW p \in Parts, out' = out \o p, pc \in Serves, pc' \in Serves,
             UNCHANGED <<password, fd, conn>>
      PROVE  LoginInv'
  <2>1. p \in Seq(Chars)
    BY PartsType
  <2>2. fd' \in conn'
    BY <1>3 DEF LoginInv, ServesLoggedIn, Serves
  <2>3. CASE password
    <3>1. Contains(out', "IDENTIFY")
      BY <1>3, <1>o, <2>1, <2>3, KeptInStream DEF LoginInv, ServesLoggedIn, Serves
    <3> QED BY <1>3, <2>2, <2>3, <3>1 DEF LoginInv, ServesLoggedIn, Serves
  <2>4. CASE ~password
    <3>1. Framed("USER") \in Seq(Chars) /\ Framed("NICK") \in Seq(Chars)
      BY FramedElements DEF Messages
    <3>2. PICK a \in Seq(Chars) : a = Framed("USER") \o Framed("NICK")
      BY <3>1, ConcatProperties
    <3>3. IsPrefix(a, out)
      BY <1>3, <2>4, <3>2 DEF LoginInv, ServesLoggedIn, Serves
    <3>4. IsPrefix(a, out \o p)
      BY <1>o, <2>1, <3>3, KeptPrefix
    <3> QED BY <1>3, <2>2, <2>4, <3>2, <3>4 DEF LoginInv, ServesLoggedIn, Serves
  <2> QED BY <2>3, <2>4
<1>4. CASE JoinChannel \/ SendChannel \/ Reply \/ BuiltinPong
  <2>1. /\ \E p \in Parts : out' = out \o p
        /\ pc \in Serves /\ pc' \in Serves /\ UNCHANGED <<password, fd, conn>>
    BY <1>4, SendEffect, SentParts
       DEF JoinChannel, SendChannel, Reply, BuiltinPong, Serves, sockets
  <2> QED BY <1>3, <2>1
<1>5. CASE LeaveLoop \/ Quit
  BY <1>5 DEF LeaveLoop, Quit, Send, LoginInv, ServesLoggedIn
<1>6. CASE Finished \/ UNCHANGED vars
  BY <1>6 DEF Finished, vars, sockets, LoginInv, ServesLoggedIn
<1> QED BY <1>1, <1>2, <1>4, <1>5, <1>6 DEF Next, ThreadStep

-----------------------------------------------------------------------------
\* The inductive invariant.
THEOREM Invariant == Spec => []IInv
<1>1. Init => IInv
  <2> SUFFICES ASSUME Init PROVE IInv
    OBVIOUS
  <2>1. TypeOK
    BY BoundsAssumption DEF Init, TypeOK, PCs
  <2>2. FdInv
    BY DEF Init, FdInv, NoSocket, HasServer, Serves
  <2>3. LoginInv /\ Lines(out)
    BY DEF Init, LoginInv, ServesLoggedIn, Lines
  <2> QED BY <2>1, <2>2, <2>3 DEF IInv
<1>2. IInv /\ [Next]_vars => IInv'
  <2> SUFFICES ASSUME IInv, [Next]_vars PROVE IInv'
    OBVIOUS
  <2>1. FdInv' /\ LoginInv' /\ Lines(out)'
    BY SocketStep, LoginStep, StreamStep DEF IInv
  <2>2. TypeOK'
    BY SocketStep, StreamStep DEF IInv, TypeOK, Chars
  <2> QED BY <2>1, <2>2 DEF IInv
<1> QED BY <1>1, <1>2, PTL DEF Spec

\* GetConnectionFd gives up only after every address refused, leaks no
\* connected socket and never as many as there are addresses, for every number
\* of them.
THEOREM SocketsCorrect == Spec => []SocketsInv
<1>1. IInv => SocketsInv
  <2> SUFFICES ASSUME IInv PROVE RefusedEverywhere /\ ConnectedNotLeaked
    BY DEF IInv, SocketsInv
  <2>t. addrs \in Nat /\ i \in Nat /\ 1 <= i /\ i <= addrs
    BY BoundsAssumption DEF IInv, TypeOK
  <2> USE DEF IInv, FdInv, NoSocket, Socket, HasServer, Serves, TypeOK, PCs
  <2>1. RefusedEverywhere
    BY <2>t DEF RefusedEverywhere
  <2>2. conn \cap open \subseteq {fd} /\ (pc = "ended" => conn \cap open = {})
    BY <2>t
  <2>3. Cardinality(open \ {fd}) < addrs
    <3>1. open \ {fd} \subseteq 1..(i - 1)
      BY <2>t
    <3>2. IsFiniteSet(1..(i - 1)) /\ Cardinality(1..(i - 1)) = i - 1
      BY <2>t, AddressesBefore
    <3>3. IsFiniteSet(open \ {fd}) /\ Cardinality(open \ {fd}) <= Cardinality(1..(i - 1))
      BY <3>1, <3>2, FS_Subset
    <3>4. Cardinality(open \ {fd}) \in Nat
      BY <3>3, FS_CardinalityType
    <3> QED BY <2>t, <3>2, <3>3, <3>4
  <2> QED BY <2>1, <2>2, <2>3 DEF ConnectedNotLeaked
<1> QED BY <1>1, Invariant, PTL

\* A server that serves is connected and logged in.
THEOREM LoggedIn == Spec => []ServesLoggedIn
<1>1. IInv => ServesLoggedIn
  BY DEF IInv, LoginInv
<1> QED BY <1>1, Invariant, PTL

\* The server never finds two messages on one line but for PONGs.
THEOREM OnePerLine == Spec => []OneMessagePerLine
<1>1. IInv => OneMessagePerLine
  BY DEF IInv, Lines, OneMessagePerLine
<1> QED BY <1>1, Invariant, PTL
=============================================================================
