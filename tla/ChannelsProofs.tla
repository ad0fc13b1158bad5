--------------------------- MODULE ChannelsProofs ---------------------------
(***************************************************************************)
(* Proof that chan_map follows the requests, for every set of channels and *)
(* every number of messages in flight.                                     *)
(***************************************************************************)
EXTENDS Channels, SequenceTheorems, TLAPS

LastRequest(c) == toServer[c][Len(toServer[c])]

\* While requests are in flight the entry tells the last of them, also on a
\* channel the server interfered with: this is what lets an accepted JOIN
\* put such a channel right again.
InFlightInv ==
  \A c \in Channels :
    toServer[c] # <<>> => (Wanted(c) <=> LastRequest(c) = "JOIN")

\* With nothing in flight the entry tells whether the bot is a member.
IdleInv ==
  \A c \in Channels \ disturbed :
    toServer[c] = <<>> => (Wanted(c) <=> c \in member)

IInv == TypeOK /\ InFlightInv /\ IdleInv

Queued(q, m) == \E i \in 1..Len(q) : q[i] = m

\* A PART whose echo the bot waits for is still to come: the server has the
\* bot as a member, or will have when it gets to the JOIN, or some PART is
\* already on the way back.
PartInv ==
  \A c \in Channels \ disturbed :
    chan_map[c] = "PartRequested" =>
      c \in member \/ Queued(toServer[c], "JOIN") \/ Queued(toBot[c], "PART")

-----------------------------------------------------------------------------
\* The last element after sending to a queue.
LEMMA AppendLast ==
  ASSUME NEW S, NEW q \in Seq(S), NEW m \in S
  PROVE  /\ Append(q, m) \in Seq(S) /\ Append(q, m) # <<>>
         /\ Append(q, m)[Len(Append(q, m))] = m
OBVIOUS

\* The last element after receiving from a queue.
LEMMA TailLast ==
  ASSUME NEW S, NEW q \in Seq(S), q # <<>>
  PROVE  /\ Tail(q) \in Seq(S)
         /\ Tail(q) = <<>> => q[Len(q)] = Head(q)
         /\ Tail(q) # <<>> => Tail(q)[Len(Tail(q))] = q[Len(q)]
<1>1. Len(q) \in Nat /\ Len(q) > 0
  OBVIOUS
<1>2. Tail(q) \in Seq(S) /\ Len(Tail(q)) = Len(q) - 1
  BY HeadTailProperties
<1>3. Tail(q) = <<>> => q[Len(q)] = Head(q)
  <2>1. Len(q) # 1 => Len(Tail(q)) # 0
    BY <1>1, <1>2
  <2>2. Len(Tail(q)) # 0 => Tail(q) # <<>>
    BY <1>2, EmptySeq
  <2> QED BY <2>1, <2>2
<1>4. Tail(q) # <<>> => Tail(q)[Len(Tail(q))] = q[Len(q)]
  BY <1>1, <1>2
<1> QED BY <1>2, <1>3, <1>4

-----------------------------------------------------------------------------
\* Type correctness of every step.
LEMMA TypeStep == TypeOK /\ [Next]_vars => TypeOK'
<1> SUFFICES ASSUME TypeOK, [Next]_vars PROVE TypeOK'
  OBVIOUS
<1>1. \A c \in Channels, r \in Requests :
        Send(toServer, c, r) \in [Channels -> Seq(Requests)]
  BY AppendLast DEF TypeOK, Send
<1>2. ASSUME NEW c \in Channels, JoinChannel(c) \/ PartChannel(c) PROVE TypeOK'
  <2>1. chan_map' \in [Channels -> States]
    BY <1>2 DEF JoinChannel, PartChannel, TypeOK, States
  <2>2. toServer' \in [Channels -> Seq(Requests)] /\ UNCHANGED <<toBot, member, disturbed>>
    BY <1>1, <1>2 DEF JoinChannel, PartChannel, Requests, TypeOK
  <2> QED BY <2>1, <2>2 DEF TypeOK
<1>3. ASSUME NEW c \in Channels, Handle(c) PROVE TypeOK'
  <2>1. /\ toBot[c] # <<>> /\ toBot' = [toBot EXCEPT ![c] = Tail(@)]
        /\ UNCHANGED <<toServer, member, disturbed>>
        /\ chan_map' \in [Channels -> States]
    BY <1>3 DEF Handle, UpdateJoinChannel, UpdatePartChannel, Received, AfterJoin,
                AfterPart, TypeOK, States
  <2>2. Tail(toBot[c]) \in Seq(Messages)
    BY <2>1, TailLast DEF TypeOK
  <2> QED BY <2>1, <2>2 DEF TypeOK
<1>4. ASSUME NEW c \in Channels, Serve(c) PROVE TypeOK'
  <2>1. /\ toServer[c] # <<>> /\ toServer' = [toServer EXCEPT ![c] = Tail(@)]
        /\ UNCHANGED chan_map
        /\ member' \subseteq Channels /\ disturbed' \subseteq Channels
    BY <1>4 DEF Serve, ServerJoin, ServerPart, Received, TypeOK
  <2>2. PICK m \in Messages : toBot' = toBot \/ toBot' = Send(toBot, c, m)
    BY <1>4 DEF Serve, ServerJoin, ServerPart, Messages, Requests
  <2>3. Tail(toServer[c]) \in Seq(Requests)
    BY <2>1, TailLast DEF TypeOK
  <2>4. Append(toBot[c], m) \in Seq(Messages)
    BY <2>2, AppendLast DEF TypeOK
  <2> QED BY <2>1, <2>2, <2>3, <2>4 DEF TypeOK, Send
<1>5. ASSUME NEW c \in Channels, NEW command \in Requests, OtherUser(c, command)
      PROVE  TypeOK'
  <2>1. command \in Messages
    BY DEF Messages
  <2> QED BY <1>5, <2>1, AppendLast DEF OtherUser, Send, TypeOK
<1>6. ASSUME NEW c \in Channels, Kick(c) PROVE TypeOK'
  BY <1>6 DEF Kick, TypeOK
<1>7. CASE UNCHANGED vars
  BY <1>7 DEF vars, TypeOK
<1> QED BY <1>2, <1>3, <1>4, <1>5, <1>6, <1>7 DEF Next

\* Every step keeps both parts of the invariant.
LEMMA RequestStep == IInv /\ [Next]_vars => InFlightInv' /\ IdleInv'
<1> SUFFICES ASSUME IInv, [Next]_vars PROVE InFlightInv' /\ IdleInv'
  OBVIOUS
<1>1. ASSUME NEW c \in Channels, NEW r \in Requests,
             toServer' = Send(toServer, c, r),
             chan_map' = [chan_map EXCEPT
                            ![c] = IF r = "JOIN" THEN "JoinRequested" ELSE "PartRequested"],
             UNCHANGED <<toBot, member, disturbed>>
      PROVE  InFlightInv' /\ IdleInv'
  <2>1. toServer'[c] # <<>> /\ toServer'[c][Len(toServer'[c])] = r
    <3>1. toServer'[c] = Append(toServer[c], r) /\ toServer[c] \in Seq(Requests)
      BY <1>1 DEF IInv, TypeOK, Send
    <3> QED BY <3>1, AppendLast
  <2>2. \A d \in Channels \ {c} : toServer'[d] = toServer[d] /\ chan_map'[d] = chan_map[d]
    BY <1>1 DEF IInv, TypeOK, Send
  <2>3. Wanted(c)' <=> r = "JOIN"
    BY <1>1 DEF Wanted, IInv, TypeOK
  <2> QED BY <1>1, <2>1, <2>2, <2>3
          DEF IInv, InFlightInv, IdleInv, LastRequest, Wanted
<1>2. ASSUME NEW c \in Channels, JoinChannel(c) \/ PartChannel(c)
      PROVE  InFlightInv' /\ IdleInv'
  <2>1. CASE UNCHANGED <<toServer, chan_map>>
    BY <1>2, <2>1 DEF JoinChannel, PartChannel, IInv, InFlightInv, IdleInv,
                      LastRequest, Wanted
  <2>2. CASE JoinChannel(c) /\ ~UNCHANGED <<toServer, chan_map>>
    BY <2>2, <1>1 DEF JoinChannel, Requests
  <2>3. CASE PartChannel(c) /\ ~UNCHANGED <<toServer, chan_map>>
    BY <2>3, <1>1 DEF PartChannel, Requests
  <2> QED BY <1>2, <2>1, <2>2, <2>3
<1>3. ASSUME NEW c \in Channels, Handle(c) PROVE InFlightInv' /\ IdleInv'
  <2>1. \A d \in Channels : Wanted(d)' <=> Wanted(d)
    BY <1>3 DEF Handle, UpdateJoinChannel, UpdatePartChannel, AfterJoin, AfterPart,
                Wanted, IInv, TypeOK
  <2>2. UNCHANGED <<toServer, member, disturbed>>
    BY <1>3 DEF Handle, UpdateJoinChannel, UpdatePartChannel
  <2> QED BY <2>1, <2>2 DEF IInv, InFlightInv, IdleInv, LastRequest
<1>4. ASSUME NEW c \in Channels, Serve(c) PROVE InFlightInv' /\ IdleInv'
  <2>1. toServer[c] # <<>> /\ toServer' = [toServer EXCEPT ![c] = Tail(@)]
    BY <1>4 DEF Serve, ServerJoin, ServerPart, Received
  <2>2. /\ toServer'[c] = <<>> => LastRequest(c) = Head(toServer[c])
        /\ toServer'[c] # <<>> => LastRequest(c)' = LastRequest(c)
    BY <2>1, TailLast DEF IInv, TypeOK, LastRequest
  <2>3. \A d \in Channels : Wanted(d)' <=> Wanted(d)
    BY <1>4 DEF Serve, ServerJoin, ServerPart, Wanted
  <2>4. \A d \in Channels \ {c} :
          /\ toServer'[d] = toServer[d]
          /\ d \in member' <=> d \in member
          /\ d \in disturbed' <=> d \in disturbed
    BY <1>4, <2>1 DEF Serve, ServerJoin, ServerPart, IInv, TypeOK
  <2>5. c \notin disturbed' => (c \in member' <=> Head(toServer[c]) = "JOIN")
    BY <1>4 DEF Serve, ServerJoin, ServerPart
  <2>6. InFlightInv'
    BY <2>1, <2>2, <2>3, <2>4 DEF IInv, InFlightInv, LastRequest
  <2>7. IdleInv'
    BY <2>1, <2>2, <2>3, <2>4, <2>5 DEF IInv, InFlightInv, IdleInv
  <2> QED BY <2>6, <2>7
<1>5. ASSUME NEW c \in Channels, NEW command \in Requests, OtherUser(c, command)
      PROVE  InFlightInv' /\ IdleInv'
  BY <1>5 DEF OtherUser, IInv, InFlightInv, IdleInv, LastRequest, Wanted
<1>6. ASSUME NEW c \in Channels, Kick(c) PROVE InFlightInv' /\ IdleInv'
  BY <1>6 DEF Kick, IInv, InFlightInv, IdleInv, LastRequest, Wanted
<1>7. CASE UNCHANGED vars
  BY <1>7 DEF vars, IInv, InFlightInv, IdleInv, LastRequest, Wanted
<1> QED BY <1>2, <1>3, <1>4, <1>5, <1>6, <1>7 DEF Next

\* IInv is an invariant of the specification.
LEMMA IInvariant == Spec => []IInv
<1>1. Init => IInv
  BY DEF Init, IInv, TypeOK, InFlightInv, IdleInv, Wanted, States
<1>2. IInv /\ [Next]_vars => IInv'
  BY TypeStep, RequestStep DEF IInv
<1> QED BY <1>1, <1>2, PTL DEF Spec

-----------------------------------------------------------------------------
\* Sending keeps what is queued, and adds.
LEMMA QueuedAppend ==
  ASSUME NEW S, NEW q \in Seq(S), NEW m \in S
  PROVE  Queued(Append(q, m), m) /\ \A n : Queued(q, n) => Queued(Append(q, m), n)
<1>1. Len(Append(q, m)) = Len(q) + 1 /\ Len(q) \in Nat
  OBVIOUS
<1>2. \A i \in 1..Len(q) : Append(q, m)[i] = q[i] /\ i \in 1..Len(Append(q, m))
  BY <1>1
<1>3. Len(q) + 1 \in 1..Len(Append(q, m)) /\ Append(q, m)[Len(q) + 1] = m
  BY <1>1
<1> QED BY <1>2, <1>3 DEF Queued

\* Receiving takes only the head.
LEMMA QueuedTail ==
  ASSUME NEW S, NEW q \in Seq(S), q # <<>>, NEW n, n # Head(q), Queued(q, n)
  PROVE  Queued(Tail(q), n)
<1>1. PICK i \in 1..Len(q) : q[i] = n
  BY DEF Queued
<1>2. Len(q) \in Nat /\ Len(Tail(q)) = Len(q) - 1 /\ i # 1
  BY <1>1
<1>3. i - 1 \in 1..Len(Tail(q)) /\ Tail(q)[i - 1] = q[i]
  BY <1>2
<1> QED BY <1>1, <1>3 DEF Queued

\* Every step keeps PartInv.
LEMMA PartStep == IInv /\ PartInv /\ [Next]_vars => PartInv'
<1> SUFFICES ASSUME IInv, PartInv, [Next]_vars PROVE PartInv'
  OBVIOUS
<1> DEFINE Coming(c) ==
      c \notin disturbed /\ chan_map[c] = "PartRequested" =>
        c \in member \/ Queued(toServer[c], "JOIN") \/ Queued(toBot[c], "PART")
<1>a. ASSUME NEW c \in Channels, Coming(c)',
             \A d \in Channels \ {c} :
               /\ chan_map'[d] = chan_map[d]
               /\ toServer'[d] = toServer[d] /\ toBot'[d] = toBot[d]
               /\ d \in member' <=> d \in member
               /\ d \in disturbed' <=> d \in disturbed
      PROVE  PartInv'
  BY <1>a DEF PartInv, IInv, TypeOK
<1>b. \A c \in Channels : toServer[c] \in Seq(Requests) /\ toBot[c] \in Seq(Messages)
  BY DEF IInv, TypeOK
<1> USE DEF Send, Received
<1>1. ASSUME NEW c \in Channels, JoinChannel(c) PROVE PartInv'
  <2>1. Coming(c)'
    BY <1>1 DEF JoinChannel, PartInv, IInv, TypeOK
  <2> QED BY <1>1, <1>a, <2>1 DEF JoinChannel, IInv, TypeOK
<1>2. ASSUME NEW c \in Channels, PartChannel(c) PROVE PartInv'
  <2>1. CASE UNCHANGED <<toServer, chan_map>>
    BY <1>2, <2>1 DEF PartChannel, PartInv
  <2>2. CASE /\ toServer' = Send(toServer, c, "PART")
             /\ chan_map' = [chan_map EXCEPT ![c] = "PartRequested"]
    <3>1. /\ chan_map[c] # "absent" /\ UNCHANGED <<toBot, member, disturbed>>
          /\ toServer'[c] = Append(toServer[c], "PART")
      BY <1>2, <2>2 DEF PartChannel, IInv, TypeOK
    <3>2. ASSUME c \notin disturbed
          PROVE  c \in member \/ Queued(toServer[c], "JOIN") \/ Queued(toBot[c], "PART")
      <4>1. CASE chan_map[c] = "PartRequested"
        BY <3>2, <4>1 DEF PartInv
      <4>2. CASE Wanted(c) /\ toServer[c] = <<>>
        BY <3>2, <4>2 DEF IInv, IdleInv
      <4>3. CASE Wanted(c) /\ toServer[c] # <<>>
        <5>1. LastRequest(c) = "JOIN"
          BY <4>3 DEF IInv, InFlightInv
        <5>2. Len(toServer[c]) \in 1..Len(toServer[c])
          BY <1>b, <4>3
        <5> QED BY <5>1, <5>2 DEF Queued, LastRequest
      <4> QED BY <3>1, <4>1, <4>2, <4>3 DEF Wanted, IInv, TypeOK, States
    <3>3. Queued(toServer[c], "JOIN") => Queued(toServer'[c], "JOIN")
      BY <1>b, <3>1, QueuedAppend DEF Requests
    <3>4. Coming(c)'
      BY <3>1, <3>2, <3>3
    <3> QED BY <1>a, <2>2, <3>1, <3>4 DEF IInv, TypeOK
  <2> QED BY <1>2, <2>1, <2>2 DEF PartChannel
<1>3. ASSUME NEW c \in Channels, Handle(c) PROVE PartInv'
  <2>1. /\ toBot[c] # <<>> /\ toBot'[c] = Tail(toBot[c])
        /\ UNCHANGED <<toServer, member, disturbed>>
        /\ chan_map'[c] = "PartRequested" =>
             chan_map[c] = "PartRequested" /\ Head(toBot[c]) = "JOIN"
    BY <1>3 DEF Handle, UpdateJoinChannel, UpdatePartChannel, AfterJoin, AfterPart,
                IInv, TypeOK
  <2>2. Head(toBot[c]) = "JOIN" /\ Queued(toBot[c], "PART") => Queued(toBot'[c], "PART")
    BY <1>b, <2>1, QueuedTail
  <2>3. Coming(c)'
    BY <2>1, <2>2 DEF PartInv
  <2>4. \A d \in Channels \ {c} : chan_map'[d] = chan_map[d] /\ toBot'[d] = toBot[d]
    BY <1>3 DEF Handle, UpdateJoinChannel, UpdatePartChannel, IInv, TypeOK
  <2> QED BY <1>a, <2>1, <2>3, <2>4
<1>4. ASSUME NEW c \in Channels, ServerJoin(c) PROVE PartInv'
  <2>1. Coming(c)'
    BY <1>4 DEF ServerJoin, PartInv, IInv, TypeOK
  <2> QED BY <1>4, <1>a, <2>1 DEF ServerJoin, IInv, TypeOK
<1>5. ASSUME NEW c \in Channels, ServerPart(c) PROVE PartInv'
  <2>1. /\ toServer[c] # <<>> /\ Head(toServer[c]) = "PART"
        /\ toServer'[c] = Tail(toServer[c])
        /\ toBot'[c] = IF c \in member THEN Append(toBot[c], "PART") ELSE toBot[c]
        /\ UNCHANGED <<chan_map, disturbed>>
    BY <1>5 DEF ServerPart, IInv, TypeOK
  <2>2. Queued(toServer[c], "JOIN") => Queued(toServer'[c], "JOIN")
    BY <1>b, <2>1, QueuedTail
  <2>3. c \in member => Queued(toBot'[c], "PART")
    BY <1>b, <2>1, QueuedAppend DEF Messages, Requests
  <2>4. Coming(c)'
    BY <2>1, <2>2, <2>3 DEF PartInv
  <2> QED BY <1>5, <1>a, <2>4 DEF ServerPart, IInv, TypeOK
<1>6. ASSUME NEW c \in Channels, NEW command \in Requests, OtherUser(c, command)
      PROVE  PartInv'
  <2>1. Coming(c)'
    BY <1>6 DEF OtherUser
  <2> QED BY <1>6, <1>a, <2>1 DEF OtherUser, IInv, TypeOK
<1>7. ASSUME NEW c \in Channels, Kick(c) PROVE PartInv'
  BY <1>7, <1>a DEF Kick
<1>8. CASE UNCHANGED vars
  BY <1>8 DEF vars, PartInv
<1> QED BY <1>1, <1>2, <1>3, <1>4, <1>5, <1>6, <1>7, <1>8 DEF Next, Serve

-----------------------------------------------------------------------------
\* The variables keep their types, however much is in flight.
THEOREM TypeCorrect == Spec => []TypeOK
<1>1. IInv => TypeOK
  BY DEF IInv
<1> QED BY <1>1, IInvariant, PTL

\* chan_map always tells where the requests already sent will lead.
THEOREM MapFollows == Spec => []MapFollowsRequests
<1>1. IInv => MapFollowsRequests
  BY DEF IInv, InFlightInv, IdleInv, MapFollowsRequests, WillBeMember, LastRequest
<1> QED BY <1>1, IInvariant, PTL

\* With nothing in flight the map agrees with the server, however requests,
\* echoes and the messages of other users crossed before; no entry waits for
\* the echo of a PART that will not come.
THEOREM SettledCorrect == Spec => []SettledAgrees
<1>1. Init => PartInv
  BY DEF Init, PartInv
<1>2. IInv /\ PartInv => SettledAgrees
  <2> SUFFICES ASSUME IInv, PartInv, NEW c \in Channels \ disturbed,
                      toServer[c] = <<>>, toBot[c] = <<>>
               PROVE  /\ chan_map[c] # "PartRequested"
                      /\ (chan_map[c] # "absent") <=> c \in member
    BY DEF SettledAgrees
  <2>1. Wanted(c) <=> c \in member
    BY DEF IInv, IdleInv
  <2>2. ~Queued(toServer[c], "JOIN") /\ ~Queued(toBot[c], "PART")
    BY DEF Queued
  <2>3. chan_map[c] # "PartRequested"
    BY <2>1, <2>2 DEF PartInv, Wanted
  <2> QED BY <2>1, <2>3 DEF Wanted, IInv, TypeOK, States
<1> QED BY <1>1, <1>2, PartStep, IInvariant, PTL DEF Spec
=============================================================================
