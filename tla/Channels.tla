------------------------------ MODULE Channels ------------------------------
(***************************************************************************)
(* The channel map of Server against the IRC server: JoinChannel and       *)
(* PartChannel send a request and note it in chan_map; the JOIN and PART   *)
(* messages that come back, the bot's own and other users', are applied    *)
(* by UpdateJoinChannel and UpdatePartChannel.  Requests and messages      *)
(* cross on the wire, so the map is always ahead of the server in one      *)
(* direction and behind it in the other.                                   *)
(*                                                                         *)
(* One TCP connection carries both directions in order.  Handlers of       *)
(* different channels touch different entries, so each channel has its own *)
(* pair of queues.  The IRC server and the other users are external.       *)
(***************************************************************************)
EXTENDS Naturals, Sequences

CONSTANTS
  Channels,     \* channels the bot may be told to join or part
  MaxInFlight   \* bound on a channel's requests and messages in flight

ASSUME MaxInFlightAssumption == MaxInFlight \in Nat \ {0}

VARIABLES
  chan_map,   \* Server::chan_map, "absent" where there is no entry
  toServer,   \* requests sent and not yet processed by the server
  toBot,      \* messages about the channel not yet handled by the bot
  member,     \* channels the server has the bot in
  disturbed   \* channels where the server refused a JOIN or threw the bot out

vars == <<chan_map, toServer, toBot, member, disturbed>>

States   == {"absent", "JoinRequested", "Joined", "PartRequested"}
Requests == {"JOIN", "PART"}

\* A JOIN or PART in the channel: neither handler looks at its source.
Messages == Requests

InFlight(c) == Len(toServer[c]) + Len(toBot[c])

\* Sending on queue c of q.
Send(q, c, m) == [q EXCEPT ![c] = Append(@, m)]
Received(q, c) == [q EXCEPT ![c] = Tail(@)]

-----------------------------------------------------------------------------
(* The bot                                                                 *)

\* Mutant: the map is updated though the request could not be sent.
JoinRecordedAnyway(c) ==
  /\ InFlight(c) < MaxInFlight
  /\ chan_map' = [chan_map EXCEPT ![c] = "JoinRequested"]
  /\ toServer' \in {Send(toServer, c, "JOIN"), toServer}
  /\ UNCHANGED <<toBot, member, disturbed>>

\* An entry is made or reset, whatever its state was; nothing is recorded
\* when the request could not be sent.
JoinChannel(c) ==
  /\ InFlight(c) < MaxInFlight
  /\ \/ /\ toServer' = Send(toServer, c, "JOIN")
        /\ chan_map' = [chan_map EXCEPT ![c] = "JoinRequested"]
     \/ UNCHANGED <<toServer, chan_map>>
  /\ UNCHANGED <<toBot, member, disturbed>>

PartChannel(c) ==
  /\ InFlight(c) < MaxInFlight
  /\ chan_map[c] # "absent"
  /\ \/ /\ toServer' = Send(toServer, c, "PART")
        /\ chan_map' = [chan_map EXCEPT ![c] = "PartRequested"]
     \/ UNCHANGED <<toServer, chan_map>>
  /\ UNCHANGED <<toBot, member, disturbed>>

\* The state after UpdateJoinChannel: only a requested join is completed.
AfterJoin(state) == IF state = "JoinRequested" THEN "Joined" ELSE state

\* Mutant: the entry is never erased.
AfterPartKeeps(state) == state

\* Mutant: the entry stays, in the state the enumeration has commented out.
AfterPartParted(state) == IF state = "PartRequested" THEN "Parted" ELSE state

\* The state after UpdatePartChannel: only a requested part erases the entry.
AfterPart(state) == IF state = "PartRequested" THEN "absent" ELSE state

\* BuiltinJoin, for a JOIN of whatever user.
UpdateJoinChannel(c) ==
  /\ toBot[c] # <<>>
  /\ Head(toBot[c]) = "JOIN"
  /\ chan_map' = [chan_map EXCEPT ![c] = AfterJoin(@)]
  /\ toBot' = Received(toBot, c)
  /\ UNCHANGED <<toServer, member, disturbed>>

\* BuiltinPart, for a PART of whatever user.
UpdatePartChannel(c) ==
  /\ toBot[c] # <<>>
  /\ Head(toBot[c]) = "PART"
  /\ chan_map' = [chan_map EXCEPT ![c] = AfterPart(@)]
  /\ toBot' = Received(toBot, c)
  /\ UNCHANGED <<toServer, member, disturbed>>

-----------------------------------------------------------------------------
(* The IRC server and the other users                                      *)

\* A member's JOIN is ignored; a stranger's is accepted, with an echo, or
\* refused with an error the bot does not look at.
ServerJoin(c) ==
  /\ toServer[c] # <<>>
  /\ Head(toServer[c]) = "JOIN"
  /\ toServer' = Received(toServer, c)
  /\ \/ /\ c \in member
        /\ UNCHANGED <<toBot, member, disturbed>>
     \/ /\ c \notin member
        /\ member' = member \cup {c}
        /\ toBot' = Send(toBot, c, "JOIN")
        /\ disturbed' = disturbed \ {c}
     \/ /\ c \notin member
        /\ disturbed' = disturbed \cup {c}
        /\ UNCHANGED <<toBot, member>>
  /\ UNCHANGED chan_map

\* A member's PART is echoed; a stranger's is answered with an error.
ServerPart(c) ==
  /\ toServer[c] # <<>>
  /\ Head(toServer[c]) = "PART"
  /\ toServer' = Received(toServer, c)
  /\ member' = member \ {c}
  /\ toBot' = IF c \in member
              THEN Send(toBot, c, "PART") ELSE toBot
  /\ UNCHANGED <<chan_map, disturbed>>

\* Another user comes or goes in a channel the bot is in.
OtherUser(c, command) ==
  /\ c \in member
  /\ InFlight(c) < MaxInFlight
  /\ toBot' = Send(toBot, c, command)
  /\ UNCHANGED <<chan_map, toServer, member, disturbed>>

\* KICK has no handler in the bot.
Kick(c) ==
  /\ c \in member
  /\ member' = member \ {c}
  /\ disturbed' = disturbed \cup {c}
  /\ UNCHANGED <<chan_map, toServer, toBot>>

-----------------------------------------------------------------------------
Init ==
  /\ chan_map = [c \in Channels |-> "absent"]
  /\ toServer = [c \in Channels |-> <<>>]
  /\ toBot = [c \in Channels |-> <<>>]
  /\ member = {}
  /\ disturbed = {}

Handle(c) == UpdateJoinChannel(c) \/ UpdatePartChannel(c)
Serve(c)  == ServerJoin(c) \/ ServerPart(c)

Next ==
  \E c \in Channels :
    \/ JoinChannel(c) \/ PartChannel(c)
    \/ Handle(c) \/ Serve(c)
    \/ \E command \in Requests : OtherUser(c, command)
    \/ Kick(c)

\* The event loop handles what arrives and the server what it is sent.
Fairness ==
  \A c \in Channels : WF_vars(Handle(c)) /\ WF_vars(Serve(c))

Spec == Init /\ [][Next]_vars /\ Fairness

-----------------------------------------------------------------------------
(* Properties                                                              *)

\* Every variable stays in its type; an entry is in one of the three states of
\* Channel::State or is not there.
TypeOK ==
  /\ chan_map \in [Channels -> States]
  /\ toServer \in [Channels -> Seq(Requests)]
  /\ toBot \in [Channels -> Seq(Messages)]
  /\ member \subseteq Channels
  /\ disturbed \subseteq Channels

\* Whether the bot will be in the channel when the server has processed
\* everything it was sent.
WillBeMember(c) ==
  IF toServer[c] = <<>> THEN c \in member
  ELSE toServer[c][Len(toServer[c])] = "JOIN"

Wanted(c) == chan_map[c] \in {"JoinRequested", "Joined"}

\* The map never loses track of where the bot is heading: however commands,
\* echoes and other users' messages cross, an entry that is requested or
\* joined is one the server will have the bot in, and no other, as long as
\* the server refused nothing and threw nobody out.
MapFollowsRequests ==
  \A c \in Channels \ disturbed : Wanted(c) <=> WillBeMember(c)

\* When nothing is in flight the map agrees with the server; in particular
\* no entry is left waiting for a PART that will not come.
SettledAgrees ==
  \A c \in Channels \ disturbed :
    toServer[c] = <<>> /\ toBot[c] = <<>> =>
      /\ chan_map[c] # "PartRequested"
      /\ (chan_map[c] # "absent") <=> c \in member

\* A part that was requested is completed: the entry goes away, unless the
\* channel is joined again or the server interferes.
PartCompletes ==
  \A c \in Channels :
    chan_map[c] = "PartRequested" ~>
      chan_map[c] # "PartRequested" \/ c \in disturbed
=============================================================================
