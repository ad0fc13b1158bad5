---------------------------- MODULE MCIRCMessage ----------------------------
(* ProcessMessageLine on one line at a time: on every line of up to        *)
(* MaxChunks pieces between spaces, on every tag list and every source of  *)
(* up to MaxPart symbols, and on the messages an IRC server sends with all *)
(* their tails, which is what RecvMsg leaves of a line it has torn.        *)
EXTENDS IRCMessage, FiniteSets

CONSTANTS MaxChunks, MaxPart

ASSUME BoundsAssumption == MaxChunks \in Nat /\ MaxPart \in Nat

VARIABLES line, outcome
vars == <<line, outcome>>

Join(chunks) ==
  FlattenSeq([i \in 1..Len(chunks) |->
                IF i = Len(chunks) THEN chunks[i] ELSE Append(chunks[i], Space)])

Chunks == {<< >>, <<"w">>, <<":", "w">>, <<"@", "w">>, <<"@", "w", "=", "w">>}

Shapes == {Join(cs) : cs \in BoundedSeq(Chunks, MaxChunks) \ {<< >>}}
TagLines == {Join(<<<<"@">> \o t, <<"w">>, <<"w">>>>) :
               t \in BoundedSeq({"w", "=", Semicolon}, MaxPart)}
SourceLines == {Join(<<<<":">> \o s, <<"NICK">>, <<":", "w">>>>) :
               s \in BoundedSeq({"w", "!", "@"}, MaxPart)}

-----------------------------------------------------------------------------
(* What an IRC server sends, and what the bot makes of it                  *)

Other  == [nickname |-> <<"u">>, username |-> <<"~u">>, hostname |-> <<"h", ":", "h">>]
Users  == {Admin, Other}
Texts  == {<<",quit">>, <<"w">>, <<"w", Space, ",quit">>, <<"PRIVMSG", Space, "w">>}
UserSource(u) == <<":">> \o u.nickname \o <<"!">> \o u.username \o <<"@">> \o u.hostname
Colon(text) == <<":">> \o text

\* Pairs of a message and what ProcessMessageLine has to make of it.
UserMessages(u) ==
  {<<Join(<<UserSource(u), <<"NICK">>, Colon(<<"n">>)>>),
     Calls("BuiltinNickname", <<u.nickname, <<"n">>>>)>>,
   <<Join(<<UserSource(u), <<"JOIN">>, <<"c">>>>), Calls("BuiltinJoin", <<<<"c">>>>)>>,
   <<Join(<<UserSource(u), <<"PART">>, <<"c">>, Colon(<<"w">>)>>),
     Calls("BuiltinPart", <<<<"c">>>>)>>,
   <<Join(<<UserSource(u), <<"QUIT">>, Colon(<<"w">>)>>), Quits>>}
  \cup
  {<<Join(<<UserSource(u), <<"PRIVMSG">>, <<"c">>, Colon(text)>>),
     IF u = Admin /\ text = <<",quit">> THEN Quits
     ELSE Calls("BuiltinPrivMsg", <<u, <<"c">>, <<":", Head(text)>>>>)>> : text \in Texts}

ServerMessages ==
  {<<Join(<<<<"PING">>, Colon(<<"w">>)>>), Calls("BuiltinPong", <<<<"w">>>>)>>,
   <<Join(<<<<":", "w">>, <<"w">>, <<"w">>, Colon(<<"w">>)>>), NoHandler>>}

Plain == ServerMessages \cup UNION {UserMessages(u) : u \in Users}

\* The same with tags in front.
Conforming ==
  Plain \cup {<<Join(<<<<"@", "w", "=", "w">>, p[1]>>), p[2]>> : p \in Plain}

Tails == UNION {{SubSeq(p[1], i, Len(p[1])) : i \in 1..Len(p[1])} : p \in Conforming}

-----------------------------------------------------------------------------
Pending == Calls("pending", << >>)

Init == /\ line \in Shapes \cup TagLines \cup SourceLines \cup Tails
        /\ outcome = Pending

Process == /\ outcome = Pending
           /\ outcome' = ProcessMessageLine(line)
           /\ UNCHANGED line

Finished == outcome # Pending /\ UNCHANGED vars

Next == Process \/ Finished
Spec == Init /\ [][Next]_vars

-----------------------------------------------------------------------------
(* Properties                                                              *)

\* No symbol of l from i to j is c.
Free(l, c, i, j) == \A k \in i..j : l[k] # c

Begins(l, i, c) == i <= Len(l) /\ l[i] = c

\* The piece of l that begins at i ends before the space at j.
Piece(l, i, j) == j \in i..Len(l) /\ l[j] = Space /\ Free(l, Space, i, j - 1)

\* The reference grammar, by the spaces behind its parts: '@' and tags with a
\* '=' in them up to t, ':' and a source up to s, both optional, a command up
\* to c that is not empty, and a parameter.
TagCut(l, t) ==
  IF Begins(l, 1, "@") THEN Piece(l, 2, t) /\ ~Free(l, "=", 2, t - 1) ELSE t = 0
SourceCut(l, t, s) == IF Begins(l, t + 1, ":") THEN Piece(l, t + 2, s) ELSE s = t
CommandCut(l, s, c) ==
  Piece(l, s + 1, c) /\ c > s + 1 /\ c < Len(l) /\ l[c + 1] # Space

InGrammar(l) ==
  \E t \in 0..Len(l) : /\ TagCut(l, t)
                       /\ \E s \in 0..Len(l) : /\ SourceCut(l, t, s)
                                               /\ \E c \in 0..Len(l) : CommandCut(l, s, c)

\* The constructor of IRCMessage accepts exactly the lines of the grammar:
\* its five throws, spread over index arithmetic, reject nothing else.
AcceptsGrammar == Parse(line).ok <=> InGrammar(line)

\* The how-manieth of the positions in S the position i is.
Rank(S, i) == Cardinality({k \in S : k <= i})

\* Where the words of l behind position c begin.
WordStarts(l, c) == {i \in (c + 1)..Len(l) : l[i] # Space /\ (i = c + 1 \/ l[i - 1] = Space)}

\* ws are the words of l behind position c, whole and in their order.
AreWords(ws, l, c) ==
  LET starts == WordStarts(l, c)
  IN /\ Len(ws) = Cardinality(starts)
     /\ \A i \in starts :
          \E j \in i..Len(l) :
            /\ ws[Rank(starts, i)] = SubSeq(l, i, j)
            /\ Free(l, Space, i, j) /\ (j = Len(l) \/ l[j + 1] = Space)

\* Nothing gets lost: tags, source and command are what the grammar says, and
\* the parameters are all the words behind them.
PartsMakeLine ==
  LET m == Parse(line)
  IN m.ok =>
       \A t \in 0..Len(line) : TagCut(line, t) =>
         \A s \in 0..Len(line) : SourceCut(line, t, s) =>
           \A c \in 0..Len(line) : CommandCut(line, s, c) =>
             /\ m.tags = SubSeq(line, 2, t - 1)
             /\ m.source = SubSeq(line, t + 2, s - 1)
             /\ m.command = SubSeq(line, s + 1, c - 1)
             /\ AreWords(m.params, line, c)

\* A key begins with the tags and behind the first ';' after a '='; hence, as in
\* the constructor, a tag without a value belongs to the key behind it.
KeyBegins(tags, i) ==
  \/ i = 1
  \/ /\ tags[i - 1] = Semicolon
     /\ \E p \in 1..(i - 2) : tags[p] = "=" /\ Free(tags, Semicolon, p + 1, i - 2)

KeyStarts(tags) ==
  {i \in 1..Len(tags) : KeyBegins(tags, i) /\ ~Free(tags, "=", i, Len(tags))}

\* kv are all the keys of the tags, each up to its '=', with their values, each
\* up to its ';' or the end, in their order.
PairsKept(tags, kv) ==
  LET n == Len(tags)
      keys == KeyStarts(tags)
  IN /\ Len(kv) = Cardinality(keys)
     /\ \A i \in keys :
          \E e \in i..n, j \in i..n :
            /\ kv[Rank(keys, i)] = <<SubSeq(tags, i, e - 1), SubSeq(tags, e + 1, j)>>
            /\ tags[e] = "=" /\ Free(tags, "=", i, e - 1)
            /\ e <= j /\ Free(tags, Semicolon, e + 1, j) /\ (j = n \/ tags[j + 1] = Semicolon)

\* No tag that has a value is lost or cut.
TagsKept == Parse(line).ok => PairsKept(Parse(line).tags, Parse(line).tag_kv)

\* The constructor keeps the whole line, its tags in pairs besides.
NothingLost == PartsMakeLine /\ TagsKept

\* For any source with a '!', wherever its '@' are, the three fields make up
\* the source: ParseSourceUser's assertions on the order of its two searches hold.
UserIsSource ==
  LET m == Parse(line)
      u == ParseSourceUser(m.source)
      head == u.nickname \o <<"!">> \o u.username
  IN m.ok /\ IsUserMessage(m.source) =>
       m.source = head \o (IF m.source = head THEN << >> ELSE <<"@">> \o u.hostname)

\* Every message of a server, with and without tags, reaches its handler with
\* the right user, channel and text; only the admin's ,quit and QUIT stop the
\* worker, and no assertion fails.
ServerMessagesHandled ==
  \A p \in Conforming : line = p[1] /\ outcome # Pending => outcome = p[2]

\* What is left of a torn message fails an assertion (IRC.cc:191, IRC.cc:201,
\* Manager.cc:106) only when the '!' of its source is gone.
TailAssertsWithoutUser ==
  outcome = AssertFails =>
    \A p \in Conforming : IsSuffix(line, p[1]) =>
      Find(p[1], "!", 1) <= Len(p[1]) - Len(line)
=============================================================================
