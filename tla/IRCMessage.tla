----------------------------- MODULE IRCMessage -----------------------------
(***************************************************************************)
(* One line of the IRC protocol: IRCMessage's constructor takes it apart,  *)
(* GetIRCMessageVariantFrom decides what kind of message it is, and        *)
(* ProcessMessageLine calls the handler.                                   *)
(*                                                                         *)
(* A line is a sequence of symbols: the characters the parser looks for,   *)
(* each a symbol of its own, and words, which it only compares.  Positions *)
(* are counted from 1 and 0 stands for npos.                               *)
(***************************************************************************)
EXTENDS Integers, Sequences, SequencesExt

\* The characters that separate parts, parameters and tags.
Space == " "
Semicolon == ";"

\* The one user who may do everything.
Admin == [nickname |-> <<"kkd">>, username |-> <<"~memxor">>,
          hostname |-> <<"unaffiliated/kartikeya">>]

-----------------------------------------------------------------------------
(* IRCMessage                                                              *)

\* std::string::find and find_first_not_of from position i on.
Find(s, c, i) == SelectInSubSeq(s, i, Len(s), LAMBDA x : x = c)
FindNot(s, c, i) == SelectInSubSeq(s, i, Len(s), LAMBDA x : x # c)

\* The characters from i up to the one before j; up to the end for npos.
View(s, i, j) == SubSeq(s, i, IF j = 0 THEN Len(s) ELSE j - 1)

\* line[i] == c; line[line.size()] is the terminating zero.
IsAt(s, i, c) == i <= Len(s) /\ s[i] = c

\* Where the value after the '=' at eq ends.
ValueEnd(tags, eq) == Find(tags, Semicolon, eq + 1)

\* The loop that fills tag_kv: key up to '=', value up to ';' or the end.
TagKV(tags) ==
  LET kv[i \in 1..(Len(tags) + 1)] ==
        LET eq == Find(tags, "=", i) end == ValueEnd(tags, eq)
        IN IF eq = 0 THEN << >>
           ELSE <<<<View(tags, i, eq), View(tags, eq + 1, end)>>>>
                \o (IF end = 0 THEN << >> ELSE kv[end + 1])
  IN kv[1]

\* Mutant: tags that are not empty will do.
TagsWellFormedAny(tags) == tags # << >>

\* The loop has found a '='; otherwise "Malformed tag".
TagsWellFormed(tags) == Find(tags, "=", 1) # 0

\* Mutant: only one space is skipped.
NextParamSingle(line, end) == end + 1

\* Where the parameter behind the space at end begins.
NextParam(line, end) == FindNot(line, Space, end + 1)

\* The loop that fills param_vec, from the position after the command.
Params(line, from) ==
  LET params[i \in from..(Len(line) + 1)] ==
        LET end == Find(line, Space, i) next == NextParam(line, end)
        IN <<View(line, i, end)>>
           \o (IF end = 0 \/ next = 0 THEN << >> ELSE params[next])
  IN params[from]

Malformed == [ok |-> FALSE]

\* The constructor: tags, source, command and parameters, or one of its
\* exceptions, which all become the same std::runtime_error.  message_type is
\* still _DEFAULT, so the source is not looked at here.
Parse(line) ==
  LET tagged  == IsAt(line, 1, "@")
      t       == IF tagged THEN Find(line, Space, 2) ELSE 0
      tags    == IF tagged THEN View(line, 2, t) ELSE << >>
      sourced == IsAt(line, t + 1, ":")
      s       == IF sourced THEN Find(line, Space, t + 2) ELSE t
      c       == Find(line, Space, s + 1)
      command == View(line, s + 1, c)
      params  == Params(line, c + 1)
  IN IF \/ tagged /\ (t = 0 \/ ~TagsWellFormed(tags))
        \/ sourced /\ s = 0
        \/ c = 0
        \/ command = << >>
        \/ params[1] = << >>
     THEN Malformed
     ELSE [ok |-> TRUE, tags |-> tags, tag_kv |-> TagKV(tags),
           source |-> IF sourced THEN View(line, t + 2, s) ELSE << >>,
           command |-> command, params |-> params]

-----------------------------------------------------------------------------
(* Namespace Message                                                       *)

IsUserMessage(source) == Find(source, "!", 1) # 0

\* Mutant: the search for '@' begins with the source.
UsernameEndFirst(source, bang) == Find(source, "@", 1)

\* Where the username behind the '!' at bang ends.
UsernameEnd(source, bang) == Find(source, "@", bang)

\* For the source of a user's message: nickname!username@hostname.
ParseSourceUser(source) ==
  LET bang == Find(source, "!", 1) at == UsernameEnd(source, bang)
  IN [nickname |-> View(source, 1, bang), username |-> View(source, bang + 1, at),
      hostname |-> IF at = 0 THEN << >> ELSE View(source, at + 1, 0)]

IsUserCapable(user) == user = Admin

\* A PRIVMSG of somebody who may quit, with the text ,quit or none at all.
IsQuitMessage(m) ==
  /\ IsUserMessage(m.source)
  /\ Len(m.params) > 1 => m.params[2] = <<":", ",quit">>
  /\ IsUserCapable(ParseSourceUser(m.source))

-----------------------------------------------------------------------------
(* Dispatch                                                                *)

\* Mutant: the handler gets the parameter as it is.
WithFirst(param) == param

\* substr(1): the colon of a last parameter, or the first letter of a word.
WithoutFirst(param) ==
  IF Head(param) = ":" THEN Tail(param) ELSE <<"(cut)">> \o Tail(param)

\* What becomes of a line: the handler that is called with its arguments, or
\* "quit", "malformed", or "assert" when an assertion fails.
Calls(handler, args) == [handler |-> handler, args |-> args]
AssertFails == Calls("assert", << >>)
NoHandler   == Calls("none", << >>)
Quits       == Calls("quit", << >>)

\* BuiltinNickname for a user's message; the type asserts that it is one.
HandleNick(m) ==
  IF ~IsUserMessage(m.source) THEN AssertFails
  ELSE Calls("BuiltinNickname",
             <<ParseSourceUser(m.source).nickname, WithoutFirst(m.params[1])>>)

\* Mutant: the user command is expected to have a parameter.
HasUserCommandParam(m) == Len(m.params) >= 3

\* BuiltinPrivMsg asserts a second parameter, the user command.
HasUserCommand(m) == Len(m.params) >= 2

\* IRCMessagePrivMsg unless the message asks to quit.
HandlePrivMsg(m) ==
  IF ~IsUserMessage(m.source) THEN AssertFails
  ELSE IF IsQuitMessage(m)    THEN Quits
  ELSE IF ~HasUserCommand(m)  THEN AssertFails
  ELSE Calls("BuiltinPrivMsg",
             <<ParseSourceUser(m.source), m.params[1], m.params[2]>>)

\* GetSetIRCMessageType and the two switches on its result.
Dispatch(m) ==
  CASE m.command = <<"PING">> -> Calls("BuiltinPong", <<WithoutFirst(m.params[1])>>)
    [] m.command = <<"NICK">> -> HandleNick(m)
    [] m.command = <<"JOIN">> -> Calls("BuiltinJoin", <<m.params[1]>>)
    [] m.command = <<"PART">> -> Calls("BuiltinPart", <<m.params[1]>>)
    [] m.command = <<"PRIVMSG">> -> HandlePrivMsg(m)
    [] m.command \in {<<"KILL">>, <<"QUIT">>} -> Quits
    [] OTHER -> NoHandler

\* An exception of the constructor is caught and the line ignored.
ProcessMessageLine(line) ==
  LET m == Parse(line)
  IN IF m.ok THEN Dispatch(m) ELSE Calls("malformed", << >>)
=============================================================================
