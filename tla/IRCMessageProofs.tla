-------------------------- MODULE IRCMessageProofs --------------------------
(***************************************************************************)
(* What the constructor of IRCMessage and ParseSourceUser make of a line,  *)
(* proved for every line and not only for those TLC enumerates.  The       *)
(* loops of the constructor are recursive functions; induction over them   *)
(* is the least number principle, MinIsLeast.                              *)
(***************************************************************************)
EXTENDS MCIRCMessage, SequenceTheorems, FiniteSetTheorems, WellFoundedInduction, TLAPS

\* Every set of natural numbers has a least one, and Min is it.
LEMMA MinIsLeast ==
  ASSUME NEW T \in SUBSET Nat, T # {}
  PROVE  Min(T) \in T /\ \A y \in T : Min(T) <= y
<1>1. PICK x \in T : \A y \in T : ~(<<y, x>> \in OpToRel(<, Nat))
  BY WFMin, NatLessThanWellFounded
<1>2. ASSUME NEW y \in T PROVE x <= y
  <2>1. ~(y < x)
    BY <1>1 DEF OpToRel
  <2> QED BY <2>1
<1> QED BY <1>2 DEF Min

\* std::string::find returns the first position from i on that holds c, and
\* npos when there is none.
LEMMA FindsFirst ==
  ASSUME NEW s \in Seq(STRING), NEW c, NEW i \in Nat \ {0}
  PROVE  \/ /\ Find(s, c, i) = 0
            /\ \A j \in i..Len(s) : s[j] # c
         \/ /\ Find(s, c, i) \in i..Len(s)
            /\ s[Find(s, c, i)] = c
            /\ \A j \in i..(Find(s, c, i) - 1) : s[j] # c
<1> DEFINE T == {j \in i..Len(s) : s[j] = c}
<1>1. Find(s, c, i) = IF T # {} THEN Min(T) ELSE 0
  BY DEF Find, SelectInSubSeq
<1>2. T \in SUBSET Nat
  OBVIOUS
<1>3. CASE T = {}
  BY <1>1, <1>3
<1>4. CASE T # {}
  <2>1. Min(T) \in T /\ \A y \in T : Min(T) <= y
    BY <1>2, <1>4, MinIsLeast
  <2>2. Find(s, c, i) = Min(T)
    BY <1>1, <1>4
  <2> HIDE DEF T
  <2>3. ASSUME NEW j \in i..(Min(T) - 1) PROVE s[j] # c
    <3>1. Min(T) \in i..Len(s)
      BY <2>1 DEF T
    <3>2. j \in i..Len(s) /\ ~(Min(T) <= j)
      BY <3>1
    <3> QED BY <2>1, <3>2 DEF T
  <2> QED BY <2>1, <2>2, <2>3 DEF T
<1> QED BY <1>3, <1>4

\* In any case the position lies in the string.
LEMMA FindInRange ==
  ASSUME NEW s \in Seq(STRING), NEW c, NEW i \in Nat \ {0}
  PROVE  Find(s, c, i) \in 0..Len(s) /\ Len(s) \in Nat
<1>1. Find(s, c, i) = 0 \/ Find(s, c, i) \in i..Len(s)
  BY FindsFirst
<1> HIDE DEF Find
<1> QED BY <1>1

\* A view of a line is a sequence of the characters from i to the end it has.
LEMMA ViewOf ==
  ASSUME NEW s \in Seq(STRING), NEW i \in Nat \ {0}, NEW j \in Nat, j <= Len(s) + 1,
         NEW e \in Nat, e = IF j = 0 THEN Len(s) ELSE j - 1
  PROVE  /\ View(s, i, j) \in Seq(STRING)
         /\ Len(View(s, i, j)) = IF i <= e THEN e - i + 1 ELSE 0
         /\ \A k \in 1..Len(View(s, i, j)) : View(s, i, j)[k] = s[i + k - 1]
<1>1. View(s, i, j) = SubSeq(s, i, e)
  BY DEF View
<1>2. e <= Len(s)
  OBVIOUS
<1>3. SubSeq(s, i, e) = [k \in 1..(IF i <= e THEN e - i + 1 ELSE 0) |-> s[i + k - 1]]
  BY <1>2
<1>4. SubSeq(s, i, e) \in Seq(STRING)
  BY <1>2
<1> QED BY <1>1, <1>3, <1>4

\* A sequence of one element.
LEMMA Single ==
  ASSUME NEW S, NEW c \in S
  PROVE  <<c>> \in Seq(S)
OBVIOUS

\* A sequence is made up of two parts and the symbol between them.
LEMMA Joined ==
  ASSUME NEW S, NEW s \in Seq(S), NEW a \in Seq(S), NEW b \in Seq(S), NEW c \in S,
         Len(s) = Len(a) + 1 + Len(b), s[Len(a) + 1] = c,
         \A k \in 1..Len(a) : s[k] = a[k],
         \A k \in 1..Len(b) : s[Len(a) + 1 + k] = b[k]
  PROVE  s = (a \o <<c>>) \o b
<1> DEFINE ac == Append(a, c)
           t  == ac \o b
<1>1. ac = a \o <<c>>
  BY AppendIsConcat
<1>2. /\ ac \in Seq(S) /\ Len(ac) = Len(a) + 1
      /\ \A i \in 1..Len(a) : ac[i] = a[i]
      /\ ac[Len(a) + 1] = c
  BY AppendProperties
<1> HIDE DEF ac
<1>3. /\ t \in Seq(S) /\ Len(t) = Len(ac) + Len(b)
      /\ \A i \in 1..(Len(ac) + Len(b)) : t[i] = IF i <= Len(ac) THEN ac[i] ELSE b[i - Len(ac)]
  BY <1>2, ConcatProperties
<1> HIDE DEF t
<1>n. Len(a) \in Nat /\ Len(b) \in Nat /\ Len(s) \in Nat
  OBVIOUS
<1>4. ASSUME NEW i \in 1..Len(s) PROVE s[i] = t[i]
  <2>1. CASE i <= Len(a)
    <3>1. i \in 1..Len(a) /\ i \in 1..(Len(ac) + Len(b)) /\ i <= Len(ac)
      BY <1>2, <1>n, <2>1
    <3> QED BY <1>2, <1>3, <3>1
  <2>2. CASE i = Len(a) + 1
    <3>1. i \in 1..(Len(ac) + Len(b)) /\ i <= Len(ac)
      BY <1>2, <1>n, <2>2
    <3> QED BY <1>2, <1>3, <2>2, <3>1
  <2>3. CASE i > Len(a) + 1
    <3>1. i - (Len(a) + 1) \in 1..Len(b) /\ Len(a) + 1 + (i - (Len(a) + 1)) = i
      BY <1>n, <2>3
    <3>2. t[i] = b[i - (Len(a) + 1)]
      BY <1>2, <1>3, <1>n, <2>3
    <3> QED BY <3>1, <3>2
  <2> QED BY <1>n, <2>1, <2>2, <2>3
<1>5. s = t
  BY <1>2, <1>3, <1>4, SeqEqual
<1> QED BY <1>1, <1>5 DEF t

-----------------------------------------------------------------------------
\* The fields of the user that ParseSourceUser finds in a source, put together
\* again.
UserHead(u) == u.nickname \o <<"!">> \o u.username

\* Wherever the '@' of a source with a '!' are, the three fields make it up.
LEMMA FieldsMakeSource ==
  ASSUME NEW source \in Seq(STRING), IsUserMessage(source)
  PROVE  LET u == ParseSourceUser(source)
         IN  \/ source = UserHead(u) /\ u.hostname = << >>
             \/ source = UserHead(u) \o (<<"@">> \o u.hostname)
<1> DEFINE bang == Find(source, "!", 1)
           at   == Find(source, "@", bang)
           nick == View(source, 1, bang)
           user == View(source, bang + 1, at)
           host == View(source, at + 1, 0)
           L    == Len(source)
<1>1. bang \in 1..L /\ source[bang] = "!" /\ L \in Nat
  BY FindsFirst DEF IsUserMessage
<1>2. at = 0 \/ (at \in bang..L /\ source[at] = "@")
  BY <1>1, FindsFirst
<1>3. at = 0 \/ at \in (bang + 1)..L
  BY <1>1, <1>2
<1>4. ParseSourceUser(source) = [nickname |-> nick, username |-> user,
                                 hostname |-> IF at = 0 THEN << >> ELSE host]
  BY DEF ParseSourceUser, UsernameEnd
<1>5. /\ nick \in Seq(STRING) /\ Len(nick) = bang - 1
      /\ \A k \in 1..Len(nick) : nick[k] = source[k]
  <2>1. bang - 1 \in Nat /\ bang - 1 = (IF bang = 0 THEN Len(source) ELSE bang - 1)
        /\ bang <= Len(source) + 1 /\ bang \in Nat
    BY <1>1
  <2>2. /\ nick \in Seq(STRING)
        /\ Len(nick) = IF 1 <= bang - 1 THEN (bang - 1) - 1 + 1 ELSE 0
        /\ \A k \in 1..Len(nick) : nick[k] = source[1 + k - 1]
    BY <2>1, ViewOf
  <2> HIDE DEF nick
  <2> QED BY <1>1, <2>2
<1> HIDE DEF nick, bang, at, user, host
<1>6. CASE at = 0
  <2>1. /\ user \in Seq(STRING) /\ Len(user) = L - bang
        /\ \A k \in 1..Len(user) : user[k] = source[bang + k]
    <3>1. /\ user \in Seq(STRING)
          /\ Len(user) = IF bang + 1 <= L THEN L - (bang + 1) + 1 ELSE 0
          /\ \A k \in 1..Len(user) : user[k] = source[(bang + 1) + k - 1]
      BY <1>1, <1>6, ViewOf DEF user
    <3> QED BY <1>1, <3>1
  <2>2. source = nick \o <<"!">> \o user
    <3>1. /\ Len(source) = Len(nick) + 1 + Len(user) /\ Len(nick) + 1 = bang
          /\ \A k \in 1..Len(nick) : source[k] = nick[k]
          /\ \A k \in 1..Len(user) : source[Len(nick) + 1 + k] = user[k]
      BY <1>1, <1>5, <2>1
    <3>2. source[Len(nick) + 1] = "!" /\ "!" \in STRING
      BY <1>1, <3>1
    <3> QED BY <1>5, <2>1, <3>1, <3>2, Joined
  <2> QED BY <1>4, <1>6, <2>2 DEF UserHead
<1>7. CASE at # 0
  <2>1. at \in (bang + 1)..L /\ source[at] = "@"
    BY <1>2, <1>3, <1>7
  <2>2. /\ user \in Seq(STRING) /\ Len(user) = at - 1 - bang
        /\ \A k \in 1..Len(user) : user[k] = source[bang + k]
    <3>1. /\ user \in Seq(STRING)
          /\ Len(user) = IF bang + 1 <= at - 1 THEN (at - 1) - (bang + 1) + 1 ELSE 0
          /\ \A k \in 1..Len(user) : user[k] = source[(bang + 1) + k - 1]
      <4>1. /\ bang + 1 \in Nat \ {0} /\ at \in Nat /\ at - 1 \in Nat /\ at <= Len(source) + 1
            /\ at - 1 = IF at = 0 THEN Len(source) ELSE at - 1
        BY <1>1, <2>1
      <4> QED BY <4>1, ViewOf DEF user
    <3> QED BY <1>1, <2>1, <3>1
  <2>3. /\ host \in Seq(STRING) /\ Len(host) = L - at
        /\ \A k \in 1..Len(host) : host[k] = source[at + k]
    <3>1. /\ host \in Seq(STRING)
          /\ Len(host) = IF at + 1 <= L THEN L - (at + 1) + 1 ELSE 0
          /\ \A k \in 1..Len(host) : host[k] = source[(at + 1) + k - 1]
      BY <1>1, <2>1, ViewOf DEF host
    <3> QED BY <1>1, <2>1, <3>1
  <2>4. source = (nick \o <<"!">> \o user) \o (<<"@">> \o host)
    <3> DEFINE head == View(source, 1, at)
    <3>1. /\ head \in Seq(STRING) /\ Len(head) = at - 1
          /\ \A k \in 1..Len(head) : head[k] = source[k]
      <4>1. /\ at - 1 \in Nat /\ at - 1 = (IF at = 0 THEN Len(source) ELSE at - 1)
            /\ at <= Len(source) + 1 /\ at \in Nat
        BY <1>1, <2>1
      <4>2. /\ head \in Seq(STRING)
            /\ Len(head) = IF 1 <= at - 1 THEN (at - 1) - 1 + 1 ELSE 0
            /\ \A k \in 1..Len(head) : head[k] = source[1 + k - 1]
        BY <4>1, ViewOf
      <4> HIDE DEF head
      <4> QED BY <1>1, <2>1, <4>2
    <3> HIDE DEF head
    <3>2. head = nick \o <<"!">> \o user
      <4>1. /\ Len(head) = Len(nick) + 1 + Len(user) /\ Len(nick) + 1 = bang
            /\ bang \in 1..Len(head)
            /\ \A k \in 1..Len(nick) : head[k] = nick[k]
            /\ \A k \in 1..Len(user) : head[Len(nick) + 1 + k] = user[k]
        BY <1>1, <1>5, <2>1, <2>2, <3>1
      <4>2. head[Len(nick) + 1] = "!" /\ "!" \in STRING
        BY <1>1, <3>1, <4>1
      <4> QED BY <1>5, <2>2, <3>1, <4>1, <4>2, Joined
    <3>3. source = head \o <<"@">> \o host
      <4>1. /\ Len(source) = Len(head) + 1 + Len(host) /\ Len(head) + 1 = at
            /\ \A k \in 1..Len(head) : source[k] = head[k]
            /\ \A k \in 1..Len(host) : source[Len(head) + 1 + k] = host[k]
        BY <1>1, <2>1, <2>3, <3>1
      <4>2. source[Len(head) + 1] = "@" /\ "@" \in STRING
        BY <2>1, <4>1
      <4> QED BY <2>3, <3>1, <4>1, <4>2, Joined
    <3>4. <<"@">> \in Seq(STRING)
      <4>1. at \in 1..Len(source)
        BY <1>1, <2>1
      <4>2. "@" \in STRING
        BY <2>1, <4>1, ElementOfSeq
      <4> QED BY <4>2, Single
    <3>5. source = head \o (<<"@">> \o host)
      BY <2>3, <3>1, <3>3, <3>4, ConcatAssociative
    <3> QED BY <3>2, <3>5
  <2> QED BY <1>4, <1>7, <2>4 DEF UserHead
<1> QED BY <1>6, <1>7

\* The source of a message the constructor accepts is a view of the line.
LEMMA SourceOfLine ==
  ASSUME NEW l \in Seq(STRING), Parse(l).ok
  PROVE  Parse(l).source \in Seq(STRING)
<1> DEFINE tagged == IsAt(l, 1, "@")
           t == IF tagged THEN Find(l, Space, 2) ELSE 0
           sourced == IsAt(l, t + 1, ":")
           s == IF sourced THEN Find(l, Space, t + 2) ELSE t
<1>1. Parse(l).source = IF sourced THEN View(l, t + 2, s) ELSE << >>
  BY DEF Parse, Malformed
<1>2. t \in 0..Len(l) /\ Len(l) \in Nat
  <2>1. Find(l, Space, 2) \in 0..Len(l) /\ Len(l) \in Nat
    <3>1. \A i \in Nat \ {0} : Find(l, Space, i) \in 0..Len(l) /\ Len(l) \in Nat
      BY FindInRange
    <3>2. 2 \in Nat \ {0}
      OBVIOUS
    <3> HIDE DEF t, tagged, s, sourced
    <3> QED BY <3>1, <3>2
  <2>2. 0 \in 0..Len(l)
    <3>1. \A n \in Nat : 0 \in 0..n
      OBVIOUS
    <3> QED BY <2>1, <3>1, Zenon
  <2> QED BY <2>1, <2>2
<1> HIDE DEF t, tagged
<1>3. ASSUME sourced PROVE View(l, t + 2, s) \in Seq(STRING)
  <2>1. s = Find(l, Space, t + 2) /\ t + 2 \in Nat \ {0} /\ Len(l) \in Nat
    BY <1>2, <1>3
  <2>2. s \in 0..Len(l)
    BY <2>1, FindInRange
  <2> HIDE DEF s
  <2> DEFINE e == IF s = 0 THEN Len(l) ELSE s - 1
  <2>3. e \in Nat /\ s \in Nat /\ s <= Len(l) + 1
    <3>1. Len(l) \in Nat
      BY <2>1
    <3> QED BY <2>2, <3>1
  <2> HIDE DEF e
  <2>4. e = IF s = 0 THEN Len(l) ELSE s - 1
    BY DEF e
  <2> QED BY <2>1, <2>3, <2>4, ViewOf
<1> HIDE DEF sourced, s
<1>4. << >> \in Seq(STRING)
  BY EmptySeq
<1> QED BY <1>1, <1>3, <1>4

-----------------------------------------------------------------------------
\* ParseSourceUser on whatever line the constructor accepts, however long and
\* with whatever symbols: its fields make up the source.
THEOREM UserFieldsMakeSource ==
  ASSUME line \in Seq(STRING)
  PROVE  UserIsSource
<1> DEFINE m == Parse(line)
           u == ParseSourceUser(m.source)
<1> SUFFICES ASSUME m.ok, IsUserMessage(m.source)
             PROVE  m.source = UserHead(u) \o (IF m.source = UserHead(u) THEN << >>
                                               ELSE <<"@">> \o u.hostname)
  BY DEF UserIsSource, UserHead
<1>1. m.source \in Seq(STRING)
  BY SourceOfLine
<1> HIDE DEF m
<1>2. \/ m.source = UserHead(u) /\ u.hostname = << >>
      \/ m.source = UserHead(u) \o (<<"@">> \o u.hostname)
  BY <1>1, FieldsMakeSource
<1>3. CASE m.source = UserHead(u)
  <2>1. m.source \o << >> = m.source
    BY <1>1, ConcatEmptySeq
  <2> QED BY <1>3, <2>1
<1>4. CASE m.source # UserHead(u)
  BY <1>2, <1>4
<1> QED BY <1>3, <1>4

\* IsUserCapable compares fields, but nobody whose source is not the admin's,
\* to the letter, can make the worker stop with a PRIVMSG: a line that does is
\* the server's KILL or QUIT, or its source is kkd!~memxor@unaffiliated/kartikeya.
THEOREM QuitsOnlyForAdmin ==
  ASSUME NEW l \in Seq(STRING), ProcessMessageLine(l) = Quits
  PROVE  \/ Parse(l).command \in {<<"KILL">>, <<"QUIT">>}
         \/ /\ Parse(l).command = <<"PRIVMSG">>
            /\ Parse(l).source = UserHead(Admin) \o (<<"@">> \o Admin.hostname)
<1> DEFINE m == Parse(l)
           u == ParseSourceUser(m.source)
<1>1. m.ok /\ Dispatch(m).handler = "quit"
  BY DEF ProcessMessageLine, Quits, Calls
<1> SUFFICES ASSUME m.command \notin {<<"KILL">>, <<"QUIT">>}
             PROVE  /\ m.command = <<"PRIVMSG">>
                    /\ m.source = UserHead(Admin) \o (<<"@">> \o Admin.hostname)
  OBVIOUS
<1>2. m.source \in Seq(STRING)
  BY <1>1, SourceOfLine
<1> HIDE DEF m
<1>3. m.command = <<"PRIVMSG">> /\ HandlePrivMsg(m).handler = "quit"
  BY <1>1 DEF Dispatch, HandleNick, AssertFails, NoHandler, Quits, Calls
<1>4. IsUserMessage(m.source) /\ IsQuitMessage(m)
  BY <1>3 DEF HandlePrivMsg, AssertFails, Quits, Calls
<1>5. u = Admin
  BY <1>4 DEF IsQuitMessage, IsUserCapable
<1>6. Admin.hostname # << >>
  BY DEF Admin
<1>7. \/ m.source = UserHead(u) /\ u.hostname = << >>
      \/ m.source = UserHead(u) \o (<<"@">> \o u.hostname)
  BY <1>2, <1>4, FieldsMakeSource
<1> HIDE DEF u
<1> QED BY <1>3, <1>5, <1>6, <1>7

-----------------------------------------------------------------------------
(* Loops: a recursive function over the positions of a string              *)

\* f is the loop that adds h[i] at position i and goes on at nx[i], or stops
\* if that is 0.
Unrolls(f, a, M, h, nx) ==
  f = [i \in a..M |-> h[i] \o (IF nx[i] = 0 THEN << >> ELSE f[nx[i]])]

\* The loops of the constructor are recursive functions whose argument only
\* grows: such a function exists, so the one the definitions choose satisfies its
\* equation.
LEMMA RecursionExists ==
  ASSUME NEW a \in Nat, NEW M \in Nat, NEW h, NEW nx,
         \A i \in a..M : nx[i] = 0 \/ nx[i] \in (i + 1)..M
  PROVE  \E f : Unrolls(f, a, M, h, nx)
<1> DEFINE Body(f, i) == h[i] \o (IF nx[i] = 0 THEN << >> ELSE f[nx[i]])
           Good(n) == \E f : f = [i \in (M + 1 - n)..M |-> Body(f, i)]
           Bad == {n \in Nat : n <= M + 1 - a /\ ~Good(n)}
<1>1. Good(0)
  <2> DEFINE f == [i \in {} |-> h[i]]
  <2>1. (M + 1 - 0)..M = {}
    OBVIOUS
  <2>2. f = [i \in (M + 1 - 0)..M |-> Body(f, i)]
    BY <2>1
  <2> QED BY <2>2
<1>2. ASSUME NEW n \in Nat, n + 1 <= M + 1 - a, Good(n) PROVE Good(n + 1)
  <2> DEFINE k == M + 1 - (n + 1)
  <2>1. k \in Nat /\ k >= a /\ (M + 1 - n) = k + 1 /\ k <= M
    BY <1>2
  <2> HIDE DEF k
  <2>2. PICK f : f = [i \in (k + 1)..M |-> Body(f, i)]
    BY <1>2, <2>1
  <2> DEFINE g == [i \in k..M |-> Body(f, i)]
  <2>3. \A i \in (k + 1)..M : g[i] = f[i]
    <3>1. \A i \in (k + 1)..M : f[i] = Body(f, i)
      BY <2>2
    <3> HIDE DEF Body
    <3> QED BY <2>1, <3>1
  <2>4. ASSUME NEW i \in k..M PROVE Body(f, i) = Body(g, i)
    <3>1. nx[i] = 0 \/ nx[i] \in (k + 1)..M
      BY <2>1
    <3> HIDE DEF g
    <3> QED BY <2>3, <3>1
  <2>5. g = [i \in k..M |-> Body(g, i)]
    <3> HIDE DEF Body
    <3> QED BY <2>4
  <2>6. \E ff : ff = [i \in k..M |-> Body(ff, i)]
    <3> HIDE DEF g, Body
    <3> QED BY <2>5
  <2> QED BY <2>6 DEF k
<1> HIDE DEF Good
<1>3. Bad = {}
  <2> SUFFICES ASSUME Bad # {} PROVE FALSE
    OBVIOUS
  <2>1. PICK n \in Bad : \A y \in Bad : n <= y
    <3>1. Bad \in SUBSET Nat
      OBVIOUS
    <3> HIDE DEF Bad
    <3> QED BY <3>1, MinIsLeast
  <2>2. n # 0
    BY <1>1, <2>1
  <2>3. n - 1 \in Nat /\ n - 1 <= M + 1 - a /\ ~(n <= n - 1)
    BY <2>1, <2>2
  <2>4. Good(n - 1)
    BY <2>1, <2>3
  <2>5. (n - 1) + 1 = n /\ n <= M + 1 - a /\ ~Good(n)
    BY <2>1
  <2> QED BY <1>2, <2>3, <2>4, <2>5
<1>4. CASE a <= M + 1
  <2>1. M + 1 - a \in Nat /\ (M + 1) - (M + 1 - a) = a
    BY <1>4
  <2>2. Good(M + 1 - a)
    BY <1>3, <2>1
  <2>3. PICK f : f = [i \in ((M + 1) - (M + 1 - a))..M |-> Body(f, i)]
    <3> HIDE DEF Body
    <3> QED BY <2>2 DEF Good
  <2>4. f = [i \in a..M |-> Body(f, i)]
    <3> HIDE DEF Body
    <3> QED BY <2>1, <2>3
  <2>5. Unrolls(f, a, M, h, nx)
    BY <2>4 DEF Unrolls
  <2> QED BY <2>5
<1>5. CASE a > M + 1
  <2>1. a..M = {}
    BY <1>5
  <2> DEFINE f == [i \in {} |-> h[i]]
  <2>2. f = [i \in a..M |-> Body(f, i)]
    BY <2>1
  <2>3. Unrolls(f, a, M, h, nx)
    BY <2>2 DEF Unrolls
  <2> HIDE DEF f
  <2> QED BY <2>3
<1>6. a <= M + 1 \/ a > M + 1
  OBVIOUS
<1> QED BY <1>4, <1>5, <1>6

\* What such a loop collects is a sequence of what it adds.
LEMMA UnrollsInto ==
  ASSUME NEW a \in Nat, NEW M \in Nat, NEW h, NEW nx, NEW f, NEW S,
         Unrolls(f, a, M, h, nx),
         \A i \in a..M : nx[i] = 0 \/ nx[i] \in (i + 1)..M,
         \A i \in a..M : h[i] \in Seq(S)
  PROVE  \A i \in a..M : f[i] \in Seq(S)
<1> DEFINE Bad == {n \in Nat : M - n \in a..M /\ f[M - n] \notin Seq(S)}
<1>1. ASSUME NEW i \in a..M, nx[i] # 0 => f[nx[i]] \in Seq(S)
      PROVE  f[i] \in Seq(S)
  <2> DEFINE rest == IF nx[i] = 0 THEN << >> ELSE f[nx[i]]
  <2>1. f[i] = h[i] \o rest
    BY DEF Unrolls
  <2>2. rest \in Seq(S)
    BY <1>1, EmptySeq
  <2> HIDE DEF rest
  <2> QED BY <2>1, <2>2, ConcatProperties
<1>2. Bad = {}
  <2> SUFFICES ASSUME Bad # {} PROVE FALSE
    OBVIOUS
  <2>1. PICK n \in Bad : \A y \in Bad : n <= y
    <3>1. Bad \in SUBSET Nat
      OBVIOUS
    <3> HIDE DEF Bad
    <3> QED BY <3>1, MinIsLeast
  <2> DEFINE i == M - n
             x == nx[i]
  <2>2. n \in Nat /\ i \in a..M /\ f[i] \notin Seq(S)
    BY <2>1
  <2>3. x # 0 /\ f[x] \notin Seq(S) /\ x \in (i + 1)..M
    BY <1>1, <2>2
  <2> HIDE DEF x
  <2>4. M - x \in Nat /\ M - (M - x) = x /\ x \in a..M /\ ~(n <= M - x)
    BY <2>2, <2>3
  <2> QED BY <2>1, <2>3, <2>4
<1>3. ASSUME NEW i \in a..M PROVE f[i] \in Seq(S)
  <2>1. M - i \in Nat /\ M - (M - i) = i
    OBVIOUS
  <2> QED BY <1>2, <2>1
<1> QED BY <1>3

\* A sequence with one element more in front.
LEMMA Prefixed ==
  ASSUME NEW S, NEW x \in S, NEW s \in Seq(S)
  PROVE  /\ <<x>> \o s \in Seq(S) /\ Len(<<x>> \o s) = Len(s) + 1
         /\ (<<x>> \o s)[1] = x
         /\ \A k \in 1..Len(s) : (<<x>> \o s)[k + 1] = s[k]
<1> DEFINE o == <<x>>
           t == o \o s
<1>1. o \in Seq(S) /\ Len(o) = 1 /\ o[1] = x
  BY Single
<1> HIDE DEF o
<1>2. /\ t \in Seq(S) /\ Len(t) = Len(o) + Len(s)
      /\ \A i \in 1..(Len(o) + Len(s)) : t[i] = IF i <= Len(o) THEN o[i] ELSE s[i - Len(o)]
  BY <1>1, ConcatProperties
<1>3. Len(s) \in Nat
  OBVIOUS
<1> HIDE DEF t
<1>4. Len(t) = Len(s) + 1 /\ t[1] = x
  BY <1>1, <1>2, <1>3
<1>5. ASSUME NEW k \in 1..Len(s) PROVE t[k + 1] = s[k]
  <2>1. k + 1 \in 1..(1 + Len(s)) /\ ~(k + 1 <= 1) /\ (k + 1) - 1 = k
    BY <1>3
  <2> QED BY <1>1, <1>2, <2>1
<1> QED BY <1>2, <1>4, <1>5 DEF t, o

\* A finite set with one element more.
LEMMA OneMore ==
  ASSUME NEW T, IsFiniteSet(T), NEW x, x \notin T
  PROVE  Cardinality(T \cup {x}) = Cardinality(T) + 1
BY FS_AddElement

\* nx leads from every position in C to the next one in C, and from the last to 0.
IsChain(C, nx) ==
  \A i \in C :
    /\ nx[i] = 0 \/ (nx[i] \in C /\ nx[i] > i)
    /\ nx[i] = 0 => \A j \in C : j <= i
    /\ nx[i] # 0 => \A j \in C : j <= i \/ j >= nx[i]

\* f adds v[i] at every position i in C.
Follows(f, C, v, nx) ==
  \A i \in C : f[i] = <<v[i]>> \o (IF nx[i] = 0 THEN << >> ELSE f[nx[i]])

\* s lists what v has for the positions in C from i on, in their order.
ListsFrom(s, C, v, i) ==
  /\ Len(s) = Cardinality({j \in C : j >= i})
  /\ \A j \in C : j >= i => s[Cardinality({k \in C : i <= k /\ k <= j})] = v[j]

\* A loop that follows a chain collects all its elements, each at its place.
LEMMA ChainElements ==
  ASSUME NEW M \in Nat, NEW C \in SUBSET (1..M), NEW v, NEW nx, NEW f,
         IsChain(C, nx), Follows(f, C, v, nx)
  PROVE  \A i \in C : ListsFrom(f[i], C, v, i)
<1>a. ASSUME NEW i \in C
      PROVE  /\ nx[i] = 0 \/ (nx[i] \in C /\ nx[i] > i)
             /\ nx[i] = 0 => \A j \in C : j <= i
             /\ nx[i] # 0 => \A j \in C : j <= i \/ j >= nx[i]
  BY DEF IsChain
<1>b. \A i \in C : f[i] = <<v[i]>> \o (IF nx[i] = 0 THEN << >> ELSE f[nx[i]])
  BY DEF Follows
<1> DEFINE S == {v[j] : j \in C}
           From(i) == {j \in C : j >= i}
           Between(i, j) == {k \in C : i <= k /\ k <= j}
           Good(i) == /\ f[i] \in Seq(S)
                      /\ Len(f[i]) = Cardinality(From(i))
                      /\ \A j \in C : j >= i => f[i][Cardinality(Between(i, j))] = v[j]
           Bad == {n \in Nat : M - n \in C /\ ~Good(M - n)}
<1>1. C \in SUBSET Nat /\ \A i \in C : i \in Nat /\ i >= 1 /\ i <= M
  OBVIOUS
<1>2. ASSUME NEW T \in SUBSET C PROVE IsFiniteSet(T) /\ Cardinality(T) \in Nat
  <2>1. T \in SUBSET Nat /\ \A s \in T : s <= M
    BY <1>1
  <2>2. IsFiniteSet(T)
    BY <2>1, FS_BoundedSetOfNaturals
  <2> QED BY <2>2, FS_CardinalityType
<1>3. ASSUME NEW i \in C, nx[i] = 0 PROVE Good(i)
  <2>1. f[i] = <<v[i]>> \o << >> /\ v[i] \in S
    BY <1>3, <1>b
  <2>2. /\ << >> \in Seq(S) /\ Len(<< >>) = 0
    BY EmptySeq
  <2>3. f[i] \in Seq(S) /\ Len(f[i]) = 1 /\ f[i][1] = v[i]
    <3> HIDE DEF S
    <3> QED BY <2>1, <2>2, Prefixed
  <2>4. From(i) = {i} /\ Between(i, i) = {i} /\ \A j \in C : j >= i => j = i
    <3>1. \A j \in C : j >= i <=> j = i
      BY <1>1, <1>3, <1>a
    <3>2. \A j \in C : i <= j /\ j <= i <=> j = i
      BY <1>1
    <3> QED BY <3>1, <3>2
  <2>5. Cardinality({i}) = 1
    BY FS_Singleton
  <2> HIDE DEF S, From, Between
  <2> QED BY <2>3, <2>4, <2>5
<1>4. ASSUME NEW i \in C, nx[i] # 0, Good(nx[i]) PROVE Good(i)
  <2> DEFINE n == nx[i]
  <2>1. n \in C /\ n > i /\ n \in Nat /\ i \in Nat
    BY <1>1, <1>4, <1>a
  <2>2. f[i] = <<v[i]>> \o f[n] /\ v[i] \in S
    BY <1>4, <1>b
  <2>3. f[n] \in Seq(S) /\ Len(f[n]) = Cardinality(From(n))
    BY <1>4
  <2>4. /\ f[i] \in Seq(S) /\ Len(f[i]) = Len(f[n]) + 1 /\ f[i][1] = v[i]
        /\ \A k \in 1..Len(f[n]) : f[i][k + 1] = f[n][k]
    <3>1. f[n] \in Seq(S)
      BY <2>3
    <3>2. f[i] = <<v[i]>> \o f[n] /\ v[i] \in S
      BY <2>2
    <3> DEFINE fi == f[i]
               fn == f[n]
    <3> HIDE DEF S, n, fi, fn
    <3>3. fn \in Seq(S) /\ fi = <<v[i]>> \o fn /\ v[i] \in S
      BY <3>1, <3>2 DEF fi, fn
    <3>4. /\ fi \in Seq(S) /\ Len(fi) = Len(fn) + 1 /\ fi[1] = v[i]
          /\ \A k \in 1..Len(fn) : fi[k + 1] = fn[k]
      BY <3>3, Prefixed
    <3> QED BY <3>4 DEF fi, fn
  <2>a. \A j \in C : j <= i \/ j >= n
    BY <1>4, <1>a
  <2>5. From(i) = From(n) \cup {i} /\ i \notin From(n) /\ From(n) \in SUBSET C
    <3>1. \A j \in C : j >= i <=> j >= n \/ j = i
      BY <1>1, <2>1, <2>a
    <3>2. ~(i >= n)
      BY <2>1
    <3> HIDE DEF n
    <3> QED BY <3>1, <3>2
  <2>6. Cardinality(From(i)) = Cardinality(From(n)) + 1 /\ IsFiniteSet(From(n))
    <3>1. IsFiniteSet(From(n)) /\ Cardinality(From(n)) \in Nat
      BY <1>2, <2>5
    <3> HIDE DEF S, n, From
    <3> QED BY <2>5, <3>1, FS_AddElement
  <2>7. ASSUME NEW j \in C, j >= i PROVE f[i][Cardinality(Between(i, j))] = v[j]
    <3>1. CASE j = i
      <4>1. Between(i, j) = {i}
        <5>1. \A k \in C : i <= k /\ k <= i <=> k = i
          BY <1>1
        <5> QED BY <3>1, <5>1
      <4>2. Cardinality({i}) = 1
        BY FS_Singleton
      <4> HIDE DEF Between, S
      <4> QED BY <2>4, <3>1, <4>1, <4>2
    <3>2. CASE j # i
      <4>1. j >= n
        BY <1>1, <2>a, <2>7, <3>2
      <4>2. /\ Between(i, j) = Between(n, j) \cup {i} /\ i \notin Between(n, j)
            /\ Between(n, j) \in SUBSET From(n) /\ j \in Between(n, j)
            /\ Between(n, j) \in SUBSET C
        <5>1. \A k \in C : i <= k /\ k <= j <=> (n <= k /\ k <= j) \/ k = i
          BY <1>1, <2>1, <2>a, <2>7
        <5>2. ~(n <= i) /\ n <= j /\ j <= j /\ \A k \in C : n <= k => k >= n
          BY <1>1, <2>1, <4>1
        <5> HIDE DEF n
        <5> QED BY <5>1, <5>2
      <4>3. IsFiniteSet(Between(n, j)) /\ Cardinality(Between(n, j)) \in Nat
        BY <1>2, <4>2
      <4>4. f[n][Cardinality(Between(n, j))] = v[j]
        BY <1>4, <4>1
      <4> HIDE DEF S, n, From, Between
      <4>5. Cardinality(Between(i, j)) = Cardinality(Between(n, j)) + 1
        <5>1. Cardinality(Between(n, j) \cup {i}) = Cardinality(Between(n, j)) + 1
          BY <4>2, <4>3, OneMore, Zenon
        <5> QED BY <4>2, <5>1
      <4>6. Cardinality(Between(n, j)) <= Cardinality(From(n))
        BY <2>6, <4>2, FS_Subset
      <4>7. Cardinality(Between(n, j)) # 0
        BY <4>2, <4>3, FS_EmptySet
      <4>8. Cardinality(Between(n, j)) \in 1..Len(f[n])
        BY <2>3, <4>3, <4>6, <4>7
      <4> QED BY <2>4, <4>4, <4>5, <4>8
    <3> QED BY <3>1, <3>2
  <2> HIDE DEF S, From, Between, n
  <2> QED BY <2>3, <2>4, <2>6, <2>7
<1>5. Bad = {}
  <2> SUFFICES ASSUME Bad # {} PROVE FALSE
    OBVIOUS
  <2> HIDE DEF Good
  <2>1. PICK n \in Bad : \A y \in Bad : n <= y
    <3>1. Bad \in SUBSET Nat
      OBVIOUS
    <3> HIDE DEF Bad
    <3> QED BY <3>1, MinIsLeast
  <2>2. n \in Nat /\ M - n \in C /\ ~Good(M - n)
    BY <2>1
  <2> DEFINE i == M - n
  <2>3. nx[i] \in C /\ nx[i] > i
    BY <1>3, <1>a, <2>2
  <2>4. M - nx[i] \in Nat /\ M - (M - nx[i]) = nx[i] /\ ~(n <= M - nx[i])
    <3> DEFINE x == nx[i]
    <3>1. x \in Nat /\ x <= M /\ x > i /\ i = M - n
      BY <1>1, <2>3
    <3> HIDE DEF x, i
    <3>2. M - x \in Nat /\ M - (M - x) = x /\ ~(n <= M - x)
      BY <2>2, <3>1
    <3> QED BY <3>2 DEF x
  <2>5. Good(nx[i])
    <3> HIDE DEF i
    <3> QED BY <2>1, <2>3, <2>4
  <2>6. nx[i] # 0
    BY <1>1, <2>3
  <2> HIDE DEF i
  <2> QED BY <1>4, <2>2, <2>5, <2>6 DEF i
<1>6. ASSUME NEW i \in C PROVE Good(i)
  <2>1. M - i \in Nat /\ M - (M - i) = i
    BY <1>1
  <2> HIDE DEF Good
  <2> QED BY <1>5, <2>1
<1> QED BY <1>6 DEF ListsFrom

-----------------------------------------------------------------------------
(* The parameters                                                           *)

\* find_first_not_of returns the first position from i on that does not hold c.
LEMMA FindsFirstNot ==
  ASSUME NEW s \in Seq(STRING), NEW c, NEW i \in Nat \ {0}
  PROVE  \/ /\ FindNot(s, c, i) = 0
            /\ \A j \in i..Len(s) : s[j] = c
         \/ /\ FindNot(s, c, i) \in i..Len(s)
            /\ s[FindNot(s, c, i)] # c
            /\ \A j \in i..(FindNot(s, c, i) - 1) : s[j] = c
<1> DEFINE T == {j \in i..Len(s) : s[j] # c}
<1>1. FindNot(s, c, i) = IF T # {} THEN Min(T) ELSE 0
  BY DEF FindNot, SelectInSubSeq
<1>2. T \in SUBSET Nat
  OBVIOUS
<1>3. CASE T = {}
  BY <1>1, <1>3
<1>4. CASE T # {}
  <2>1. Min(T) \in T /\ \A y \in T : Min(T) <= y
    BY <1>2, <1>4, MinIsLeast
  <2>2. FindNot(s, c, i) = Min(T)
    BY <1>1, <1>4
  <2> HIDE DEF T
  <2>3. ASSUME NEW j \in i..(Min(T) - 1) PROVE s[j] = c
    <3>1. Min(T) \in i..Len(s)
      BY <2>1 DEF T
    <3>2. j \in i..Len(s) /\ ~(Min(T) <= j)
      BY <3>1
    <3> QED BY <2>1, <3>2 DEF T
  <2> QED BY <2>1, <2>2, <2>3 DEF T
<1> QED BY <1>3, <1>4

\* A view up to what a search has found is a sequence of characters.
LEMMA ViewFound ==
  ASSUME NEW s \in Seq(STRING), NEW c, NEW i \in Nat \ {0}, NEW k \in Nat \ {0}
  PROVE  View(s, k, Find(s, c, i)) \in Seq(STRING)
<1> DEFINE f == Find(s, c, i)
           e == IF f = 0 THEN Len(s) ELSE f - 1
<1>1. f \in 0..Len(s) /\ Len(s) \in Nat
  BY FindInRange
<1> HIDE DEF f
<1>2. f \in Nat /\ e \in Nat /\ f <= Len(s) + 1
  BY <1>1
<1> HIDE DEF e
<1>3. e = IF f = 0 THEN Len(s) ELSE f - 1
  BY DEF e
<1>4. View(s, k, f) \in Seq(STRING)
  BY <1>2, <1>3, ViewOf
<1> QED BY <1>4 DEF f

\* Where the loop over the parameters goes on behind the one at i; 0 if it ends.
NextWord(l, i) ==
  IF Find(l, Space, i) = 0 THEN 0 ELSE NextParam(l, Find(l, Space, i))

\* The loop over the parameters only moves forward, and stays in the line.
LEMMA NextWordBehind ==
  ASSUME NEW l \in Seq(STRING), NEW i \in Nat \ {0}
  PROVE  NextWord(l, i) = 0 \/ NextWord(l, i) \in (i + 1)..Len(l)
<1> DEFINE e == Find(l, Space, i)
<1>1. e = 0 \/ e \in i..Len(l)
  BY FindsFirst
<1> HIDE DEF e
<1>2. CASE e = 0
  BY <1>2 DEF NextWord, e
<1>3. CASE e \in i..Len(l) /\ e # 0
  <2>1. e + 1 \in Nat \ {0} /\ e >= i
    BY <1>3
  <2>2. FindNot(l, Space, e + 1) = 0 \/ FindNot(l, Space, e + 1) \in (e + 1)..Len(l)
    BY <2>1, FindsFirstNot
  <2>3. NextWord(l, i) = FindNot(l, Space, e + 1)
    BY <1>3 DEF NextWord, NextParam, e
  <2> DEFINE n == FindNot(l, Space, e + 1)
  <2> HIDE DEF n
  <2>4. (n = 0 \/ n \in (e + 1)..Len(l)) /\ NextWord(l, i) = n
    BY <2>2, <2>3 DEF n
  <2>5. Len(l) \in Nat /\ i \in Nat /\ e \in Nat
    BY <1>3
  <2>6. n = 0 \/ n \in (i + 1)..Len(l)
    BY <2>1, <2>4, <2>5
  <2> QED BY <2>4, <2>6
<1> QED BY <1>1, <1>2, <1>3

\* The loop over the parameters, by one round of it.
LEMMA ParamsFunction ==
  ASSUME NEW l \in Seq(STRING), NEW from \in 1..(Len(l) + 1)
  PROVE  \E g : /\ Params(l, from) = g[from]
                /\ \A i \in from..(Len(l) + 1) :
                     g[i] = <<View(l, i, Find(l, Space, i))>>
                            \o (IF NextWord(l, i) = 0 THEN << >> ELSE g[NextWord(l, i)])
                /\ \A i \in from..(Len(l) + 1) : g[i] \in Seq(Seq(STRING))
<1> DEFINE D == from..(Len(l) + 1)
           h == [i \in D |-> <<View(l, i, Find(l, Space, i))>>]
           nx == [i \in D |-> NextWord(l, i)]
           Body(g, i) == <<View(l, i, Find(l, Space, i))>>
                  \o (IF Find(l, Space, i) = 0 \/ NextParam(l, Find(l, Space, i)) = 0 THEN << >>
                      ELSE g[NextParam(l, Find(l, Space, i))])
           Is(g) == g = [i \in D |-> Body(g, i)]
           c == CHOOSE g : Is(g)
<1>1. \A i \in D : i \in Nat \ {0}
  OBVIOUS
<1>2. Len(l) + 1 \in Nat /\ from \in Nat
  OBVIOUS
<1>3. \A i \in D : nx[i] = 0 \/ nx[i] \in (i + 1)..(Len(l) + 1)
  <2> SUFFICES ASSUME NEW i \in D PROVE nx[i] = 0 \/ nx[i] \in (i + 1)..(Len(l) + 1)
    OBVIOUS
  <2>1. NextWord(l, i) = 0 \/ NextWord(l, i) \in (i + 1)..Len(l)
    BY <1>1, NextWordBehind
  <2>2. i \in Nat /\ Len(l) \in Nat
    BY <1>1
  <2> QED BY <2>1, <2>2
<1>4. \E g : Unrolls(g, from, Len(l) + 1, h, nx)
  <2> DEFINE M == Len(l) + 1
  <2>1. M \in Nat /\ from \in Nat /\ \A i \in from..M : nx[i] = 0 \/ nx[i] \in (i + 1)..M
    BY <1>2, <1>3
  <2> HIDE DEF h, nx, M
  <2>2. \E g : Unrolls(g, from, M, h, nx)
    BY <2>1, RecursionExists
  <2> QED BY <2>2 DEF M
<1>5. ASSUME NEW g, NEW i \in D
      PROVE  h[i] \o (IF nx[i] = 0 THEN << >> ELSE g[nx[i]]) = Body(g, i)
  BY DEF NextWord
<1>6. \E g : Is(g)
  <2>0. PICK g : Unrolls(g, from, Len(l) + 1, h, nx)
    BY <1>4
  <2>1. g = [i \in D |-> h[i] \o (IF nx[i] = 0 THEN << >> ELSE g[nx[i]])]
    BY <2>0 DEF Unrolls
  <2> HIDE DEF h, nx, Body, D
  <2>2. Is(g)
    BY <1>5, <2>1
  <2> QED BY <2>2
<1>t. ASSUME NEW i \in D PROVE h[i] \in Seq(Seq(STRING))
  <2>1. View(l, i, Find(l, Space, i)) \in Seq(STRING)
    BY <1>1, ViewFound
  <2> QED BY <2>1, Single
<1>7. Params(l, from) = c[from]
  BY DEF Params
<1>8. Is(c)
  <2> HIDE DEF Is
  <2> QED BY <1>6
<1> HIDE DEF c
<1>u. \A i \in D : c[i] \in Seq(Seq(STRING))
  <2> DEFINE M == Len(l) + 1
  <2>1. /\ M \in Nat /\ from \in Nat /\ \A i \in from..M : nx[i] = 0 \/ nx[i] \in (i + 1)..M
        /\ \A i \in from..M : h[i] \in Seq(Seq(STRING))
    BY <1>2, <1>3, <1>t
  <2>2. Unrolls(c, from, M, h, nx)
    <3>1. c = [i \in D |-> Body(c, i)]
      BY <1>8
    <3>2. c = [i \in D |-> h[i] \o (IF nx[i] = 0 THEN << >> ELSE c[nx[i]])]
      <4> HIDE DEF h, nx, Body, D
      <4> QED BY <1>5, <3>1
    <3> HIDE DEF h, nx, Body
    <3> QED BY <3>2 DEF Unrolls
  <2>3. \A i \in from..M : c[i] \in Seq(Seq(STRING))
    <3> HIDE DEF h, nx, M, Body
    <3> QED BY <2>1, <2>2, UnrollsInto
  <2> QED BY <2>3
<1>9. ASSUME NEW i \in D
      PROVE  c[i] = <<View(l, i, Find(l, Space, i))>>
                            \o (IF NextWord(l, i) = 0 THEN << >> ELSE c[NextWord(l, i)])
  <2>1. c[i] = Body(c, i)
    <3> HIDE DEF Body
    <3> QED BY <1>8
  <2> QED BY <2>1 DEF NextWord
<1> QED BY <1>7, <1>9, <1>u

\* The view of a parameter is a whole word.
LEMMA WordEnds ==
  ASSUME NEW l \in Seq(STRING), NEW i \in 1..Len(l), l[i] # Space
  PROVE  \E j \in i..Len(l) : /\ View(l, i, Find(l, Space, i)) = SubSeq(l, i, j)
                              /\ Free(l, Space, i, j) /\ (j = Len(l) \/ l[j + 1] = Space)
<1> DEFINE e == Find(l, Space, i)
<1>1. Len(l) \in Nat /\ i \in Nat \ {0}
  OBVIOUS
<1>2. \/ e = 0 /\ \A k \in i..Len(l) : l[k] # Space
      \/ e \in i..Len(l) /\ l[e] = Space /\ \A k \in i..(e - 1) : l[k] # Space
  BY <1>1, FindsFirst
<1>3. View(l, i, e) = SubSeq(l, i, IF e = 0 THEN Len(l) ELSE e - 1)
  BY DEF View
<1> HIDE DEF e
<1>4. CASE e = 0
  <2>1. Len(l) \in i..Len(l) /\ Free(l, Space, i, Len(l))
    BY <1>1, <1>2, <1>4 DEF Free
  <2> QED BY <1>3, <1>4, <2>1 DEF e
<1>5. CASE e # 0
  <2>1. e \in i..Len(l) /\ l[e] = Space /\ Free(l, Space, i, e - 1)
    BY <1>1, <1>2, <1>5 DEF Free
  <2>2. e - 1 \in i..Len(l) /\ (e - 1) + 1 = e
    BY <1>1, <2>1
  <2>3. View(l, i, e) = SubSeq(l, i, e - 1)
    BY <1>3, <1>5
  <2> QED BY <2>1, <2>2, <2>3 DEF e
<1> QED BY <1>4, <1>5

\* The loop over the parameters goes from each word to the next.
LEMMA NextWordStart ==
  ASSUME NEW l \in Seq(STRING), NEW c \in 0..Len(l), NEW i \in WordStarts(l, c)
  PROVE  /\ NextWord(l, i) = 0 \/ (NextWord(l, i) \in WordStarts(l, c) /\ NextWord(l, i) > i)
         /\ NextWord(l, i) = 0 => \A j \in WordStarts(l, c) : j <= i
         /\ NextWord(l, i) # 0 => \A j \in WordStarts(l, c) : j <= i \/ j >= NextWord(l, i)
<1> DEFINE W == WordStarts(l, c)
           e == Find(l, Space, i)
           n == NextParam(l, e)
<1>1. /\ Len(l) \in Nat /\ c \in Nat /\ i \in Nat \ {0} /\ i >= c + 1 /\ i <= Len(l)
      /\ l[i] # Space
  BY DEF WordStarts
<1>2. \/ e = 0 /\ \A k \in i..Len(l) : l[k] # Space
      \/ e \in i..Len(l) /\ l[e] = Space /\ \A k \in i..(e - 1) : l[k] # Space
  BY <1>1, FindsFirst
<1>3. NextWord(l, i) = IF e = 0 THEN 0 ELSE n
  BY DEF NextWord
<1>4. ASSUME NEW j \in W
      PROVE  /\ j \in Nat /\ j >= c + 1 /\ j <= Len(l) /\ l[j] # Space
             /\ j = c + 1 \/ l[j - 1] = Space
  BY <1>1 DEF WordStarts
<1> HIDE DEF W
<1>5. CASE e = 0
  <2>1. ASSUME NEW j \in W PROVE j <= i
    <3> SUFFICES ASSUME j > i PROVE FALSE
      BY <1>1, <1>4
    <3>1. j - 1 \in i..Len(l) /\ l[j - 1] = Space
      BY <1>1, <1>4
    <3> HIDE DEF e
    <3> QED BY <1>2, <1>5, <3>1, <1>1
  <2> QED BY <1>3, <1>5, <2>1 DEF W
<1>6. CASE e # 0
  <2>1. e \in i..Len(l) /\ l[e] = Space /\ (\A k \in i..(e - 1) : l[k] # Space) /\ e \in Nat /\ e > i
    <3> HIDE DEF e
    <3> QED BY <1>1, <1>2, <1>6
  <2>2. \/ n = 0 /\ \A k \in (e + 1)..Len(l) : l[k] = Space
        \/ n \in (e + 1)..Len(l) /\ l[n] # Space /\ \A k \in (e + 1)..(n - 1) : l[k] = Space
    <3>1. e + 1 \in Nat \ {0} /\ n = FindNot(l, Space, e + 1)
      BY <2>1 DEF NextParam
    <3> HIDE DEF e, n
    <3> QED BY <3>1, FindsFirstNot
  <2> HIDE DEF e, n
  <2>3. ASSUME NEW j \in W, j > i PROVE j > e
    <3> SUFFICES ASSUME j <= e PROVE FALSE
      BY <1>4, <2>1
    <3>1. j - 1 \in i..(e - 1) /\ l[j - 1] = Space
      BY <1>1, <1>4, <2>1, <2>3
    <3> QED BY <2>1, <3>1
  <2>4. CASE n = 0
    <3>1. ASSUME NEW j \in W PROVE j <= i
      <4> SUFFICES ASSUME j > i PROVE FALSE
        BY <1>1, <1>4
      <4>1. j > e
        BY <2>3
      <4>2. j \in (e + 1)..Len(l)
        BY <1>1, <1>4, <2>1, <4>1
      <4> QED BY <1>1, <1>4, <2>1, <2>2, <2>4, <4>2
    <3> QED BY <1>3, <1>6, <2>4, <3>1 DEF W
  <2>5. CASE n # 0
    <3>1. /\ n \in (e + 1)..Len(l) /\ l[n] # Space /\ \A k \in (e + 1)..(n - 1) : l[k] = Space
          /\ n \in Nat
      BY <1>1, <2>1, <2>2, <2>5
    <3>2. l[n - 1] = Space
      <4>1. n - 1 = e \/ n - 1 \in (e + 1)..(n - 1)
        BY <2>1, <3>1
      <4> QED BY <2>1, <3>1, <4>1
    <3>3. n \in W /\ n > i
      <4>1. n \in (c + 1)..Len(l) /\ n > i
        BY <1>1, <2>1, <3>1
      <4> QED BY <3>1, <3>2, <4>1 DEF W, WordStarts
    <3>4. ASSUME NEW j \in W PROVE j <= i \/ j >= n
      <4> SUFFICES ASSUME j > i, j < n PROVE FALSE
        BY <1>1, <1>4, <3>1
      <4>1. j > e
        BY <2>3
      <4>2. j \in (e + 1)..(n - 1)
        BY <1>4, <2>1, <3>1, <4>1
      <4> QED BY <1>4, <3>1, <4>2
    <3>5. NextWord(l, i) = n
      BY <1>3, <1>6
    <3> QED BY <2>5, <3>3, <3>4, <3>5 DEF W
  <2> QED BY <2>4, <2>5
<1> QED BY <1>5, <1>6

\* param_vec holds the words behind the command.
LEMMA ParamsAreWords ==
  ASSUME NEW l \in Seq(STRING), NEW c \in 0..Len(l), c < Len(l), l[c + 1] # Space
  PROVE  AreWords(Params(l, c + 1), l, c)
<1> DEFINE W == WordStarts(l, c)
           v == [i \in W |-> View(l, i, Find(l, Space, i))]
           nx == [i \in W |-> NextWord(l, i)]
           M == Len(l)
<1>1. M \in Nat /\ c \in Nat /\ c + 1 \in 1..(Len(l) + 1)
  OBVIOUS
<1>2. PICK g : /\ Params(l, c + 1) = g[c + 1]
               /\ \A i \in (c + 1)..(Len(l) + 1) :
                     g[i] = <<View(l, i, Find(l, Space, i))>>
                            \o (IF NextWord(l, i) = 0 THEN << >> ELSE g[NextWord(l, i)])
               /\ \A i \in (c + 1)..(Len(l) + 1) : g[i] \in Seq(Seq(STRING))
  BY <1>1, ParamsFunction
<1>3. /\ W \in SUBSET (1..M) /\ \A i \in W : i \in (c + 1)..(Len(l) + 1) /\ l[i] # Space
      /\ c + 1 \in W /\ \A i \in W : i >= c + 1
  BY <1>1 DEF WordStarts
<1> HIDE DEF W
<1>4. \A i \in W : v[i] = View(l, i, Find(l, Space, i)) /\ nx[i] = NextWord(l, i)
  OBVIOUS
<1> HIDE DEF v, nx, M
<1>5. IsChain(W, nx)
  BY <1>4, NextWordStart DEF W, IsChain
<1>6. Follows(g, W, v, nx)
  BY <1>2, <1>3, <1>4 DEF Follows
<1>7. \A i \in W :
           /\ Len(g[i]) = Cardinality({j \in W : j >= i})
           /\ \A j \in W : j >= i => g[i][Cardinality({k \in W : i <= k /\ k <= j})] = v[j]
  <2>1. W \in SUBSET (1..M) /\ M \in Nat
    BY <1>1, <1>3
  <2>2. \A i \in W : ListsFrom(g[i], W, v, i)
    BY <1>5, <1>6, <2>1, ChainElements
  <2> QED BY <2>2 DEF ListsFrom
<1>8. {j \in W : j >= c + 1} = W
  BY <1>3
<1>9. Len(Params(l, c + 1)) = Cardinality(W)
  BY <1>2, <1>3, <1>7, <1>8
<1>10. ASSUME NEW j \in W PROVE Params(l, c + 1)[Rank(W, j)] = v[j]
  <2>1. {k \in W : c + 1 <= k /\ k <= j} = {k \in W : k <= j}
    <3>1. \A k \in W : c + 1 <= k
      BY <1>3
    <3> QED BY <3>1
  <2>2. g[c + 1][Cardinality({k \in W : c + 1 <= k /\ k <= j})] = v[j]
    BY <1>3, <1>7
  <2> QED BY <1>2, <2>1, <2>2 DEF Rank
<1>11. ASSUME NEW i \in W
       PROVE  \E j \in i..Len(l) :
                /\ Params(l, c + 1)[Rank(W, i)] = SubSeq(l, i, j)
                /\ Free(l, Space, i, j) /\ (j = Len(l) \/ l[j + 1] = Space)
  <2>1. i \in 1..Len(l) /\ l[i] # Space
    BY <1>3 DEF M
  <2>2. PICK j \in i..Len(l) : /\ View(l, i, Find(l, Space, i)) = SubSeq(l, i, j)
                               /\ Free(l, Space, i, j) /\ (j = Len(l) \/ l[j + 1] = Space)
    BY <2>1, WordEnds
  <2>3. Params(l, c + 1)[Rank(W, i)] = SubSeq(l, i, j)
    BY <1>4, <1>10, <2>2
  <2> QED BY <2>2, <2>3
<1> QED BY <1>9, <1>11 DEF AreWords, W

-----------------------------------------------------------------------------
(* The cuts                                                                 *)

\* The first parameter begins right behind the space after the command.
LEMMA FirstParam ==
  ASSUME NEW l \in Seq(STRING), NEW from \in 1..(Len(l) + 1)
  PROVE  Params(l, from)[1] = View(l, from, Find(l, Space, from))
<1>1. PICK g : /\ Params(l, from) = g[from]
               /\ \A i \in from..(Len(l) + 1) :
                    g[i] = <<View(l, i, Find(l, Space, i))>>
                           \o (IF NextWord(l, i) = 0 THEN << >> ELSE g[NextWord(l, i)])
               /\ \A i \in from..(Len(l) + 1) : g[i] \in Seq(Seq(STRING))
  BY ParamsFunction
<1> DEFINE n == NextWord(l, from)
           v == View(l, from, Find(l, Space, from))
           rest == IF n = 0 THEN << >> ELSE g[n]
<1>2. from \in Nat \ {0} /\ Len(l) \in Nat /\ from \in from..(Len(l) + 1)
  OBVIOUS
<1>3. v \in Seq(STRING)
  BY <1>2, ViewFound
<1>4. n = 0 \/ n \in (from + 1)..Len(l)
  BY <1>2, NextWordBehind
<1> HIDE DEF n
<1>5. rest \in Seq(Seq(STRING))
  <2>1. n = 0 \/ n \in from..(Len(l) + 1)
    BY <1>2, <1>4
  <2> QED BY <1>1, <2>1, EmptySeq
<1>6. Params(l, from) = <<v>> \o rest
  BY <1>1, <1>2 DEF n
<1> HIDE DEF v, rest
<1>7. (<<v>> \o rest)[1] = v
  BY <1>3, <1>5, Prefixed
<1> QED BY <1>6, <1>7 DEF v

\* A view that ends before a position of the line.
LEMMA ViewBetween ==
  ASSUME NEW l \in Seq(STRING), NEW i \in Nat \ {0}, NEW j \in 1..Len(l), i <= j
  PROVE  /\ View(l, i, j) = SubSeq(l, i, j - 1)
         /\ View(l, i, j) \in Seq(STRING) /\ Len(View(l, i, j)) = j - i
         /\ View(l, i, j) = << >> <=> i = j
         /\ \A k \in 1..(j - i) : View(l, i, j)[k] = l[i + k - 1]
<1> DEFINE v == View(l, i, j)
<1>1. Len(l) \in Nat /\ j \in Nat /\ j # 0 /\ j - 1 \in Nat /\ j <= Len(l) + 1
  OBVIOUS
<1>2. j - 1 = IF j = 0 THEN Len(l) ELSE j - 1
  BY <1>1
<1>3. /\ v \in Seq(STRING)
      /\ Len(v) = IF i <= j - 1 THEN (j - 1) - i + 1 ELSE 0
      /\ \A k \in 1..Len(v) : v[k] = l[i + k - 1]
  BY <1>1, <1>2, ViewOf
<1>4. v = SubSeq(l, i, j - 1)
  BY <1>1 DEF View
<1> HIDE DEF v
<1>5. Len(v) = j - i
  BY <1>1, <1>3
<1>6. v = << >> <=> Len(v) = 0
  BY <1>3, EmptySeq
<1>7. v = << >> <=> i = j
  BY <1>1, <1>5, <1>6
<1> QED BY <1>3, <1>4, <1>5, <1>7 DEF v

\* A piece of the grammar ends where the search for a space ends.
LEMMA PieceFound ==
  ASSUME NEW l \in Seq(STRING), NEW i \in Nat \ {0}, NEW j \in Nat
  PROVE  Piece(l, i, j) <=> j # 0 /\ j = Find(l, Space, i)
<1> DEFINE f == Find(l, Space, i)
<1>1. \/ f = 0 /\ \A k \in i..Len(l) : l[k] # Space
      \/ f \in i..Len(l) /\ l[f] = Space /\ \A k \in i..(f - 1) : l[k] # Space
  BY FindsFirst
<1>2. Len(l) \in Nat
  OBVIOUS
<1> HIDE DEF f
<1>3. ASSUME j # 0, j = f PROVE Piece(l, i, j)
  BY <1>1, <1>3 DEF Piece, Free
<1>4. ASSUME Piece(l, i, j) PROVE j # 0 /\ j = f
  <2>1. j \in i..Len(l) /\ l[j] = Space /\ \A k \in i..(j - 1) : l[k] # Space
    BY <1>4 DEF Piece, Free
  <2>2. f \in i..Len(l) /\ l[f] = Space /\ \A k \in i..(f - 1) : l[k] # Space
    BY <1>1, <2>1
  <2>3. ~(j \in i..(f - 1)) /\ ~(f \in i..(j - 1))
    BY <2>1, <2>2
  <2> QED BY <1>2, <2>1, <2>2, <2>3
<1> QED BY <1>3, <1>4 DEF f

\* The three searches for a space in the constructor.
TagEnd(l) == IF IsAt(l, 1, "@") THEN Find(l, Space, 2) ELSE 0
SourceEnd(l, t) == IF IsAt(l, t + 1, ":") THEN Find(l, Space, t + 2) ELSE t
CommandEnd(l, s) == Find(l, Space, s + 1)

\* The tags end where the constructor ends them, unless it throws.
LEMMA TagCutFound ==
  ASSUME NEW l \in Seq(STRING), NEW t \in Nat
  PROVE  TagCut(l, t) <=>
           /\ t = TagEnd(l)
           /\ IsAt(l, 1, "@") => t # 0 /\ TagsWellFormed(View(l, 2, t))
<1>1. CASE ~IsAt(l, 1, "@")
  BY <1>1 DEF TagCut, TagEnd, IsAt, Begins
<1>2. CASE IsAt(l, 1, "@")
  <2>1. TagCut(l, t) <=> Piece(l, 2, t) /\ ~Free(l, "=", 2, t - 1)
    BY <1>2 DEF TagCut, IsAt, Begins
  <2>2. Piece(l, 2, t) <=> t # 0 /\ t = Find(l, Space, 2)
    BY PieceFound
  <2>3. TagEnd(l) = Find(l, Space, 2)
    BY <1>2 DEF TagEnd
  <2>4. ASSUME t # 0, t = Find(l, Space, 2)
        PROVE  ~Free(l, "=", 2, t - 1) <=> TagsWellFormed(View(l, 2, t))
    <3> DEFINE v == View(l, 2, t)
               f == Find(v, "=", 1)
    <3>1. t \in 2..Len(l) /\ Len(l) \in Nat
      <4>1. Piece(l, 2, t)
        BY <2>2, <2>4
      <4> QED BY <4>1 DEF Piece
    <3>2. /\ v \in Seq(STRING) /\ Len(v) = t - 2
          /\ \A k \in 1..(t - 2) : v[k] = l[2 + k - 1]
      <4>1. t \in 1..Len(l) /\ 2 <= t /\ 2 \in Nat \ {0}
        BY <3>1
      <4>2. v \in Seq(STRING) /\ Len(v) = t - 2
        BY <4>1, ViewBetween
      <4>3. \A k \in 1..(t - 2) : v[k] = l[2 + k - 1]
        BY <4>1, ViewBetween
      <4> QED BY <4>2, <4>3
    <3> HIDE DEF v
    <3>3. \/ f = 0 /\ \A j \in 1..Len(v) : v[j] # "="
          \/ f \in 1..Len(v) /\ v[f] = "="
      BY <3>2, FindsFirst
    <3>4. TagsWellFormed(v) <=> f # 0
      BY DEF TagsWellFormed
    <3> HIDE DEF f
    <3>5. ASSUME f # 0 PROVE ~Free(l, "=", 2, t - 1)
      <4>1. f \in 1..(t - 2) /\ l[2 + f - 1] = "=" /\ 2 + f - 1 \in 2..(t - 1)
        BY <3>1, <3>2, <3>3, <3>5
      <4> QED BY <4>1 DEF Free
    <3>6. ASSUME f = 0 PROVE Free(l, "=", 2, t - 1)
      <4> SUFFICES ASSUME NEW k \in 2..(t - 1) PROVE l[k] # "="
        BY DEF Free
      <4>1. k - 1 \in 1..(t - 2) /\ 2 + (k - 1) - 1 = k
        BY <3>1
      <4>2. v[k - 1] # "="
        BY <3>2, <3>3, <3>6, <4>1
      <4> QED BY <3>2, <4>1, <4>2
    <3> QED BY <3>4, <3>5, <3>6 DEF v
  <2> QED BY <1>2, <2>1, <2>2, <2>3, <2>4
<1> QED BY <1>1, <1>2

\* The same for the source.
LEMMA SourceCutFound ==
  ASSUME NEW l \in Seq(STRING), NEW t \in Nat, NEW s \in Nat
  PROVE  SourceCut(l, t, s) <=> s = SourceEnd(l, t) /\ (IsAt(l, t + 1, ":") => s # 0)
<1>1. t + 2 \in Nat \ {0}
  OBVIOUS
<1>2. Piece(l, t + 2, s) <=> s # 0 /\ s = Find(l, Space, t + 2)
  BY <1>1, PieceFound
<1> QED BY <1>2 DEF SourceCut, SourceEnd, IsAt, Begins

\* The same for the command and the first parameter behind it.
LEMMA CommandCutFound ==
  ASSUME NEW l \in Seq(STRING), NEW s \in Nat, NEW c \in Nat
  PROVE  CommandCut(l, s, c) <=>
           /\ c = CommandEnd(l, s) /\ c # 0
           /\ View(l, s + 1, c) # << >>
           /\ Params(l, c + 1)[1] # << >>
<1>1. s + 1 \in Nat \ {0} /\ c + 1 \in Nat \ {0} /\ Len(l) \in Nat
  OBVIOUS
<1>2. Piece(l, s + 1, c) <=> c # 0 /\ c = CommandEnd(l, s)
  BY <1>1, PieceFound DEF CommandEnd
<1> SUFFICES ASSUME Piece(l, s + 1, c)
             PROVE  /\ c > s + 1 <=> View(l, s + 1, c) # << >>
                    /\ c < Len(l) /\ l[c + 1] # Space <=> Params(l, c + 1)[1] # << >>
  BY <1>2 DEF CommandCut
<1>3. c \in (s + 1)..Len(l) /\ c \in 1..Len(l) /\ s + 1 <= c
  BY <1>1 DEF Piece
<1>4. View(l, s + 1, c) = << >> <=> s + 1 = c
  BY <1>1, <1>3, ViewBetween
<1>5. c > s + 1 <=> View(l, s + 1, c) # << >>
  BY <1>1, <1>3, <1>4
<1> DEFINE f == Find(l, Space, c + 1)
           v == View(l, c + 1, f)
<1>6. Params(l, c + 1)[1] = v
  <2>1. c + 1 \in 1..(Len(l) + 1)
    BY <1>1, <1>3
  <2> QED BY <2>1, FirstParam
<1>7. \/ f = 0 /\ \A k \in (c + 1)..Len(l) : l[k] # Space
      \/ f \in (c + 1)..Len(l) /\ l[f] = Space /\ \A k \in (c + 1)..(f - 1) : l[k] # Space
  BY <1>1, FindsFirst
<1>8. c < Len(l) /\ l[c + 1] # Space <=> v # << >>
  <2> HIDE DEF f
  <2>1. CASE f = 0
    <3>1. v \in Seq(STRING) /\ Len(v) = IF c + 1 <= Len(l) THEN Len(l) - (c + 1) + 1 ELSE 0
      BY <1>1, <2>1, ViewOf
    <3> HIDE DEF v
    <3>2. v = << >> <=> Len(v) = 0
      BY <3>1, EmptySeq
    <3>3. v = << >> <=> c = Len(l)
      BY <1>1, <1>3, <3>1, <3>2
    <3>4. c < Len(l) => l[c + 1] # Space
      BY <1>1, <1>7, <2>1
    <3> QED BY <1>1, <1>3, <3>3, <3>4
  <2>2. CASE f # 0
    <3>1. f \in (c + 1)..Len(l) /\ l[f] = Space /\ \A k \in (c + 1)..(f - 1) : l[k] # Space
      BY <1>1, <1>7, <2>2
    <3>2. f \in 1..Len(l) /\ c + 1 <= f /\ c < Len(l)
      BY <1>1, <3>1
    <3>3. v = << >> <=> c + 1 = f
      BY <1>1, <3>2, ViewBetween
    <3>4. l[c + 1] = Space <=> c + 1 = f
      BY <1>1, <3>1, <3>2
    <3> QED BY <3>2, <3>3, <3>4
  <2> QED BY <2>1, <2>2
<1> QED BY <1>5, <1>6, <1>8

\* The constructor succeeds iff its searches cut the line as the grammar does;
\* then its fields are the parts between the cuts.
LEMMA ParseByCuts ==
  ASSUME NEW l \in Seq(STRING), NEW t, NEW s, NEW c,
         t = TagEnd(l), s = SourceEnd(l, t), c = CommandEnd(l, s)
  PROVE  /\ t \in 0..Len(l) /\ s \in 0..Len(l) /\ c \in 0..Len(l)
         /\ Parse(l).ok <=> TagCut(l, t) /\ SourceCut(l, t, s) /\ CommandCut(l, s, c)
         /\ Parse(l).ok =>
              /\ Parse(l).tags = IF IsAt(l, 1, "@") THEN View(l, 2, t) ELSE << >>
              /\ Parse(l).source = IF IsAt(l, t + 1, ":") THEN View(l, t + 2, s) ELSE << >>
              /\ Parse(l).command = View(l, s + 1, c)
              /\ Parse(l).params = Params(l, c + 1)
              /\ Parse(l).tag_kv = TagKV(Parse(l).tags)
<1> DEFINE tagged == IsAt(l, 1, "@")
           sourced == IsAt(l, t + 1, ":")
           tags == IF tagged THEN View(l, 2, t) ELSE << >>
           throws == \/ tagged /\ (t = 0 \/ ~TagsWellFormed(tags))
                     \/ sourced /\ s = 0
                     \/ c = 0
                     \/ View(l, s + 1, c) = << >>
                     \/ Params(l, c + 1)[1] = << >>
           message == [ok |-> TRUE, tags |-> tags, tag_kv |-> TagKV(tags),
                       source |-> IF sourced THEN View(l, t + 2, s) ELSE << >>,
                       command |-> View(l, s + 1, c), params |-> Params(l, c + 1)]
<1>1. Parse(l) = IF throws THEN Malformed ELSE message
  BY DEF Parse, TagEnd, SourceEnd, CommandEnd
<1>2. Parse(l).ok <=> ~throws
  <2> HIDE DEF throws, tags, tagged, sourced
  <2> QED BY <1>1 DEF Malformed
<1>3. /\ t \in 0..Len(l) /\ s \in 0..Len(l) /\ c \in 0..Len(l)
      /\ t \in Nat /\ s \in Nat /\ c \in Nat
  <2>1. 0 \in 0..Len(l) /\ 2 \in Nat \ {0} /\ Len(l) \in Nat
    OBVIOUS
  <2>2. t \in 0..Len(l)
    BY <2>1, FindInRange DEF TagEnd
  <2>3. t \in Nat /\ t + 2 \in Nat \ {0}
    BY <2>1, <2>2
  <2>4. s \in 0..Len(l)
    BY <2>2, <2>3, FindInRange DEF SourceEnd
  <2>5. s \in Nat /\ s + 1 \in Nat \ {0}
    BY <2>1, <2>4
  <2>6. c \in 0..Len(l)
    BY <2>5, FindInRange DEF CommandEnd
  <2>7. c \in Nat
    BY <2>1, <2>6
  <2> QED BY <2>2, <2>3, <2>4, <2>5, <2>6, <2>7
<1>4. TagCut(l, t) <=> (tagged => t # 0 /\ TagsWellFormed(View(l, 2, t)))
  BY <1>3, TagCutFound
<1>5. SourceCut(l, t, s) <=> (sourced => s # 0)
  BY <1>3, SourceCutFound
<1>6. CommandCut(l, s, c) <=> c # 0 /\ View(l, s + 1, c) # << >> /\ Params(l, c + 1)[1] # << >>
  BY <1>3, CommandCutFound
<1>7. Parse(l).ok <=> TagCut(l, t) /\ SourceCut(l, t, s) /\ CommandCut(l, s, c)
  <2>1. tagged => tags = View(l, 2, t)
    OBVIOUS
  <2> HIDE DEF tagged, sourced, tags
  <2> QED BY <1>2, <1>4, <1>5, <1>6, <2>1
<1>8. ASSUME Parse(l).ok
      PROVE  /\ Parse(l).tags = tags
             /\ Parse(l).source = IF sourced THEN View(l, t + 2, s) ELSE << >>
             /\ Parse(l).command = View(l, s + 1, c)
             /\ Parse(l).params = Params(l, c + 1)
             /\ Parse(l).tag_kv = TagKV(Parse(l).tags)
  <2>1. Parse(l) = message
    <3> HIDE DEF throws, message
    <3> QED BY <1>1, <1>2, <1>8
  <2> HIDE DEF tags, sourced
  <2> QED BY <2>1
<1> QED BY <1>3, <1>7, <1>8

\* There is only one way to cut a line.
LEMMA CutsFound ==
  ASSUME NEW l \in Seq(STRING), NEW t \in 0..Len(l), NEW s \in 0..Len(l), NEW c \in 0..Len(l),
         TagCut(l, t), SourceCut(l, t, s), CommandCut(l, s, c)
  PROVE  t = TagEnd(l) /\ s = SourceEnd(l, t) /\ c = CommandEnd(l, s)
<1>1. t \in Nat /\ s \in Nat /\ c \in Nat
  OBVIOUS
<1>2. t = TagEnd(l)
  BY <1>1, TagCutFound
<1>3. s = SourceEnd(l, t)
  BY <1>1, SourceCutFound
<1>4. c = CommandEnd(l, s)
  BY <1>1, CommandCutFound
<1> QED BY <1>2, <1>3, <1>4

\* IRCMessage's constructor accepts exactly the lines of the grammar, however long
\* they are and whatever symbols they hold.
THEOREM ParserAcceptsGrammar ==
  ASSUME line \in Seq(STRING)
  PROVE  AcceptsGrammar
<1> DEFINE t0 == TagEnd(line)
           s0 == SourceEnd(line, t0)
           c0 == CommandEnd(line, s0)
<1>1. /\ t0 \in 0..Len(line) /\ s0 \in 0..Len(line) /\ c0 \in 0..Len(line)
      /\ Parse(line).ok <=>
           TagCut(line, t0) /\ SourceCut(line, t0, s0) /\ CommandCut(line, s0, c0)
  BY ParseByCuts
<1>2. ASSUME Parse(line).ok PROVE InGrammar(line)
  <2> HIDE DEF t0, s0, c0
  <2> QED BY <1>1, <1>2 DEF InGrammar
<1>3. ASSUME InGrammar(line) PROVE Parse(line).ok
  <2>1. PICK t \in 0..Len(line) :
          /\ TagCut(line, t)
          /\ \E s \in 0..Len(line) : /\ SourceCut(line, t, s)
                                     /\ \E c \in 0..Len(line) : CommandCut(line, s, c)
    BY <1>3 DEF InGrammar
  <2>2. PICK s \in 0..Len(line) : /\ SourceCut(line, t, s)
                                  /\ \E c \in 0..Len(line) : CommandCut(line, s, c)
    BY <2>1
  <2>3. PICK c \in 0..Len(line) : CommandCut(line, s, c)
    BY <2>2
  <2>4. t = t0 /\ s = s0 /\ c = c0
    BY <2>1, <2>2, <2>3, CutsFound
  <2> QED BY <1>1, <2>1, <2>2, <2>3, <2>4
<1> QED BY <1>2, <1>3 DEF AcceptsGrammar

\* Tags, source, command and parameters are the parts of the line.
LEMMA PartsOfLine ==
  ASSUME NEW l \in Seq(STRING), Parse(l).ok,
         NEW t \in 0..Len(l), TagCut(l, t),
         NEW s \in 0..Len(l), SourceCut(l, t, s),
         NEW c \in 0..Len(l), CommandCut(l, s, c)
  PROVE  /\ Parse(l).tags = SubSeq(l, 2, t - 1)
         /\ Parse(l).source = SubSeq(l, t + 2, s - 1)
         /\ Parse(l).command = SubSeq(l, s + 1, c - 1)
         /\ AreWords(Parse(l).params, l, c)
<1>1. t = TagEnd(l) /\ s = SourceEnd(l, t) /\ c = CommandEnd(l, s)
  BY CutsFound
<1>2. /\ Parse(l).tags = IF IsAt(l, 1, "@") THEN View(l, 2, t) ELSE << >>
      /\ Parse(l).source = IF IsAt(l, t + 1, ":") THEN View(l, t + 2, s) ELSE << >>
      /\ Parse(l).command = View(l, s + 1, c)
      /\ Parse(l).params = Params(l, c + 1)
  BY <1>1, ParseByCuts
<1>3. t \in Nat /\ s \in Nat /\ c \in Nat /\ Len(l) \in Nat
  OBVIOUS
<1>4. Parse(l).tags = SubSeq(l, 2, t - 1)
  <2>1. CASE IsAt(l, 1, "@")
    <3>1. t # 0
      BY <1>3, <2>1, TagCutFound
    <3> QED BY <1>2, <2>1, <3>1 DEF View
  <2>2. CASE ~IsAt(l, 1, "@")
    <3>1. t = 0
      BY <1>1, <2>2 DEF TagEnd
    <3>2. SubSeq(l, 2, t - 1) = << >>
      BY <3>1, SubSeqEmpty
    <3> QED BY <1>2, <2>2, <3>2
  <2> QED BY <2>1, <2>2
<1>5. Parse(l).source = SubSeq(l, t + 2, s - 1)
  <2>1. CASE IsAt(l, t + 1, ":")
    <3>1. s # 0
      BY <1>3, <2>1, SourceCutFound
    <3> QED BY <1>2, <2>1, <3>1 DEF View
  <2>2. CASE ~IsAt(l, t + 1, ":")
    <3>1. s = t
      BY <1>1, <2>2 DEF SourceEnd
    <3>2. SubSeq(l, t + 2, s - 1) = << >>
      BY <1>3, <3>1, SubSeqEmpty
    <3> QED BY <1>2, <2>2, <3>2
  <2> QED BY <2>1, <2>2
<1>6. Parse(l).command = SubSeq(l, s + 1, c - 1)
  <2>1. c # 0
    BY <1>3, CommandCutFound
  <2> QED BY <1>2, <2>1 DEF View
<1>7. AreWords(Parse(l).params, l, c)
  <2>1. c < Len(l) /\ l[c + 1] # Space
    BY DEF CommandCut
  <2> QED BY <1>2, <2>1, ParamsAreWords
<1> QED BY <1>4, <1>5, <1>6, <1>7

\* What NothingLost says of the line itself.
LEMMA LinePartsKept ==
  ASSUME line \in Seq(STRING)
  PROVE  PartsMakeLine
BY PartsOfLine DEF PartsMakeLine

-----------------------------------------------------------------------------
(* The tags                                                                 *)

\* Key and value end with different characters.
LEMMA EqualsNoSemicolon == "=" # Semicolon
BY DEF Semicolon

\* Where the value of the key at i ends.
ValueOf(tags, i) == ValueEnd(tags, Find(tags, "=", i))

\* The pair the loop over the tags adds for the key at i.
TagPair(tags, i) ==
  <<View(tags, i, Find(tags, "=", i)), View(tags, Find(tags, "=", i) + 1, ValueOf(tags, i))>>

\* Where the next key with a value begins; 0 if there is none.
NextKey(tags, i) ==
  IF ValueOf(tags, i) = 0 \/ Find(tags, "=", ValueOf(tags, i) + 1) = 0 THEN 0
  ELSE ValueOf(tags, i) + 1

\* The '=' is the first behind the beginning of the key and the ';' the first
\* behind the '='.
LEMMA PairFound ==
  ASSUME NEW tags \in Seq(STRING), NEW i \in Nat \ {0},
         NEW e, e = Find(tags, "=", i), e # 0, NEW d, d = ValueOf(tags, i)
  PROVE  /\ e \in i..Len(tags) /\ tags[e] = "=" /\ Free(tags, "=", i, e - 1)
         /\ \/ d = 0 /\ Free(tags, Semicolon, e + 1, Len(tags))
            \/ d \in (e + 1)..Len(tags) /\ tags[d] = Semicolon /\ Free(tags, Semicolon, e + 1, d - 1)
<1>1. e \in i..Len(tags) /\ tags[e] = "=" /\ Free(tags, "=", i, e - 1) /\ e + 1 \in Nat \ {0}
  BY FindsFirst DEF Free
<1>2. d = Find(tags, Semicolon, e + 1)
  BY DEF ValueOf, ValueEnd
<1>3. \/ d = 0 /\ Free(tags, Semicolon, e + 1, Len(tags))
      \/ d \in (e + 1)..Len(tags) /\ tags[d] = Semicolon /\ Free(tags, Semicolon, e + 1, d - 1)
  BY <1>1, <1>2, FindsFirst DEF Free
<1> QED BY <1>1, <1>3

\* The loop over the tags, by one round of it.
LEMMA TagKVFunction ==
  ASSUME NEW tags \in Seq(STRING)
  PROVE  \E g : /\ TagKV(tags) = g[1]
                /\ \A i \in 1..(Len(tags) + 1) :
                     g[i] = IF Find(tags, "=", i) = 0 THEN << >>
                            ELSE <<TagPair(tags, i)>>
                                 \o (IF ValueOf(tags, i) = 0 THEN << >>
                                     ELSE g[ValueOf(tags, i) + 1])
<1> DEFINE M == Len(tags) + 1
           D == 1..M
           Body(g, i) == IF Find(tags, "=", i) = 0 THEN << >>
                         ELSE <<TagPair(tags, i)>>
                              \o (IF ValueOf(tags, i) = 0 THEN << >>
                                  ELSE g[ValueOf(tags, i) + 1])
           h == [i \in D |-> IF Find(tags, "=", i) = 0 THEN << >> ELSE <<TagPair(tags, i)>>]
           nx == [i \in D |-> IF Find(tags, "=", i) = 0 \/ ValueOf(tags, i) = 0 THEN 0
                              ELSE ValueOf(tags, i) + 1]
           Is(g) == g = [i \in D |-> Body(g, i)]
           c == CHOOSE g : Is(g)
<1>1. M \in Nat /\ 1 \in Nat /\ Len(tags) \in Nat /\ \A i \in D : i \in Nat \ {0}
  OBVIOUS
<1>2. ASSUME NEW i \in D PROVE nx[i] = 0 \/ nx[i] \in (i + 1)..M
  <2> DEFINE e == Find(tags, "=", i)
             d == ValueOf(tags, i)
  <2> SUFFICES ASSUME e # 0, d # 0 PROVE d + 1 \in (i + 1)..M
    OBVIOUS
  <2>1. e \in i..Len(tags) /\ d \in (e + 1)..Len(tags)
    BY <1>1, PairFound
  <2> HIDE DEF e, d
  <2> QED BY <1>1, <2>1
<1>3. \E g : Unrolls(g, 1, M, h, nx)
  <2> HIDE DEF h, nx, M
  <2> QED BY <1>1, <1>2, RecursionExists
<1>4. ASSUME NEW g, NEW i \in D
      PROVE  h[i] \o (IF nx[i] = 0 THEN << >> ELSE g[nx[i]]) = Body(g, i)
  <2>1. CASE Find(tags, "=", i) = 0
    <3>1. << >> \o << >> = << >>
      BY EmptySeq, ConcatEmptySeq
    <3>2. h[i] = << >> /\ nx[i] = 0
      BY <2>1
    <3> QED BY <2>1, <3>1, <3>2
  <2>2. CASE Find(tags, "=", i) # 0
    <3> DEFINE d == ValueOf(tags, i)
    <3>1. d = 0 \/ d + 1 # 0
      <4>1. d = 0 \/ d \in (Find(tags, "=", i) + 1)..Len(tags)
        BY <1>1, <2>2, PairFound
      <4>2. Find(tags, "=", i) \in i..Len(tags)
        BY <1>1, <2>2, PairFound
      <4> DEFINE e == Find(tags, "=", i)
      <4> HIDE DEF d, e
      <4> QED BY <1>1, <4>1, <4>2 DEF e
    <3> HIDE DEF d
    <3>2. h[i] = <<TagPair(tags, i)>> /\ nx[i] = IF d = 0 THEN 0 ELSE d + 1
      BY <2>2 DEF d
    <3> QED BY <2>2, <3>1, <3>2 DEF d
  <2> QED BY <2>1, <2>2
<1>5. \E g : Is(g)
  <2>1. PICK g : Unrolls(g, 1, M, h, nx)
    BY <1>3
  <2>2. g = [i \in D |-> h[i] \o (IF nx[i] = 0 THEN << >> ELSE g[nx[i]])]
    BY <2>1 DEF Unrolls
  <2> HIDE DEF h, nx, Body, D
  <2>3. Is(g)
    BY <1>4, <2>2
  <2> QED BY <2>3
<1>6. TagKV(tags) = c[1]
  BY DEF TagKV, TagPair, ValueOf
<1>7. Is(c)
  <2> HIDE DEF Is
  <2> QED BY <1>5
<1> HIDE DEF c
<1>8. \A i \in D : c[i] = Body(c, i)
  <2> HIDE DEF Body
  <2> QED BY <1>7
<1> QED BY <1>6, <1>8

\* Between the beginnings of two keys there is the '=' of the first, and then a ';'.
LEMMA KeysApart ==
  ASSUME NEW tags \in Seq(STRING), NEW i \in KeyStarts(tags), NEW j \in KeyStarts(tags), j > i
  PROVE  j - 1 > Find(tags, "=", i) /\ tags[j - 1] = Semicolon
<1> DEFINE e == Find(tags, "=", i)
<1>1. /\ Len(tags) \in Nat /\ i \in Nat \ {0} /\ j \in Nat \ {0} /\ j <= Len(tags)
      /\ i = 1 \/ tags[i - 1] = Semicolon
      /\ ~Free(tags, "=", i, Len(tags))
  BY DEF KeyStarts, KeyBegins
<1>2. tags[j - 1] = Semicolon
  BY <1>1 DEF KeyStarts, KeyBegins
<1>3. PICK p \in 1..(j - 2) : tags[p] = "=" /\ Free(tags, Semicolon, p + 1, j - 2)
  BY <1>1 DEF KeyStarts, KeyBegins
<1>4. \/ e = 0 /\ \A k \in i..Len(tags) : tags[k] # "="
      \/ e \in i..Len(tags) /\ tags[e] = "=" /\ \A k \in i..(e - 1) : tags[k] # "="
  BY <1>1, FindsFirst
<1> HIDE DEF e
<1>5. e \in i..Len(tags) /\ tags[e] = "=" /\ \A k \in i..(e - 1) : tags[k] # "="
  BY <1>1, <1>4 DEF Free
<1>6. ASSUME j - 1 <= e PROVE FALSE
  <2>1. j - 1 # e
    BY <1>2, <1>5, EqualsNoSemicolon
  <2>2. p < i
    <3> SUFFICES ASSUME p >= i PROVE FALSE
      BY <1>1, <1>3
    <3>1. p \in i..(e - 1)
      BY <1>1, <1>3, <1>5, <1>6
    <3> QED BY <1>3, <1>5, <3>1
  <2>3. tags[i - 1] = Semicolon
    BY <1>1, <1>3, <2>2
  <2>4. i - 1 # p
    BY <1>3, <2>3, EqualsNoSemicolon
  <2>5. i - 1 \in (p + 1)..(j - 2)
    BY <1>1, <1>3, <2>2, <2>4
  <2> QED BY <1>3, <2>3, <2>5 DEF Free
<1>7. j - 1 > e
  BY <1>1, <1>5, <1>6
<1> QED BY <1>2, <1>7 DEF e

\* The loop over the tags goes from each key to the next.
LEMMA NextKeyStart ==
  ASSUME NEW tags \in Seq(STRING), NEW i \in KeyStarts(tags)
  PROVE  /\ NextKey(tags, i) = 0 \/ (NextKey(tags, i) \in KeyStarts(tags) /\ NextKey(tags, i) > i)
         /\ NextKey(tags, i) = 0 => \A j \in KeyStarts(tags) : j <= i
         /\ NextKey(tags, i) # 0 => \A j \in KeyStarts(tags) : j <= i \/ j >= NextKey(tags, i)
<1> DEFINE e == Find(tags, "=", i)
           d == ValueOf(tags, i)
           f == Find(tags, "=", d + 1)
           n == NextKey(tags, i)
           K == KeyStarts(tags)
<1>1. Len(tags) \in Nat /\ i \in Nat \ {0} /\ i <= Len(tags) /\ ~Free(tags, "=", i, Len(tags))
  BY DEF KeyStarts
<1>2. e # 0
  BY <1>1, FindsFirst DEF Free
<1>3. /\ e \in i..Len(tags) /\ tags[e] = "=" /\ Free(tags, "=", i, e - 1)
      /\ \/ d = 0 /\ Free(tags, Semicolon, e + 1, Len(tags))
         \/ d \in (e + 1)..Len(tags) /\ tags[d] = Semicolon /\ Free(tags, Semicolon, e + 1, d - 1)
  BY <1>1, <1>2, PairFound
<1>4. n = IF d = 0 \/ f = 0 THEN 0 ELSE d + 1
  BY DEF NextKey
<1>5. d # 0 => \/ f = 0 /\ Free(tags, "=", d + 1, Len(tags))
               \/ f \in (d + 1)..Len(tags) /\ tags[f] = "="
  <2> SUFFICES ASSUME d # 0 PROVE \/ f = 0 /\ Free(tags, "=", d + 1, Len(tags))
                                  \/ f \in (d + 1)..Len(tags) /\ tags[f] = "="
    OBVIOUS
  <2>1. d + 1 \in Nat \ {0}
    <3> HIDE DEF d, e
    <3> QED BY <1>1, <1>3
  <2> HIDE DEF d
  <2> QED BY <2>1, FindsFirst DEF Free
<1> HIDE DEF n, f, d, e
<1>6. ASSUME NEW j \in K, j > i PROVE d # 0 /\ f # 0 /\ j >= d + 1
  <2>1. j - 1 > e /\ tags[j - 1] = Semicolon
    BY <1>6, KeysApart DEF e
  <2>2. j \in 1..Len(tags) /\ ~Free(tags, "=", j, Len(tags))
    BY DEF KeyStarts
  <2>3. j - 1 \in (e + 1)..Len(tags)
    BY <1>1, <1>3, <2>1, <2>2
  <2>4. d # 0 /\ d \in (e + 1)..Len(tags) /\ Free(tags, Semicolon, e + 1, d - 1)
    BY <1>1, <1>3, <2>1, <2>3 DEF Free
  <2>5. ~(j - 1 \in (e + 1)..(d - 1))
    BY <2>1, <2>4 DEF Free
  <2>6. j >= d + 1
    BY <1>1, <1>3, <2>2, <2>3, <2>4, <2>5
  <2>7. PICK k \in j..Len(tags) : tags[k] = "="
    BY <2>2 DEF Free
  <2>8. k \in (d + 1)..Len(tags)
    BY <1>1, <1>3, <2>2, <2>4, <2>6
  <2>9. f # 0
    BY <1>1, <1>3, <1>5, <2>4, <2>7, <2>8 DEF Free
  <2> QED BY <2>4, <2>6, <2>9
<1>7. ASSUME d # 0, f # 0 PROVE n = d + 1 /\ n \in K /\ n > i
  <2>1. n = d + 1
    BY <1>4, <1>7
  <2>2. /\ d \in (e + 1)..Len(tags) /\ tags[d] = Semicolon /\ Free(tags, Semicolon, e + 1, d - 1)
        /\ f \in (d + 1)..Len(tags) /\ tags[f] = "="
    BY <1>1, <1>3, <1>5, <1>7
  <2>3. /\ n \in 1..Len(tags) /\ n > i /\ n - 1 = d /\ n - 2 = d - 1
        /\ e \in 1..(n - 2) /\ f \in n..Len(tags)
    BY <1>1, <1>3, <2>1, <2>2
  <2>4. KeyBegins(tags, n)
    BY <1>3, <2>2, <2>3 DEF KeyBegins
  <2>5. ~Free(tags, "=", n, Len(tags))
    BY <2>2, <2>3 DEF Free
  <2> QED BY <2>1, <2>3, <2>4, <2>5 DEF KeyStarts
<1>8. \A j \in K : j \in Nat
  BY <1>1 DEF KeyStarts
<1>9. CASE d = 0 \/ f = 0
  <2>1. n = 0
    BY <1>4, <1>9
  <2>2. \A j \in K : j <= i
    BY <1>1, <1>6, <1>8, <1>9
  <2> QED BY <2>1, <2>2 DEF n
<1>10. CASE d # 0 /\ f # 0
  <2>1. n = d + 1 /\ n \in K /\ n > i
    BY <1>7, <1>10
  <2>2. \A j \in K : j <= i \/ j >= n
    BY <1>1, <1>6, <1>8, <2>1
  <2>3. n # 0
    BY <1>1, <2>1
  <2> QED BY <2>1, <2>2, <2>3 DEF n
<1> QED BY <1>9, <1>10

\* A key has a '='.
LEMMA KeyFound ==
  ASSUME NEW tags \in Seq(STRING), NEW i \in KeyStarts(tags)
  PROVE  /\ i \in Nat \ {0} /\ i <= Len(tags) /\ Find(tags, "=", i) # 0
<1>1. i \in Nat \ {0} /\ i <= Len(tags) /\ ~Free(tags, "=", i, Len(tags))
  BY DEF KeyStarts
<1>2. Find(tags, "=", i) # 0
  BY <1>1, FindsFirst DEF Free
<1> QED BY <1>1, <1>2

\* A pair is a whole key and its whole value.
LEMMA PairWhole ==
  ASSUME NEW tags \in Seq(STRING), NEW i \in KeyStarts(tags)
  PROVE  \E e \in i..Len(tags), j \in i..Len(tags) :
            /\ TagPair(tags, i) = <<SubSeq(tags, i, e - 1), SubSeq(tags, e + 1, j)>>
            /\ tags[e] = "=" /\ Free(tags, "=", i, e - 1)
            /\ e <= j /\ Free(tags, Semicolon, e + 1, j)
            /\ j = Len(tags) \/ tags[j + 1] = Semicolon
<1> DEFINE e == Find(tags, "=", i)
           d == ValueOf(tags, i)
           j == IF d = 0 THEN Len(tags) ELSE d - 1
<1>1. Len(tags) \in Nat /\ i \in Nat \ {0} /\ i <= Len(tags) /\ e # 0
  BY KeyFound
<1>2. /\ e \in i..Len(tags) /\ tags[e] = "=" /\ Free(tags, "=", i, e - 1)
      /\ \/ d = 0 /\ Free(tags, Semicolon, e + 1, Len(tags))
         \/ d \in (e + 1)..Len(tags) /\ tags[d] = Semicolon /\ Free(tags, Semicolon, e + 1, d - 1)
  BY <1>1, PairFound
<1>3. TagPair(tags, i) = <<SubSeq(tags, i, e - 1), SubSeq(tags, e + 1, j)>>
  BY <1>1 DEF TagPair, View
<1> HIDE DEF e, d
<1>4. /\ j \in i..Len(tags) /\ e <= j /\ Free(tags, Semicolon, e + 1, j)
      /\ j = Len(tags) \/ tags[j + 1] = Semicolon
  BY <1>1, <1>2
<1> HIDE DEF j
<1> QED BY <1>2, <1>3, <1>4

\* tag_kv holds all the tags that have a value.
LEMMA TagKVKept ==
  ASSUME NEW tags \in Seq(STRING)
  PROVE  PairsKept(tags, TagKV(tags))
<1> DEFINE K == KeyStarts(tags)
           v == [i \in K |-> TagPair(tags, i)]
           nx == [i \in K |-> NextKey(tags, i)]
           M == Len(tags)
<1>1. PICK g : /\ TagKV(tags) = g[1]
               /\ \A i \in 1..(Len(tags) + 1) :
                     g[i] = IF Find(tags, "=", i) = 0 THEN << >>
                            ELSE <<TagPair(tags, i)>>
                                 \o (IF ValueOf(tags, i) = 0 THEN << >>
                                     ELSE g[ValueOf(tags, i) + 1])
  BY TagKVFunction
<1>2. M \in Nat /\ K \in SUBSET (1..M) /\ \A i \in K : i \in 1..(M + 1) /\ 1 <= i
  BY DEF KeyStarts
<1>3. CASE K = {}
  <2>1. Find(tags, "=", 1) = 0
    <3> SUFFICES ASSUME Find(tags, "=", 1) # 0 PROVE FALSE
      OBVIOUS
    <3>1. Find(tags, "=", 1) \in 1..Len(tags) /\ tags[Find(tags, "=", 1)] = "="
      BY FindsFirst
    <3> DEFINE f == Find(tags, "=", 1)
    <3> HIDE DEF f
    <3>2. 1 \in 1..Len(tags) /\ ~Free(tags, "=", 1, Len(tags))
      BY <1>2, <3>1 DEF Free, f
    <3>3. 1 \in K
      BY <3>2 DEF KeyStarts, KeyBegins
    <3> QED BY <1>3, <3>3
  <2>2. 1 \in 1..(Len(tags) + 1)
    BY <1>2
  <2>3. TagKV(tags) = << >>
    BY <1>1, <2>1, <2>2
  <2>4. Cardinality({}) = 0 /\ Len(<< >>) = 0
    BY FS_EmptySet, EmptySeq
  <2> HIDE DEF K
  <2>5. Len(TagKV(tags)) = Cardinality(K)
    BY <1>3, <2>3, <2>4
  <2> QED BY <1>3, <2>5 DEF PairsKept, K
<1>4. CASE K # {}
  <2>1. 1 \in K
    <3>1. PICK i \in K : TRUE
      BY <1>4
    <3>2. i \in 1..Len(tags) /\ ~Free(tags, "=", i, Len(tags))
      BY DEF KeyStarts
    <3>3. 1 \in 1..Len(tags) /\ ~Free(tags, "=", 1, Len(tags))
      BY <1>2, <3>2 DEF Free
    <3> QED BY <3>3 DEF KeyStarts, KeyBegins
  <2>2. \A i \in K : v[i] = TagPair(tags, i) /\ nx[i] = NextKey(tags, i)
    OBVIOUS
  <2> HIDE DEF v, nx
  <2>3. IsChain(K, nx)
    BY <2>2, NextKeyStart DEF IsChain
  <2>4. Follows(g, K, v, nx)
    <3> SUFFICES ASSUME NEW i \in K
                 PROVE  g[i] = <<TagPair(tags, i)>>
                               \o (IF NextKey(tags, i) = 0 THEN << >> ELSE g[NextKey(tags, i)])
      BY <2>2 DEF Follows
    <3> DEFINE d == ValueOf(tags, i)
               e == Find(tags, "=", i)
    <3>1. i \in Nat \ {0} /\ i \in 1..(Len(tags) + 1) /\ e # 0
      BY <1>2, KeyFound
    <3>2. g[i] = <<TagPair(tags, i)>> \o (IF d = 0 THEN << >> ELSE g[d + 1])
      BY <1>1, <3>1
    <3>3. CASE d = 0 \/ Find(tags, "=", d + 1) # 0
      <4>1. NextKey(tags, i) = IF d = 0 THEN 0 ELSE d + 1
        BY <3>3 DEF NextKey
      <4>2. d # 0 => d + 1 # 0
        <5>1. d = 0 \/ d \in (e + 1)..Len(tags)
          BY <3>1, PairFound
        <5>2. e \in i..Len(tags)
          BY <3>1, PairFound
        <5> HIDE DEF d, e
        <5> QED BY <1>2, <3>1, <5>1, <5>2
      <4> HIDE DEF d
      <4> QED BY <3>2, <4>1, <4>2
    <3>4. CASE d # 0 /\ Find(tags, "=", d + 1) = 0
      <4>1. NextKey(tags, i) = 0
        BY <3>4 DEF NextKey
      <4>2. d + 1 \in 1..(Len(tags) + 1)
        <5>1. d \in (e + 1)..Len(tags) /\ e \in i..Len(tags)
          BY <3>1, <3>4, PairFound
        <5> HIDE DEF d, e
        <5> QED BY <1>2, <3>1, <5>1
      <4> HIDE DEF d
      <4>3. g[d + 1] = << >>
        BY <1>1, <3>4, <4>2
      <4> QED BY <3>2, <3>4, <4>1, <4>3
    <3> QED BY <3>3, <3>4
  <2> HIDE DEF K, M
  <2>5. \A i \in K : ListsFrom(g[i], K, v, i)
    BY <1>2, <2>3, <2>4, ChainElements
  <2>6. ListsFrom(TagKV(tags), K, v, 1)
    BY <1>1, <2>1, <2>5
  <2>7. {j \in K : j >= 1} = K
    BY <1>2
  <2>8. Len(TagKV(tags)) = Cardinality(K)
    BY <2>6, <2>7 DEF ListsFrom
  <2>9. ASSUME NEW i \in K PROVE TagKV(tags)[Rank(K, i)] = TagPair(tags, i)
    <3>1. {k \in K : 1 <= k /\ k <= i} = {k \in K : k <= i}
      BY <1>2
    <3>2. TagKV(tags)[Cardinality({k \in K : 1 <= k /\ k <= i})] = v[i]
      BY <1>2, <2>6 DEF ListsFrom
    <3> QED BY <2>2, <3>1, <3>2 DEF Rank
  <2>10. ASSUME NEW i \in K
         PROVE  \E e \in i..Len(tags), j \in i..Len(tags) :
                  /\ TagKV(tags)[Rank(K, i)] = <<SubSeq(tags, i, e - 1), SubSeq(tags, e + 1, j)>>
                  /\ tags[e] = "=" /\ Free(tags, "=", i, e - 1)
                  /\ e <= j /\ Free(tags, Semicolon, e + 1, j)
                  /\ j = Len(tags) \/ tags[j + 1] = Semicolon
    <3>1. i \in KeyStarts(tags)
      BY DEF K
    <3>2. TagKV(tags)[Rank(K, i)] = TagPair(tags, i)
      BY <2>9
    <3> QED BY <3>1, <3>2, PairWhole
  <2> QED BY <2>8, <2>10 DEF PairsKept, K
<1> QED BY <1>3, <1>4

\* The tags are a view of the line, and tag_kv is made from them.
LEMMA TagsOfLine ==
  ASSUME NEW l \in Seq(STRING), Parse(l).ok
  PROVE  Parse(l).tags \in Seq(STRING) /\ Parse(l).tag_kv = TagKV(Parse(l).tags)
<1> DEFINE t == TagEnd(l)
           s == SourceEnd(l, t)
           c == CommandEnd(l, s)
<1>1. /\ Parse(l).tags = IF IsAt(l, 1, "@") THEN View(l, 2, t) ELSE << >>
      /\ Parse(l).tag_kv = TagKV(Parse(l).tags)
  BY ParseByCuts
<1>2. IsAt(l, 1, "@") => t = Find(l, Space, 2)
  BY DEF TagEnd
<1>3. View(l, 2, Find(l, Space, 2)) \in Seq(STRING)
  BY ViewFound
<1>4. << >> \in Seq(STRING)
  BY EmptySeq
<1> HIDE DEF t
<1> QED BY <1>1, <1>2, <1>3, <1>4

\* Of no line that the constructor accepts does a part, a parameter or a tag get
\* lost, torn, merged or moved, however many there are.
THEOREM ParserLosesNothing ==
  ASSUME line \in Seq(STRING)
  PROVE  NothingLost
<1>1. PartsMakeLine
  BY LinePartsKept
<1>2. TagsKept
  <2> SUFFICES ASSUME Parse(line).ok PROVE PairsKept(Parse(line).tags, Parse(line).tag_kv)
    BY DEF TagsKept
  <2>1. Parse(line).tags \in Seq(STRING) /\ Parse(line).tag_kv = TagKV(Parse(line).tags)
    BY TagsOfLine
  <2> QED BY <2>1, TagKVKept
<1> QED BY <1>1, <1>2 DEF NothingLost

-----------------------------------------------------------------------------
(* Sources made and taken apart again                                       *)

\* A search ends at the first position that holds what is searched for.
LEMMA FindIs ==
  ASSUME NEW s \in Seq(STRING), NEW c, NEW i \in Nat \ {0}, NEW p \in i..Len(s),
         s[p] = c, Free(s, c, i, p - 1)
  PROVE  Find(s, c, i) = p
<1> DEFINE f == Find(s, c, i)
<1>1. \/ f = 0 /\ \A j \in i..Len(s) : s[j] # c
      \/ f \in i..Len(s) /\ s[f] = c /\ \A j \in i..(f - 1) : s[j] # c
  BY FindsFirst
<1>2. Len(s) \in Nat /\ \A j \in i..(p - 1) : s[j] # c
  BY DEF Free
<1> HIDE DEF f
<1>3. f \in i..Len(s) /\ s[f] = c /\ ~(f \in i..(p - 1)) /\ ~(p \in i..(f - 1))
  BY <1>1, <1>2
<1>4. f = p
  BY <1>2, <1>3
<1> QED BY <1>4 DEF f

\* The symbols of a sequence made up of two parts and a symbol between them.
LEMMA JoinedSymbols ==
  ASSUME NEW S, NEW a \in Seq(S), NEW b \in Seq(S), NEW c \in S, NEW s, s = (a \o <<c>>) \o b
  PROVE  /\ s \in Seq(S) /\ Len(s) = Len(a) + 1 + Len(b) /\ s[Len(a) + 1] = c
         /\ \A k \in 1..Len(a) : s[k] = a[k]
         /\ \A k \in 1..Len(b) : s[Len(a) + 1 + k] = b[k]
<1> DEFINE ac == Append(a, c)
<1>1. s = ac \o b
  BY AppendIsConcat
<1>2. /\ ac \in Seq(S) /\ Len(ac) = Len(a) + 1
      /\ \A i \in 1..Len(a) : ac[i] = a[i]
      /\ ac[Len(a) + 1] = c
  BY AppendProperties
<1> HIDE DEF ac
<1>3. /\ s \in Seq(S) /\ Len(s) = Len(ac) + Len(b)
      /\ \A i \in 1..(Len(ac) + Len(b)) : s[i] = IF i <= Len(ac) THEN ac[i] ELSE b[i - Len(ac)]
  BY <1>1, <1>2, ConcatProperties
<1>4. Len(a) \in Nat /\ Len(b) \in Nat
  OBVIOUS
<1>5. Len(s) = Len(a) + 1 + Len(b)
  BY <1>2, <1>3, <1>4
<1>6. s[Len(a) + 1] = c
  BY <1>2, <1>3, <1>4
<1>7. ASSUME NEW k \in 1..Len(a) PROVE s[k] = a[k]
  <2>1. k \in 1..(Len(ac) + Len(b)) /\ k <= Len(ac)
    BY <1>2, <1>4
  <2> QED BY <1>2, <1>3, <2>1
<1>8. ASSUME NEW k \in 1..Len(b) PROVE s[Len(a) + 1 + k] = b[k]
  <2> DEFINE i == Len(a) + 1 + k
  <2>1. i \in 1..(Len(ac) + Len(b)) /\ ~(i <= Len(ac)) /\ i - Len(ac) = k
    BY <1>2, <1>4
  <2> HIDE DEF i
  <2> QED BY <1>3, <2>1 DEF i
<1> QED BY <1>3, <1>5, <1>6, <1>7, <1>8

\* A view is the sequence whose symbols it shows.
LEMMA ViewIs ==
  ASSUME NEW s \in Seq(STRING), NEW i \in Nat \ {0}, NEW j \in Nat, j <= Len(s) + 1,
         NEW e \in Nat, e = IF j = 0 THEN Len(s) ELSE j - 1,
         NEW T, NEW a \in Seq(T), Len(a) = e - i + 1, \A k \in 1..Len(a) : s[i + k - 1] = a[k]
  PROVE  View(s, i, j) = a
<1> DEFINE v == View(s, i, j)
<1>1. /\ v \in Seq(STRING) /\ Len(v) = IF i <= e THEN e - i + 1 ELSE 0
      /\ \A k \in 1..Len(v) : v[k] = s[i + k - 1]
  <2>1. s \in Seq(STRING) /\ i \in Nat \ {0} /\ j \in Nat /\ j <= Len(s) + 1
        /\ e \in Nat /\ e = IF j = 0 THEN Len(s) ELSE j - 1
    OBVIOUS
  <2> QED BY ONLY <2>1, ViewOf
<1>2. Len(a) \in Nat
  OBVIOUS
<1> HIDE DEF v
<1>3. Len(v) = Len(a)
  BY <1>1, <1>2
<1>4. \A k \in 1..Len(v) : v[k] = a[k]
  BY <1>1, <1>3
<1>5. v = a
  <2> DEFINE U == STRING \cup T
  <2>1. v \in Seq(U) /\ a \in Seq(U)
    BY <1>1
  <2> HIDE DEF U
  <2> QED BY <1>3, <1>4, <2>1, SeqEqual
<1> QED BY <1>5 DEF v

\* source is taken for that of a user with these names.
ParsedAs(source, nick, user, host) ==
  /\ IsUserMessage(source)
  /\ ParseSourceUser(source) = [nickname |-> nick, username |-> user, hostname |-> host]

\* A nickname without '!' and a username without '@' are found again.
LEMMA SymbolsParsedBack ==
  ASSUME NEW T, NEW nick \in Seq(T), NEW user \in Seq(T), NEW host \in Seq(T),
         Free(nick, "!", 1, Len(nick)), Free(user, "@", 1, Len(user)),
         NEW source \in Seq(STRING), NEW bang, NEW at,
         bang = Len(nick) + 1, at = bang + Len(user) + 1, Len(source) = at + Len(host),
         source[bang] = "!", source[at] = "@",
         \A k \in 1..Len(nick) : source[k] = nick[k],
         \A k \in 1..Len(user) : source[bang + k] = user[k],
         \A k \in 1..Len(host) : source[at + k] = host[k]
  PROVE  ParsedAs(source, nick, user, host)
<1>1. /\ Len(nick) \in Nat /\ Len(user) \in Nat /\ Len(host) \in Nat
      /\ bang \in Nat \ {0} /\ at \in Nat \ {0} /\ Len(source) \in Nat
      /\ bang \in 1..Len(source) /\ at \in bang..Len(source)
  OBVIOUS
<1>2. "!" # "@"
  OBVIOUS
<1>3. Find(source, "!", 1) = bang
  <2>1. Free(source, "!", 1, bang - 1)
    <3>1. bang - 1 = Len(nick)
      BY <1>1
    <3> QED BY <3>1 DEF Free
  <2>2. source \in Seq(STRING) /\ 1 \in Nat \ {0} /\ bang \in 1..Len(source) /\ source[bang] = "!"
    BY <1>1
  <2> QED BY ONLY <2>1, <2>2, FindIs
<1>4. Find(source, "@", bang) = at
  <2>1. ASSUME NEW k \in bang..(at - 1) PROVE source[k] # "@"
    <3>1. CASE k = bang
      BY <1>2, <3>1
    <3>2. CASE k # bang
      <4>1. k - bang \in 1..Len(user) /\ bang + (k - bang) = k
        BY <1>1, <3>2
      <4>2. user[k - bang] # "@"
        BY <4>1 DEF Free
      <4> QED BY <4>1, <4>2
    <3> QED BY <3>1, <3>2
  <2>2. Free(source, "@", bang, at - 1)
    BY <2>1 DEF Free
  <2>3. /\ source \in Seq(STRING) /\ bang \in Nat \ {0} /\ at \in bang..Len(source)
        /\ source[at] = "@"
    BY <1>1
  <2> QED BY ONLY <2>2, <2>3, FindIs
<1>5. View(source, 1, bang) = nick
  <2>1. /\ bang <= Len(source) + 1 /\ bang - 1 \in Nat /\ bang \in Nat
        /\ bang - 1 = IF bang = 0 THEN Len(source) ELSE bang - 1
        /\ Len(nick) = (bang - 1) - 1 + 1
    BY <1>1
  <2>2. \A k \in 1..Len(nick) : source[1 + k - 1] = nick[k]
    OBVIOUS
  <2>3. source \in Seq(STRING) /\ 1 \in Nat \ {0} /\ nick \in Seq(T)
    OBVIOUS
  <2> QED BY ONLY <2>1, <2>2, <2>3, ViewIs
<1>6. View(source, bang + 1, at) = user
  <2>1. /\ at <= Len(source) + 1 /\ at - 1 \in Nat /\ bang + 1 \in Nat \ {0} /\ at \in Nat
        /\ at - 1 = IF at = 0 THEN Len(source) ELSE at - 1
        /\ Len(user) = (at - 1) - (bang + 1) + 1
    BY <1>1
  <2>2. \A k \in 1..Len(user) : source[(bang + 1) + k - 1] = user[k]
    BY <1>1
  <2>3. source \in Seq(STRING) /\ user \in Seq(T)
    OBVIOUS
  <2> QED BY ONLY <2>1, <2>2, <2>3, ViewIs
<1>7. View(source, at + 1, 0) = host
  <2>1. /\ 0 <= Len(source) + 1 /\ at + 1 \in Nat \ {0} /\ 0 \in Nat
        /\ Len(source) = IF 0 = 0 THEN Len(source) ELSE 0 - 1
        /\ Len(host) = Len(source) - (at + 1) + 1
    BY <1>1
  <2>2. \A k \in 1..Len(host) : source[(at + 1) + k - 1] = host[k]
    BY <1>1
  <2>3. source \in Seq(STRING) /\ host \in Seq(T) /\ Len(source) \in Nat
    BY <1>1
  <2> QED BY ONLY <2>1, <2>2, <2>3, ViewIs
<1> QED BY <1>1, <1>3, <1>4, <1>5, <1>6, <1>7
        DEF ParsedAs, IsUserMessage, ParseSourceUser, UsernameEnd

\* The same sequence, put together in another order.
LEMMA Reassociated ==
  ASSUME NEW S, NEW a \in Seq(S), NEW b \in Seq(S), NEW c \in S,
         NEW s, s = a \o (<<c>> \o b)
  PROVE  s = (a \o <<c>>) \o b
<1>1. <<c>> \in Seq(S)
  BY Single
<1> QED BY <1>1, ConcatAssociative

\* A name that is one word holds no other symbol.
LEMMA SingleFree ==
  ASSUME NEW a, NEW c, a # c
  PROVE  Free(<<a>>, c, 1, Len(<<a>>))
BY DEF Free

\* ParseSourceUser undoes what a server does with the names of a user, if the
\* nickname has no '!' and the username no '@'; whatever is in the hostname.
THEOREM SourceParsedBack ==
  ASSUME NEW T, NEW nick \in Seq(T), NEW user \in Seq(T), NEW host \in Seq(T),
         Free(nick, "!", 1, Len(nick)), Free(user, "@", 1, Len(user)),
         NEW source \in Seq(STRING),
         source = (nick \o <<"!">> \o user) \o (<<"@">> \o host)
  PROVE  ParsedAs(source, nick, user, host)
<1> DEFINE S == T \cup {"!", "@"}
           head == (nick \o <<"!">>) \o user
           bang == Len(nick) + 1
           at == bang + Len(user) + 1
<1>1. "!" \in S /\ "@" \in S /\ nick \in Seq(S) /\ user \in Seq(S) /\ host \in Seq(S)
  OBVIOUS
<1>2. source = head \o (<<"@">> \o host) /\ source \in Seq(STRING)
  OBVIOUS
<1> HIDE DEF S
<1>3. /\ head \in Seq(S) /\ Len(head) = Len(nick) + 1 + Len(user) /\ head[Len(nick) + 1] = "!"
      /\ \A k \in 1..Len(nick) : head[k] = nick[k]
      /\ \A k \in 1..Len(user) : head[Len(nick) + 1 + k] = user[k]
  BY ONLY <1>1, JoinedSymbols
<1> HIDE DEF head
<1>4. source = (head \o <<"@">>) \o host
  <2>1. head \in Seq(S) /\ host \in Seq(S) /\ "@" \in S /\ source = head \o (<<"@">> \o host)
    BY <1>1, <1>2, <1>3
  <2> QED BY ONLY <2>1, Reassociated
<1>5. /\ Len(source) = Len(head) + 1 + Len(host) /\ source[Len(head) + 1] = "@"
      /\ \A k \in 1..Len(head) : source[k] = head[k]
      /\ \A k \in 1..Len(host) : source[Len(head) + 1 + k] = host[k]
  <2>1. head \in Seq(S) /\ host \in Seq(S) /\ "@" \in S
    BY <1>1, <1>3
  <2> QED BY ONLY <1>4, <2>1, JoinedSymbols
<1>6. /\ Len(nick) \in Nat /\ Len(user) \in Nat /\ Len(host) \in Nat
      /\ Len(head) + 1 = at /\ bang \in 1..Len(head)
  BY ONLY <1>1, <1>3, LenProperties
<1>7. Len(source) = at + Len(host) /\ source[bang] = "!" /\ source[at] = "@"
  BY ONLY <1>3, <1>5, <1>6
<1>8. ASSUME NEW k \in 1..Len(nick) PROVE source[k] = nick[k]
  <2>1. k \in 1..Len(head)
    BY <1>3, <1>6
  <2> QED BY ONLY <1>3, <1>5, <1>8, <2>1
<1>9. ASSUME NEW k \in 1..Len(user) PROVE source[bang + k] = user[k]
  <2>1. bang + k \in 1..Len(head)
    BY <1>3, <1>6
  <2> QED BY ONLY <1>3, <1>5, <1>9, <2>1
<1>10. \A k \in 1..Len(host) : source[at + k] = host[k]
  BY ONLY <1>5, <1>6
<1> HIDE DEF bang, at
<1>11. bang = Len(nick) + 1 /\ at = bang + Len(user) + 1
  BY DEF bang, at
<1>12. /\ nick \in Seq(T) /\ user \in Seq(T) /\ host \in Seq(T) /\ source \in Seq(STRING)
       /\ Free(nick, "!", 1, Len(nick)) /\ Free(user, "@", 1, Len(user))
  OBVIOUS
<1> QED BY ONLY <1>7, <1>8, <1>9, <1>10, <1>11, <1>12, SymbolsParsedBack

\* The admin's source is taken for the admin's.
LEMMA AdminParsed ==
  ASSUME NEW source \in Seq(STRING), source = UserHead(Admin) \o (<<"@">> \o Admin.hostname)
  PROVE  IsUserMessage(source) /\ ParseSourceUser(source) = Admin
<1> DEFINE T == {"kkd", "~memxor", "unaffiliated/kartikeya"}
           nick == <<"kkd">>
           user == <<"~memxor">>
           host == <<"unaffiliated/kartikeya">>
<1>1. nick \in Seq(T) /\ user \in Seq(T) /\ host \in Seq(T)
  <2>1. "kkd" \in T /\ "~memxor" \in T /\ "unaffiliated/kartikeya" \in T
    BY Zenon
  <2> QED BY ONLY <2>1, Single, Zenon
<1>2. Free(nick, "!", 1, Len(nick)) /\ Free(user, "@", 1, Len(user))
  <2>1. "kkd" # "!" /\ "~memxor" # "@"
    BY Zenon
  <2> QED BY ONLY <2>1, SingleFree, Zenon
<1>3. /\ Admin = [nickname |-> nick, username |-> user, hostname |-> host]
      /\ source = (nick \o <<"!">> \o user) \o (<<"@">> \o host)
  BY DEF Admin, UserHead
<1>4. source \in Seq(STRING)
  OBVIOUS
<1> HIDE DEF nick, user, host, T
<1>5. ParsedAs(source, nick, user, host)
  BY ONLY <1>1, <1>2, <1>3, <1>4, SourceParsedBack
<1> QED BY <1>3, <1>5 DEF ParsedAs

\* The converse of QuitsOnlyForAdmin: the admin's ,quit, and a PRIVMSG of the
\* admin without a text, always make the worker stop.
THEOREM QuitsForAdmin ==
  ASSUME NEW l \in Seq(STRING), Parse(l).ok, Parse(l).command = <<"PRIVMSG">>,
         Parse(l).source = UserHead(Admin) \o (<<"@">> \o Admin.hostname),
         Len(Parse(l).params) > 1 => Parse(l).params[2] = <<":", ",quit">>
  PROVE  ProcessMessageLine(l) = Quits
<1> DEFINE m == Parse(l)
<1>1. m.source \in Seq(STRING)
  BY SourceOfLine
<1>2. IsUserMessage(m.source) /\ ParseSourceUser(m.source) = Admin
  BY <1>1, AdminParsed
<1> HIDE DEF m
<1>3. IsQuitMessage(m)
  BY <1>2 DEF IsQuitMessage, IsUserCapable, m
<1>4. Dispatch(m) = HandlePrivMsg(m)
  <2>1. m.command = <<"PRIVMSG">>
    BY DEF m
  <2> QED BY ONLY <2>1 DEF Dispatch
<1>5. Dispatch(m) = Quits
  BY <1>2, <1>3, <1>4 DEF HandlePrivMsg
<1> QED BY <1>5 DEF ProcessMessageLine, m

-----------------------------------------------------------------------------
(* Assertions that a line can fail                                          *)

\* A part of a line holds a symbol where the line does.
LEMMA PartFree ==
  ASSUME NEW l \in Seq(STRING), NEW i \in Nat \ {0}, NEW j \in Int, j <= Len(l),
         NEW v, v = SubSeq(l, i, j), NEW x
  PROVE  v \in Seq(STRING) /\ (Find(v, x, 1) = 0 <=> Free(l, x, i, j))
<1>1. Len(l) \in Nat
  OBVIOUS
<1>2. \A k \in i..j : l[k] \in STRING
  BY <1>1, ElementOfSeq
<1>3. /\ v \in Seq(STRING) /\ Len(v) = (IF i <= j THEN j - i + 1 ELSE 0)
      /\ \A k \in 1..(j - i + 1) : v[k] = l[i + k - 1]
  BY <1>2, SubSeqProperties
<1> DEFINE f == Find(v, x, 1)
<1>4. \/ f = 0 /\ \A k \in 1..Len(v) : v[k] # x
      \/ f \in 1..Len(v) /\ v[f] = x
  <2>1. v \in Seq(STRING) /\ 1 \in Nat \ {0}
    BY <1>3
  <2> QED BY ONLY <2>1, FindsFirst
<1> HIDE DEF f
<1>5. ASSUME f # 0 PROVE ~Free(l, x, i, j)
  <2>1. f \in 1..(j - i + 1) /\ l[i + f - 1] = x /\ i + f - 1 \in i..j
    BY <1>3, <1>4, <1>5
  <2> QED BY <2>1 DEF Free
<1>6. ASSUME f = 0 PROVE Free(l, x, i, j)
  <2> SUFFICES ASSUME NEW k \in i..j PROVE l[k] # x
    BY DEF Free
  <2> DEFINE n == k - i + 1
  <2>1. n \in 1..(j - i + 1) /\ n \in 1..Len(v) /\ i + n - 1 = k
    BY <1>3
  <2> HIDE DEF n
  <2>2. v[n] # x
    <3>1. ~(0 \in 1..Len(v))
      BY <1>3
    <3> QED BY ONLY <1>4, <1>6, <2>1, <3>1
  <2>3. v[n] = l[k]
    BY ONLY <1>3, <2>1
  <2> QED BY <2>2, <2>3
<1> QED BY <1>3, <1>5, <1>6 DEF f

\* The source of the admin's messages.
AdminSource == UserHead(Admin) \o (<<"@">> \o Admin.hostname)

\* Only the admin's source is taken for the admin's.
LEMMA AdminBySource ==
  ASSUME NEW source \in Seq(STRING), IsUserMessage(source)
  PROVE  ParseSourceUser(source) = Admin <=> source = AdminSource
<1>1. ASSUME ParseSourceUser(source) = Admin PROVE source = AdminSource
  <2>1. Admin.hostname # << >>
    BY DEF Admin
  <2> QED BY <1>1, <2>1, FieldsMakeSource DEF AdminSource
<1>2. ASSUME source = AdminSource PROVE ParseSourceUser(source) = Admin
  BY <1>2, AdminParsed DEF AdminSource
<1> QED BY <1>1, <1>2

\* The cuts t, s and c make l a message on which an assertion fails: a NICK or a
\* PRIVMSG whose source has no '!', or a PRIVMSG with one parameter that is
\* not the admin's.
Incomplete(l, t, s, c) ==
  LET command == SubSeq(l, s + 1, c - 1)
      source == SubSeq(l, t + 2, s - 1)
  IN \/ command \in {<<"NICK">>, <<"PRIVMSG">>} /\ Free(l, "!", t + 2, s - 1)
     \/ /\ command = <<"PRIVMSG">> /\ ~Free(l, "!", t + 2, s - 1)
        /\ source # AdminSource /\ Cardinality(WordStarts(l, c)) = 1

\* The number of parameters is the number of words, at least one.
LEMMA ParamsCounted ==
  ASSUME NEW l \in Seq(STRING), NEW s \in 0..Len(l), NEW c \in 0..Len(l), CommandCut(l, s, c),
         NEW ps, AreWords(ps, l, c)
  PROVE  Len(ps) = Cardinality(WordStarts(l, c)) /\ Len(ps) \in Nat \ {0}
<1> DEFINE W == WordStarts(l, c)
<1>1. c + 1 \in W /\ W \in SUBSET Nat /\ Len(l) \in Nat /\ \A i \in W : i <= Len(l)
  BY DEF WordStarts, CommandCut
<1>2. Len(ps) = Cardinality(W)
  BY DEF AreWords
<1> HIDE DEF W
<1>3. IsFiniteSet(W)
  BY <1>1, FS_BoundedSetOfNaturals
<1>4. Cardinality(W) \in Nat /\ Cardinality(W) # 0
  BY <1>1, <1>3, FS_CardinalityType, FS_EmptySet
<1> QED BY <1>2, <1>4 DEF W

\* The assertions of IRC.cc:191, IRC.cc:201 and Manager.cc:106, which a server's
\* line can fail, told from the line alone.
THEOREM AssertsOnIncomplete ==
  ASSUME NEW l \in Seq(STRING)
  PROVE  ProcessMessageLine(l) = AssertFails <=>
           \E t \in 0..Len(l), s \in 0..Len(l), c \in 0..Len(l) :
             /\ TagCut(l, t) /\ SourceCut(l, t, s) /\ CommandCut(l, s, c)
             /\ Incomplete(l, t, s, c)
<1> DEFINE m == Parse(l)
           Cuts(t, s, c) == TagCut(l, t) /\ SourceCut(l, t, s) /\ CommandCut(l, s, c)
<1>1. ASSUME m.ok, NEW t \in 0..Len(l), NEW s \in 0..Len(l), NEW c \in 0..Len(l), Cuts(t, s, c)
      PROVE  ProcessMessageLine(l) = AssertFails <=> Incomplete(l, t, s, c)
  <2> DEFINE user == IsUserMessage(m.source)
             one == Cardinality(WordStarts(l, c)) = 1
  <2>1. /\ m.source = SubSeq(l, t + 2, s - 1) /\ m.command = SubSeq(l, s + 1, c - 1)
        /\ AreWords(m.params, l, c)
    BY <1>1, PartsOfLine
  <2>2. m.source \in Seq(STRING) /\ (user <=> ~Free(l, "!", t + 2, s - 1))
    <3>1. t + 2 \in Nat \ {0} /\ s - 1 \in Int /\ s - 1 <= Len(l)
      OBVIOUS
    <3>2. /\ m.source \in Seq(STRING)
          /\ Find(m.source, "!", 1) = 0 <=> Free(l, "!", t + 2, s - 1)
      BY <2>1, <3>1, PartFree
    <3> QED BY <3>2 DEF IsUserMessage
  <2>3. Len(m.params) = Cardinality(WordStarts(l, c)) /\ Len(m.params) \in Nat \ {0}
    BY <1>1, <2>1, ParamsCounted
  <2>4. HasUserCommand(m) <=> ~one
    BY <2>3 DEF HasUserCommand
  <2>5. user => (ParseSourceUser(m.source) = Admin <=> m.source = AdminSource)
    BY <2>2, AdminBySource
  <2>6. user /\ one => (IsQuitMessage(m) <=> m.source = AdminSource)
    BY <2>3, <2>5 DEF IsQuitMessage, IsUserCapable
  <2>7. ProcessMessageLine(l) = Dispatch(m)
    BY <1>1 DEF ProcessMessageLine
  <2>8. Dispatch(m) = AssertFails <=>
          \/ m.command = <<"NICK">> /\ ~user
          \/ m.command = <<"PRIVMSG">> /\ ~user
          \/ m.command = <<"PRIVMSG">> /\ user /\ ~IsQuitMessage(m) /\ ~HasUserCommand(m)
    <3> HIDE DEF m
    <3> QED BY DEF Dispatch, HandleNick, HandlePrivMsg, AssertFails, NoHandler, Quits, Calls
  <2> HIDE DEF m, user, one
  <2>9. Incomplete(l, t, s, c) <=>
          \/ m.command \in {<<"NICK">>, <<"PRIVMSG">>} /\ ~user
          \/ m.command = <<"PRIVMSG">> /\ user /\ m.source # AdminSource /\ one
    BY <2>1, <2>2 DEF Incomplete, one
  <2> QED BY <2>4, <2>6, <2>7, <2>8, <2>9
<1>2. ASSUME ProcessMessageLine(l) = AssertFails PROVE m.ok
  BY <1>2 DEF ProcessMessageLine, AssertFails, Calls
<1>3. m.ok <=> \E t \in 0..Len(l), s \in 0..Len(l), c \in 0..Len(l) : Cuts(t, s, c)
  <2> DEFINE t0 == TagEnd(l)
             s0 == SourceEnd(l, t0)
             c0 == CommandEnd(l, s0)
  <2>1. /\ t0 \in 0..Len(l) /\ s0 \in 0..Len(l) /\ c0 \in 0..Len(l)
        /\ m.ok <=> Cuts(t0, s0, c0)
    BY ParseByCuts
  <2>2. ASSUME NEW t \in 0..Len(l), NEW s \in 0..Len(l), NEW c \in 0..Len(l), Cuts(t, s, c)
        PROVE  t = t0 /\ s = s0 /\ c = c0
    BY <2>2, CutsFound
  <2> HIDE DEF t0, s0, c0, Cuts, m
  <2> QED BY <2>1, <2>2
<1> HIDE DEF m
<1> QED BY <1>1, <1>2, <1>3
-----------------------------------------------------------------------------
(* What becomes of a user's message                                         *)

\* What a handler has to get for a command of the user u with the words ws.
Reaches(result, command, u, ws) ==
  /\ command = <<"NICK">> =>
       result = Calls("BuiltinNickname", <<u.nickname, WithoutFirst(ws[1])>>)
  /\ command = <<"JOIN">> => result = Calls("BuiltinJoin", <<ws[1]>>)
  /\ command = <<"PART">> => result = Calls("BuiltinPart", <<ws[1]>>)
  /\ command = <<"PRIVMSG">> /\ Len(ws) >= 2 =>
       result = IF u = Admin /\ ws[2] = <<":", ",quit">> THEN Quits
                ELSE Calls("BuiltinPrivMsg", <<u, ws[1], ws[2]>>)

\* Every line that a server makes of a user's names, with or without tags, and
\* whatever follows them, reaches its handler with that user and with the words
\* of the line; of these only the admin's ,quit stops the worker.  A PRIVMSG
\* without a text is AssertsOnIncomplete's and QuitsForAdmin's.
THEOREM UserMessagesReachHandler ==
  ASSUME NEW l \in Seq(STRING),
         NEW t \in 0..Len(l), TagCut(l, t),
         NEW s \in 0..Len(l), SourceCut(l, t, s),
         NEW c \in 0..Len(l), CommandCut(l, s, c),
         NEW T, NEW nick \in Seq(T), NEW user \in Seq(T), NEW host \in Seq(T),
         Free(nick, "!", 1, Len(nick)), Free(user, "@", 1, Len(user)),
         SubSeq(l, t + 2, s - 1) = (nick \o <<"!">> \o user) \o (<<"@">> \o host)
  PROVE  \E ws : /\ AreWords(ws, l, c)
                 /\ Reaches(ProcessMessageLine(l), SubSeq(l, s + 1, c - 1),
                            [nickname |-> nick, username |-> user, hostname |-> host], ws)
<1> DEFINE m == Parse(l)
           u == [nickname |-> nick, username |-> user, hostname |-> host]
<1>1. m.ok
  <2>1. t = TagEnd(l) /\ s = SourceEnd(l, t) /\ c = CommandEnd(l, s)
    BY CutsFound
  <2> QED BY <2>1, ParseByCuts
<1>2. /\ m.source = SubSeq(l, t + 2, s - 1) /\ m.command = SubSeq(l, s + 1, c - 1)
      /\ AreWords(m.params, l, c)
  BY <1>1, PartsOfLine
<1>3. m.source \in Seq(STRING)
  BY <1>1, SourceOfLine
<1>4. ParsedAs(m.source, nick, user, host)
  <2>1. m.source = (nick \o <<"!">> \o user) \o (<<"@">> \o host)
    BY <1>2
  <2> HIDE DEF m
  <2> QED BY <1>3, <2>1, SourceParsedBack
<1>5. IsUserMessage(m.source) /\ ParseSourceUser(m.source) = u
  BY <1>4 DEF ParsedAs
<1>6. ProcessMessageLine(l) = Dispatch(m)
  BY <1>1 DEF ProcessMessageLine
<1> HIDE DEF m, u
<1>7. Len(m.params) \in Nat
  BY <1>2, ParamsCounted
<1>8. Reaches(Dispatch(m), m.command, u, m.params)
  <2>1. ASSUME m.command = <<"NICK">>
        PROVE  Dispatch(m) = Calls("BuiltinNickname", <<u.nickname, WithoutFirst(m.params[1])>>)
    BY <1>5, <2>1 DEF Dispatch, HandleNick
  <2>2. ASSUME m.command = <<"JOIN">> PROVE Dispatch(m) = Calls("BuiltinJoin", <<m.params[1]>>)
    BY ONLY <2>2 DEF Dispatch
  <2>3. ASSUME m.command = <<"PART">> PROVE Dispatch(m) = Calls("BuiltinPart", <<m.params[1]>>)
    BY ONLY <2>3 DEF Dispatch
  <2>4. ASSUME m.command = <<"PRIVMSG">>, Len(m.params) >= 2
        PROVE  Dispatch(m) = IF u = Admin /\ m.params[2] = <<":", ",quit">> THEN Quits
                             ELSE Calls("BuiltinPrivMsg", <<u, m.params[1], m.params[2]>>)
    <3>1. Dispatch(m) = HandlePrivMsg(m)
      BY ONLY <2>4 DEF Dispatch
    <3>2. Len(m.params) > 1
      BY ONLY <1>7, <2>4
    <3>3. IsQuitMessage(m) <=> u = Admin /\ m.params[2] = <<":", ",quit">>
      BY ONLY <1>5, <3>2, Zenon DEF IsQuitMessage, IsUserCapable
    <3> QED BY ONLY <1>5, <2>4, <3>1, <3>3, Zenon DEF HandlePrivMsg, HasUserCommand
  <2> QED BY <2>1, <2>2, <2>3, <2>4, Zenon DEF Reaches
<1> QED BY <1>2, <1>6, <1>8 DEF u
=============================================================================
