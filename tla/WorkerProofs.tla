---------------------------- MODULE WorkerProofs ----------------------------
(***************************************************************************)
(* Proof that WorkerRun loses track of no byte of the stream, handles it   *)
(* in order, tears lines only where it threw text away, obeys a quit that  *)
(* ends its batch and returns for nothing else, for every stream, every    *)
(* size of recv and every number of tries.                                 *)
(***************************************************************************)
EXTENDS Worker, WellFoundedInduction, TLAPS

InBatch == pc \in {"batch", "aborted"}

\* A piece that begins behind x is a whole line or follows text that is gone.
Follows(x) == x = 0 \/ x \in Ends \/ x \in lost

\* The next piece begins well, now or when RecvMsg is called again; the batch
\* lies in the buffer and, unless it is empty, ends in a newline.
PlaceInv ==
  /\ pc = "recv" => tries >= 0 /\ Follows(start)
  /\ pc # "recv" => Follows(pos)
  /\ InBatch => /\ start <= stop /\ start < next /\ next <= stop + 1
                /\ stop = start \/ stop \in Newlines
                /\ Follows(next - 1)

\* Where handled pieces may lie: before the buffer, the rest of the batch, or
\* anywhere in what was received.
HandledInv ==
  \A h \in handled :
    /\ pc = "recv" => h[2] <= start
    /\ InBatch => h[2] < next
    /\ h[2] <= pos

\* Where lost text may lie: likewise, or behind the batch.
LostInv ==
  \A x \in lost :
    /\ pc = "recv" => x <= start
    /\ InBatch => x <= start \/ x > stop
    /\ x <= pos

In(x, h) == h[1] <= x /\ x <= h[2]

\* Nothing is in two places ...
ApartInv ==
  /\ \A h \in handled, x \in lost : ~In(x, h)
  /\ \A h, k \in handled : h # k => h[2] < k[1] \/ k[2] < h[1]

\* ... and everything is in one.
FoundInv ==
  \A x \in Text :
    x <= pos =>
      \/ x \in lost
      \/ \E h \in handled : In(x, h)
      \/ pc = "recv" /\ start < x
      \/ InBatch /\ next <= x /\ x <= stop

IsLast(h) == \A k \in handled : k[2] <= h[2]

\* The flag is down because of a piece handled, and whenever the last one reads
\* like a quit; the process aborted because of a piece handled.
FlagInv ==
  /\ ~r => \E h \in handled : Reads[h] = "quit"
  /\ pc # "aborted" => \A h \in handled : Reads[h] = "quit" /\ IsLast(h) => ~r
  /\ pc = "register" => pos = 0
  /\ pc = "aborted" => \E h \in handled : Reads[h] = "assert"

IInv ==
  /\ TypeOK /\ PlaceInv /\ HandledInv /\ LostInv /\ ApartInv /\ FoundInv
  /\ TornOnlyByLoss /\ FlagInv

-----------------------------------------------------------------------------
\* Every set of natural numbers has a least one.
LEMMA Least ==
  ASSUME NEW T \in SUBSET Nat, T # {}
  PROVE  \E x \in T : \A y \in T : x <= y
<1>1. PICK x \in T : \A y \in T : ~(<<y, x>> \in OpToRel(<, Nat))
  BY WFMin, NatLessThanWellFounded
<1>2. ASSUME NEW y \in T PROVE x <= y
  <2>1. <<y, x>> \notin OpToRel(<, Nat)
    BY <1>1
  <2>2. ~(y < x)
    BY <2>1 DEF OpToRel
  <2> QED BY <2>2
<1> QED BY <1>2

\* The positions of the stream.
LEMMA Positions ==
  /\ N \in Nat
  /\ Newlines \subseteq Ends /\ Ends \subseteq 1..N /\ Text \subseteq 1..N
  /\ Text \cap Ends = {}
BY RecvAssumption DEF N, Newlines, Ends, Text

\* std::string::rfind finds the last newline of the buffer, if there is one.
LEMMA LastNewlineFound ==
  ASSUME start \in Nat, NEW p \in Nat, start <= p
  PROVE  /\ LastNewline(p) \in start..p
         /\ LastNewline(p) = start \/ LastNewline(p) \in Newlines
<1> DEFINE Good(i) == (i = start \/ i \in Newlines) /\ \A j \in (i + 1)..p : j \notin Newlines
           T == {d \in Nat : d <= p - start /\ (p - d = start \/ p - d \in Newlines)}
<1>1. p - start \in T
  OBVIOUS
<1>2. PICK d \in T : \A y \in T : d <= y
  BY <1>1, Least
<1>3. p - d \in start..p /\ (p - d = start \/ p - d \in Newlines)
  BY <1>2
<1>4. ASSUME NEW j \in ((p - d) + 1)..p PROVE j \notin Newlines
  <2>1. p - j \in Nat /\ p - j < d /\ p - j <= p - start /\ p - (p - j) = j
    BY <1>3
  <2> QED BY <1>2, <2>1
<1>5. \E i \in start..p : Good(i)
  BY <1>3, <1>4
<1> QED BY <1>5 DEF LastNewline

\* strtok_r finds the end of the token in a batch that ends in a newline.
LEMMA TokenEndFound ==
  ASSUME next \in Nat, stop \in Nat, next <= stop, stop \in Newlines
  PROVE  /\ TokenEnd \in next..stop /\ TokenEnd \in Ends
         /\ \A j \in next..(TokenEnd - 1) : j \notin Ends
<1> DEFINE Good(i) == (i = stop + 1 \/ i \in Ends) /\ \A j \in next..(i - 1) : j \notin Ends
           T == {i \in next..stop : i \in Ends}
<1>1. stop \in T /\ T \in SUBSET Nat
  BY Positions
<1>2. PICK m \in T : \A y \in T : m <= y
  BY <1>1, Least
<1>3. m \in next..(stop + 1) /\ Good(m)
  BY <1>1, <1>2
<1>4. TokenEnd \in next..(stop + 1) /\ Good(TokenEnd)
  BY <1>3 DEF TokenEnd
<1>5. TokenEnd # stop + 1
  <2>1. ASSUME TokenEnd = stop + 1 PROVE stop \in next..(TokenEnd - 1)
    BY <2>1
  <2> QED BY <1>1, <1>4, <2>1
<1> QED BY <1>4, <1>5

\* The types without the set notation.
LEMMA Ranges ==
  ASSUME TypeOK
  PROVE  /\ arrived \in Nat /\ arrived <= N /\ pos \in Nat /\ pos <= arrived
         /\ start \in Nat /\ start <= pos /\ stop \in Nat /\ stop <= pos
         /\ next \in Nat /\ next >= 1 /\ tries \in Int
         /\ \A x \in lost : x \in Nat /\ x >= 1
         /\ \A h \in handled : /\ h[1] \in Nat /\ h[2] \in Nat /\ 1 <= h[1]
                               /\ h[1] <= h[2] /\ h[2] <= N
BY Positions, RecvAssumption DEF TypeOK, Tokens

-----------------------------------------------------------------------------
(* The steps                                                               *)

\* Text that is thrown away stays thrown away, so nothing that was handled is
\* torn later, and what was handled stays handled.
LEMMA TornKept ==
  ASSUME TornOnlyByLoss, lost \subseteq lost', handled' = handled
  PROVE  TornOnlyByLoss'
BY DEF TornOnlyByLoss, BeginsLine

\* RecvMsg returns the lines of a buffer start+1..p that is not empty.
LEMMA LinesReturned ==
  ASSUME IInv, pc = "recv", NEW p \in Nat, pos <= p, start < p, p <= arrived,
         ReturnLines(p), pos' = p, tries' \in -1..Tries,
         UNCHANGED <<stream, start, r, handled>>
  PROVE  IInv'
<1> DEFINE l == LastNewline(p)
<1>1. /\ next' = start + 1 /\ stop' = l /\ pc' = "batch"
      /\ lost' = lost \cup (l + 1)..p
      /\ UNCHANGED <<arrived, eof>>
  BY DEF ReturnLines, stream
<1>r. /\ arrived \in Nat /\ arrived <= N /\ pos \in Nat /\ start \in Nat /\ N \in Nat
      /\ \A x \in lost : x \in Nat /\ x >= 1
      /\ \A h \in handled : h[1] \in Nat /\ h[2] \in Nat
  BY Ranges, Positions DEF IInv
<1>2. l \in Nat /\ start <= l /\ l <= p /\ (l = start \/ l \in Newlines)
  BY <1>r, LastNewlineFound
<1> HIDE DEF l
<1>3. TypeOK'
  <2>1. lost' \subseteq 1..N
    BY <1>1, <1>2, <1>r DEF IInv, TypeOK
  <2> QED BY <1>1, <1>2, <1>r, <2>1 DEF IInv, TypeOK, PCs
<1>4. PlaceInv'
  <2>1. p \in Ends \/ p \in lost'
    BY <1>1, <1>2, Positions
  <2>2. Follows(start)'
    BY <1>1 DEF IInv, PlaceInv, Follows
  <2>3. next' - 1 = start
    BY <1>1, <1>r
  <2> QED BY <1>1, <1>2, <1>r, <2>1, <2>2, <2>3 DEF PlaceInv, Follows, InBatch
<1>5. HandledInv'
  BY <1>1, <1>r DEF IInv, HandledInv, InBatch
<1>6. LostInv'
  BY <1>1, <1>2, <1>r DEF IInv, LostInv, InBatch
<1>7. ApartInv'
  BY <1>1, <1>2, <1>r DEF IInv, ApartInv, HandledInv, In
<1>8. FoundInv'
  <2> SUFFICES ASSUME NEW x \in Text, x <= p
               PROVE  \/ x \in lost'
                      \/ \E h \in handled : In(x, h)
                      \/ next' <= x /\ x <= stop'
    BY <1>1 DEF FoundInv, InBatch
  <2>1. x \in Nat
    BY Positions
  <2>2. x <= start => x \in lost \/ \E h \in handled : In(x, h)
    BY <1>r, <2>1, Ranges DEF IInv, FoundInv, InBatch
  <2> QED BY <1>1, <1>2, <1>r, <2>1, <2>2
<1>9. TornOnlyByLoss'
  BY <1>1, TornKept DEF IInv
<1>10. FlagInv'
  BY <1>1 DEF IInv, FlagInv, IsLast
<1> QED BY <1>3, <1>4, <1>5, <1>6, <1>7, <1>8, <1>9, <1>10 DEF IInv

\* RecvMsg returns nothing and throws away what it has.
LEMMA NothingReturned ==
  ASSUME IInv, pc = "recv", ReturnNothing, arrived' = arrived, eof' \in BOOLEAN,
         UNCHANGED <<buffer, r, handled>>
  PROVE  IInv'
<1>1. /\ pc' = "wait" /\ lost' = lost \cup (start + 1)..pos
      /\ UNCHANGED <<pos, start, tries, next, stop>>
  BY DEF ReturnNothing, buffer, batch
<1>r. /\ arrived \in Nat /\ arrived <= N /\ pos \in Nat /\ start \in Nat /\ N \in Nat
      /\ start <= pos /\ pos <= arrived
      /\ \A x \in lost : x \in Nat /\ x >= 1
      /\ \A h \in handled : h[1] \in Nat /\ h[2] \in Nat
  BY Ranges, Positions DEF IInv
<1>2. TypeOK'
  <2>1. lost' \subseteq 1..N
    BY <1>1, <1>r DEF IInv, TypeOK
  <2> QED BY <1>1, <2>1 DEF IInv, TypeOK, PCs
<1>3. PlaceInv'
  <2>1. Follows(pos)'
    BY <1>1, <1>r DEF IInv, PlaceInv, Follows
  <2> QED BY <1>1, <2>1 DEF PlaceInv, InBatch
<1>4. HandledInv' /\ LostInv'
  BY <1>1, <1>r DEF IInv, HandledInv, LostInv, InBatch
<1>5. ApartInv'
  BY <1>1, <1>r DEF IInv, ApartInv, HandledInv, In
<1>6. FoundInv'
  <2> SUFFICES ASSUME NEW x \in Text, x <= pos
               PROVE  x \in lost' \/ \E h \in handled : In(x, h)
    BY <1>1 DEF FoundInv
  <2>1. x \in Nat
    BY Positions
  <2> QED BY <1>1, <1>r, <2>1 DEF IInv, FoundInv, InBatch
<1>7. TornOnlyByLoss'
  BY <1>1, TornKept DEF IInv
<1>8. FlagInv'
  BY <1>1 DEF IInv, FlagInv, IsLast
<1> QED BY <1>2, <1>3, <1>4, <1>5, <1>6, <1>7, <1>8 DEF IInv

\* The turns of RecvMsg's loop.
LEMMA RecvStep ==
  ASSUME IInv, RecvData \/ RecvAgain \/ RecvEof \/ RecvError
  PROVE  IInv'
<1>r. /\ arrived \in Nat /\ arrived <= N /\ pos \in Nat /\ start \in Nat /\ N \in Nat
      /\ start <= pos /\ pos <= arrived /\ tries \in Int /\ Tries \in Nat /\ MaxRecv \in Nat \ {0}
  BY Ranges, Positions, RecvAssumption DEF IInv
<1>1. CASE RecvData
  <2>1. PICK p \in Nat : /\ pos < p /\ p <= arrived /\ pos' = p
                         /\ \/ StopsAt(p) /\ ReturnLines(p)
                            \/ ~StopsAt(p) /\ UNCHANGED <<pc, batch, lost>>
    BY <1>1, <1>r DEF RecvData
  <2>2. /\ pc = "recv" /\ tries' = tries - 1 /\ UNCHANGED <<stream, start, r, handled>>
    BY <1>1 DEF RecvData
  <2>3. tries >= 0 /\ tries <= Tries
    BY <2>2, <1>r DEF IInv, PlaceInv, TypeOK
  <2>4. CASE ReturnLines(p)
    <3>1. tries' \in -1..Tries /\ pos <= p /\ start < p
      BY <1>r, <2>1, <2>2, <2>3
    <3> QED BY <2>1, <2>2, <2>4, <3>1, LinesReturned
  <2>5. CASE ~StopsAt(p) /\ UNCHANGED <<pc, batch, lost>>
    <3>1. tries' >= 0 /\ tries' <= Tries /\ tries' \in Int
      BY <1>r, <2>2, <2>3, <2>5 DEF StopsAt
    <3>2. UNCHANGED <<pc, next, stop, lost, arrived, eof, start, r, handled>>
      BY <2>2, <2>5 DEF batch, stream
    <3>3. TypeOK'
      BY <1>r, <2>1, <3>1, <3>2 DEF IInv, TypeOK
    <3>4. PlaceInv'
      BY <2>2, <3>1, <3>2 DEF IInv, PlaceInv, Follows, InBatch
    <3>5. HandledInv' /\ LostInv'
      <4>1. /\ \A h \in handled : h[2] \in Nat /\ h[2] <= start
            /\ \A x \in lost : x \in Nat /\ x <= start
        BY <2>2, Ranges DEF IInv, HandledInv, LostInv
      <4> QED BY <1>r, <2>1, <2>2, <3>2, <4>1 DEF HandledInv, LostInv, InBatch
    <3>6. ApartInv'
      BY <3>2 DEF IInv, ApartInv
    <3>7. FoundInv'
      <4> SUFFICES ASSUME NEW x \in Text, ~(start < x)
                   PROVE  x \in lost \/ \E h \in handled : In(x, h)
        BY <2>2, <3>2 DEF FoundInv
      <4>1. x \in Nat
        BY Positions
      <4> QED BY <1>r, <2>2, <4>1 DEF IInv, FoundInv, InBatch
    <3>8. TornOnlyByLoss' /\ FlagInv'
      BY <2>2, <3>2, TornKept DEF IInv, FlagInv, IsLast
    <3> QED BY <3>3, <3>4, <3>5, <3>6, <3>7, <3>8 DEF IInv
  <2> QED BY <2>1, <2>4, <2>5
<1>2. CASE RecvAgain
  <2>1. pc = "recv" /\ UNCHANGED <<stream, buffer, r, handled>>
    BY <1>2 DEF RecvAgain
  <2>2. CASE pos = start
    <3>1. ReturnNothing
      BY <1>2, <2>2 DEF RecvAgain
    <3>2. arrived' = arrived /\ eof' \in BOOLEAN
      BY <2>1 DEF stream, IInv, TypeOK
    <3> QED BY <2>1, <3>1, <3>2, NothingReturned
  <2>3. CASE pos # start
    <3>1. ReturnLines(pos)
      BY <1>2, <2>3 DEF RecvAgain
    <3>2. pos' = pos /\ start < pos /\ tries' \in -1..Tries /\ UNCHANGED start
      BY <1>r, <2>1, <2>3 DEF buffer, IInv, TypeOK
    <3> QED BY <1>r, <2>1, <3>1, <3>2, LinesReturned
  <2> QED BY <2>2, <2>3
<1>3. CASE RecvEof
  <2>1. arrived' = arrived /\ eof' \in BOOLEAN
    BY <1>3 DEF RecvEof, stream, IInv, TypeOK
  <2> QED BY <1>3, <2>1, NothingReturned DEF RecvEof
<1>4. CASE RecvError
  BY <1>4, NothingReturned DEF RecvError
<1> QED BY <1>1, <1>2, <1>3, <1>4

\* ProcessMessageLine on the next token of the batch.
LEMMA HandleLineStep ==
  ASSUME IInv, HandleLine
  PROVE  IInv'
<1>r. /\ N \in Nat /\ pos \in Nat /\ pos <= N /\ start \in Nat /\ stop \in Nat /\ stop <= pos
      /\ next \in Nat /\ next >= 1
      /\ \A x \in lost : x \in Nat /\ x >= 1
      /\ \A h \in handled : h[1] \in Nat /\ h[2] \in Nat /\ h[1] <= h[2]
  BY Ranges, Positions DEF IInv
<1>1. /\ pc = "batch" /\ next <= stop
      /\ UNCHANGED <<arrived, eof, pos, start, tries, stop, lost>>
  BY DEF HandleLine, stream, buffer
<1>2. start < next /\ stop \in Newlines /\ Follows(next - 1) /\ Follows(pos)
  BY <1>1, <1>r DEF IInv, PlaceInv, InBatch
<1>3. PICK e \in Nat : /\ e = TokenEnd /\ next <= e /\ e <= stop /\ e \in Ends
                       /\ \A j \in next..(e - 1) : j \notin Ends
  BY <1>1, <1>2, <1>r, TokenEndFound
<1> DEFINE h == <<next, e - 1>>
<1>4. /\ next' = e + 1
      /\ \/ e = next /\ UNCHANGED <<pc, r, handled>>
         \/ /\ e # next /\ handled' = handled \cup {h}
            /\ \/ Reads[h] = "assert" /\ pc' = "aborted" /\ UNCHANGED r
               \/ Reads[h] # "assert" /\ r' = (Reads[h] # "quit") /\ UNCHANGED pc
  BY <1>3 DEF HandleLine, SetsFlag, BehindToken
<1>5. e # next => h \in Tokens /\ h[1] = next /\ h[2] = e - 1
  <2>1. next..(e - 1) \subseteq Text
    BY <1>3, <1>r DEF Text
  <2> QED BY <1>3, <1>r, <2>1 DEF Tokens
<1>6. InBatch /\ InBatch' /\ pc' # "recv" /\ pc' # "done"
  BY <1>1, <1>4 DEF InBatch
<1> HIDE DEF h
<1>7. TypeOK'
  <2>1. handled' \subseteq Tokens /\ r' \in BOOLEAN /\ pc' \in PCs
    BY <1>1, <1>4, <1>5 DEF IInv, TypeOK, PCs
  <2>2. next' \in 1..(N + 2)
    BY <1>3, <1>4, <1>r
  <2> QED BY <1>1, <2>1, <2>2 DEF IInv, TypeOK
<1>8. PlaceInv'
  <2>1. next' - 1 = e /\ start < next' /\ next' <= stop + 1
    BY <1>2, <1>3, <1>4, <1>r
  <2>2. Follows(next - 1)' /\ Follows(pos)'
    BY <1>1, <1>2, <1>3, <2>1 DEF Follows
  <2> QED BY <1>1, <1>2, <1>6, <2>1, <2>2 DEF IInv, PlaceInv, InBatch
<1>9. HandledInv'
  <2>1. \A k \in handled' : k[2] < next' /\ k[2] <= pos
    <3>1. \A k \in handled : k[2] < next /\ k[2] <= pos
      BY <1>6 DEF IInv, HandledInv
    <3> QED BY <1>3, <1>4, <1>5, <1>r, <3>1
  <2> QED BY <1>1, <1>6, <2>1 DEF HandledInv
<1>10. LostInv'
  BY <1>1, <1>6 DEF IInv, LostInv
<1>11. ApartInv'
  <2>1. CASE e = next
    BY <1>1, <1>4, <2>1 DEF IInv, ApartInv
  <2>2. CASE e # next
    <3>1. \A x \in lost : ~In(x, h)
      <4>1. \A x \in lost : x <= start \/ x > stop
        BY <1>6 DEF IInv, LostInv
      <4> QED BY <1>2, <1>3, <1>5, <1>r, <2>2, <4>1 DEF In
    <3>2. \A k \in handled : k[2] < h[1]
      BY <1>5, <1>6, <2>2 DEF IInv, HandledInv
    <3>3. handled' = handled \cup {h}
      BY <1>4, <2>2
    <3> QED BY <1>1, <3>1, <3>2, <3>3 DEF IInv, ApartInv
  <2> QED BY <2>1, <2>2
<1>12. FoundInv'
  <2> SUFFICES ASSUME NEW x \in Text, x <= pos
               PROVE  \/ x \in lost
                      \/ \E k \in handled' : In(x, k)
                      \/ next' <= x /\ x <= stop
    BY <1>1, <1>6 DEF FoundInv
  <2>1. x \in Nat /\ x # e
    BY <1>3, Positions
  <2>2. \/ x \in lost
        \/ \E k \in handled : In(x, k)
        \/ next <= x /\ x <= stop
    BY <1>1 DEF IInv, FoundInv
  <2>3. handled \subseteq handled'
    BY <1>4
  <2>4. CASE next <= x /\ x < e
    <3>1. e # next /\ h \in handled' /\ In(x, h)
      BY <1>3, <1>4, <1>5, <1>r, <2>1, <2>4 DEF In
    <3> QED BY <3>1
  <2>5. CASE ~(next <= x /\ x < e)
    BY <1>3, <1>4, <1>r, <2>1, <2>2, <2>3, <2>5
  <2> QED BY <2>4, <2>5
<1>13. TornOnlyByLoss'
  <2>1. ASSUME e # next
        PROVE  h[2] + 1 \in Ends /\ (BeginsLine(h[1]) \/ h[1] - 1 \in lost)
    <3>1. h[2] + 1 = e
      BY <1>3, <1>5, <2>1
    <3>2. BeginsLine(next) \/ next - 1 \in lost
      BY <1>2, <1>r DEF Follows, BeginsLine
    <3> QED BY <1>3, <1>5, <2>1, <3>1, <3>2
  <2> QED BY <1>1, <1>4, <2>1 DEF IInv, TornOnlyByLoss, BeginsLine
<1>14. FlagInv'
  <2>1. CASE e = next
    BY <1>1, <1>4, <2>1 DEF IInv, FlagInv, IsLast
  <2>2. CASE e # next /\ Reads[h] = "assert" /\ pc' = "aborted" /\ UNCHANGED r
    BY <1>4, <2>2 DEF IInv, FlagInv, IsLast
  <2>3. CASE e # next /\ Reads[h] # "assert" /\ r' = (Reads[h] # "quit") /\ UNCHANGED pc
    <3>1. h \in handled' /\ (~r' <=> Reads[h] = "quit")
      BY <1>4, <2>3
    <3>2. \A k \in handled : k[2] \in Nat /\ k[2] < h[2]
      <4>1. \A k \in handled : k[2] \in Nat /\ k[2] < next
        BY <1>6, Ranges DEF IInv, HandledInv
      <4>2. h[2] \in Nat /\ next <= h[2]
        BY <1>3, <1>5, <1>r, <2>3
      <4> QED BY <1>r, <4>1, <4>2
    <3>3. ASSUME NEW k \in handled', IsLast(k)' PROVE k = h
      BY <1>4, <2>3, <3>1, <3>2, <3>3, <1>5, <1>r DEF IsLast
    <3> QED BY <1>1, <2>3, <3>1, <3>3 DEF FlagInv, IsLast
  <2> QED BY <1>4, <2>1, <2>2, <2>3
<1> QED BY <1>7, <1>8, <1>9, <1>10, <1>11, <1>12, <1>13, <1>14 DEF IInv

\* The steps that move no text.
LEMMA OtherStep ==
  ASSUME IInv,
         \/ Register \/ CallbackRuns \/ LeaveLoop \/ BatchDone
         \/ PeerCloses \/ \E n \in 1..N : Arrive(n)
  PROVE  IInv'
<1>r. /\ N \in Nat /\ arrived \in Nat /\ pos \in Nat /\ start \in Nat /\ stop \in Nat
      /\ next \in Nat /\ Tries \in Nat
  BY Ranges, Positions, RecvAssumption DEF IInv
<1>k. lost' = lost /\ handled' = handled /\ pos' = pos /\ next' = next /\ stop' = stop /\ r' = r
  BY DEF Register, CallbackRuns, LeaveLoop, BatchDone, PeerCloses, Arrive, buffer, batch, done
<1>t. TornOnlyByLoss'
  BY <1>k, TornKept DEF IInv
<1>1. CASE Register \/ LeaveLoop \/ BatchDone
  <2>1. /\ pc \in {"register", "wait", "batch"} /\ pc' \in {"wait", "failed", "done"}
        /\ pc = "batch" => next > stop
        /\ pc' = "done" => ~r
        /\ UNCHANGED <<arrived, eof, start, tries>>
    BY <1>1 DEF Register, LeaveLoop, BatchDone, stream, buffer
  <2>2. ~InBatch' /\ pc # "recv" /\ pc' # "recv" /\ pc' # "aborted"
    BY <2>1 DEF InBatch
  <2>3. TypeOK'
    BY <1>k, <2>1 DEF IInv, TypeOK, PCs
  <2>4. PlaceInv' /\ HandledInv' /\ LostInv'
    BY <1>k, <2>1, <2>2 DEF IInv, PlaceInv, HandledInv, LostInv, Follows
  <2>5. ApartInv' /\ FlagInv'
    BY <1>k, <2>1, <2>2 DEF IInv, ApartInv, FlagInv, IsLast
  <2>6. FoundInv'
    <3> SUFFICES ASSUME NEW x \in Text, x <= pos
                 PROVE  x \in lost \/ \E h \in handled : In(x, h)
      BY <1>k DEF FoundInv
    <3>1. x \in Nat
      BY Positions
    <3> QED BY <1>r, <2>1, <3>1 DEF IInv, FoundInv, InBatch
  <2> QED BY <1>t, <2>3, <2>4, <2>5, <2>6 DEF IInv
<1>2. CASE CallbackRuns
  <2>1. /\ pc = "wait" /\ pc' = "recv" /\ start' = pos /\ tries' = Tries /\ r
        /\ UNCHANGED <<arrived, eof>>
    BY <1>2 DEF CallbackRuns, stream
  <2>2. TypeOK'
    BY <1>k, <1>r, <2>1 DEF IInv, TypeOK, PCs
  <2>3. PlaceInv' /\ HandledInv' /\ LostInv'
    BY <1>k, <1>r, <2>1 DEF IInv, PlaceInv, HandledInv, LostInv, Follows, InBatch
  <2>4. ApartInv' /\ FlagInv' /\ FoundInv'
    BY <1>k, <2>1 DEF IInv, ApartInv, FlagInv, IsLast, FoundInv, InBatch
  <2> QED BY <1>t, <2>2, <2>3, <2>4 DEF IInv
<1>3. CASE PeerCloses \/ \E n \in 1..N : Arrive(n)
  <2>1. UNCHANGED <<pc, start, tries>> /\ arrived' \in 0..N /\ arrived <= arrived'
        /\ eof' \in BOOLEAN
    <3>1. arrived \in 0..N /\ eof \in BOOLEAN
      BY DEF IInv, TypeOK
    <3>2. CASE PeerCloses
      <4>1. arrived' = arrived /\ eof' = TRUE /\ UNCHANGED <<pc, start, tries>>
        BY <3>2 DEF PeerCloses, buffer
      <4> QED BY <1>r, <3>1, <4>1
    <3>3. ASSUME NEW n \in 1..N, Arrive(n) 
          PROVE  /\ UNCHANGED <<pc, start, tries>> /\ arrived' \in 0..N /\ arrived <= arrived'
                 /\ eof' \in BOOLEAN
      <4>1. /\ arrived + n <= N /\ arrived' = arrived + n /\ eof' = eof
            /\ UNCHANGED <<pc, start, tries>>
        BY <3>3 DEF Arrive, buffer
      <4>2. arrived' \in 0..N /\ arrived <= arrived'
        BY <1>r, <4>1
      <4> QED BY <3>1, <4>1, <4>2
    <3> QED BY <1>3, <3>2, <3>3
  <2>2. TypeOK'
    BY <1>k, <1>r, <2>1 DEF IInv, TypeOK
  <2>3. PlaceInv' /\ HandledInv' /\ LostInv'
    BY <1>k, <2>1 DEF IInv, PlaceInv, HandledInv, LostInv, Follows, InBatch
  <2>4. ApartInv' /\ FlagInv' /\ FoundInv'
    BY <1>k, <2>1 DEF IInv, ApartInv, FlagInv, IsLast, FoundInv, InBatch
  <2> QED BY <1>t, <2>2, <2>3, <2>4 DEF IInv
<1> QED BY <1>1, <1>2, <1>3

-----------------------------------------------------------------------------
\* The inductive invariant.
THEOREM Invariant == Spec => []IInv
<1>1. Init => IInv
  <2> SUFFICES ASSUME Init PROVE IInv
    OBVIOUS
  <2>1. TypeOK
    <3>1. /\ arrived \in 0..N /\ pos \in 0..arrived /\ start \in 0..pos /\ tries \in -1..Tries
          /\ next \in 1..(N + 2) /\ stop \in 0..pos
      BY Positions, RecvAssumption DEF Init
    <3>2. /\ eof \in BOOLEAN /\ pc \in PCs /\ r \in BOOLEAN
          /\ lost \subseteq 1..N /\ handled \subseteq Tokens
      BY DEF Init, PCs
    <3> QED BY <3>1, <3>2 DEF TypeOK
  <2>2. PlaceInv /\ HandledInv /\ LostInv /\ ApartInv /\ TornOnlyByLoss /\ FlagInv
    BY DEF Init, PlaceInv, HandledInv, LostInv, ApartInv, TornOnlyByLoss, FlagInv, IsLast, Follows,
           InBatch
  <2>3. FoundInv
    BY Positions DEF Init, FoundInv
  <2> QED BY <2>1, <2>2, <2>3 DEF IInv
<1>2. IInv /\ [Next]_vars => IInv'
  <2> SUFFICES ASSUME IInv, [Next]_vars PROVE IInv'
    OBVIOUS
  <2>1. CASE Finished \/ UNCHANGED vars
    <3>1. /\ UNCHANGED <<arrived, eof, pc, pos, start, tries, next, stop, r, lost, handled>>
      BY <2>1 DEF Finished, vars, stream, buffer, batch, done
    <3> QED BY <3>1 DEF IInv, TypeOK, PlaceInv, HandledInv, LostInv, ApartInv, FoundInv,
                        TornOnlyByLoss, FlagInv, IsLast, Follows, InBatch
  <2> QED BY <2>1, RecvStep, HandleLineStep, OtherStep DEF Next, WorkerStep
<1> QED BY <1>1, <1>2, PTL DEF Spec

\* Every byte of text that recv returned is in exactly one place: handled,
\* thrown away, in RecvMsg's buffer or in the rest of the batch, for every
\* stream and however TCP cuts it.
THEOREM StreamCorrect == Spec => []StreamInv
<1>1. IInv => StreamInv
  <2> SUFFICES ASSUME IInv PROVE TextAccountedFor
    BY DEF IInv, StreamInv
  <2>r. /\ pos \in Nat /\ start \in Nat /\ stop \in Nat /\ next \in Nat /\ stop <= pos /\ next >= 1
        /\ \A x \in lost : x \in Nat /\ x >= 1
        /\ \A h \in handled : h[1] \in Nat /\ h[2] \in Nat /\ 1 <= h[1] /\ h[1] <= h[2]
    BY Ranges DEF IInv
  <2>1. \A x : x \in Covered <=> x \in Int /\ \E h \in handled : In(x, h)
    BY <2>r DEF Covered, In
  <2>2. \A x : /\ x \in Buffered <=> x \in Int /\ pc = "recv" /\ start < x /\ x <= pos
               /\ x \in Batched <=> x \in Int /\ InBatch /\ next <= x /\ x <= stop
    BY <2>r DEF Buffered, Batched, InBatch
  <2>3. ASSUME NEW x \in Text
        PROVE  x \in 1..pos <=> x \in Covered \cup lost \cup Buffered \cup Batched
    <3>1. x \in Nat /\ x >= 1
      BY Positions
    <3>2. x \in 1..pos => x \in Covered \cup lost \cup Buffered \cup Batched
      BY <2>1, <2>2, <2>r, <3>1 DEF IInv, FoundInv
    <3>3. x \in Covered => x <= pos
      <4>1. \A h \in handled : h[2] <= pos
        BY DEF IInv, HandledInv
      <4> QED BY <2>1, <2>r, <3>1, <4>1 DEF In
    <3>4. x \in lost => x <= pos
      BY DEF IInv, LostInv
    <3>5. x \in Buffered \cup Batched => x <= pos
      BY <2>2, <2>r, <3>1
    <3> QED BY <2>r, <3>1, <3>2, <3>3, <3>4, <3>5
  <2>4. Covered \cap lost = {}
    BY <2>1, <2>r DEF IInv, ApartInv
  <2>5. (Covered \cup lost) \cap (Buffered \cup Batched) = {}
    <3>1. ASSUME NEW x, x \in Buffered \cup Batched, x \in lost PROVE FALSE
      BY <2>2, <2>r, <3>1 DEF IInv, LostInv, PlaceInv
    <3>2. ASSUME NEW x, x \in Buffered \cup Batched, x \in Covered PROVE FALSE
      <4>1. PICK h \in handled : In(x, h) /\ x \in Int
        BY <2>1, <3>2
      <4> QED BY <2>2, <2>r, <3>2, <4>1 DEF IInv, HandledInv, In
    <3> QED BY <3>1, <3>2
  <2>6. \A h, k \in handled : h # k => (h[1]..h[2]) \cap (k[1]..k[2]) = {}
    BY <2>r DEF IInv, ApartInv
  <2> QED BY <2>3, <2>4, <2>5, <2>6 DEF TextAccountedFor
<1> QED BY <1>1, Invariant, PTL

\* Every piece handled ends with its line, and begins with it unless the text
\* before it was thrown away.
THEOREM TornByLossOnly == Spec => []TornOnlyByLoss
<1>1. IInv => TornOnlyByLoss
  BY DEF IInv
<1> QED BY <1>1, Invariant, PTL

\* As long as the server's whole lines fail no assertion, and RecvMsg threw
\* nothing away, none fails in the bot: an assertion can only be met by a piece
\* of a line, and pieces come of loss.
THEOREM AbortsByLossOnly ==
  ASSUME WholeLinesHandled
  PROVE  Spec => []AbortsOnlyAfterLoss
<1>1. IInv => AbortsOnlyAfterLoss
  <2> SUFFICES ASSUME IInv, pc = "aborted", lost = {} PROVE FALSE
    BY DEF AbortsOnlyAfterLoss
  <2>1. PICK h \in handled : Reads[h] = "assert"
    BY DEF IInv, FlagInv, IsLast
  <2>2. h \in Tokens /\ BeginsLine(h[1]) /\ h[2] + 1 \in Ends
    BY DEF IInv, TypeOK, TornOnlyByLoss
  <2> QED BY <2>1, <2>2, WholeLinesHandled DEF WholeLinesHandled
<1> QED BY <1>1, Invariant, PTL

-----------------------------------------------------------------------------
(* What a step may never do                                                *)

\* A quit that is the last line of its batch is obeyed before RecvMsg is called
\* again, whatever batches came before it, and WorkerRun returns, by either of its
\* two exits, for no other reason while the connection stands and once it has
\* read anything, for every stream and however TCP cuts it.
THEOREM QuitObeyed == Spec => QuitDecides
<1>1. IInv /\ [Next]_vars => [QuitStep]_vars
  <2> SUFFICES ASSUME IInv, Next PROVE QuitStep
    OBVIOUS
  <2>1. ASSUME LastQuit, pc = "wait" PROVE pc' # "recv"
    <3>1. ~r
      BY <2>1 DEF LastQuit, IInv, FlagInv, IsLast
    <3> QED BY <2>1, <3>1 DEF Next, WorkerStep, Register, CallbackRuns, LeaveLoop, RecvData,
              RecvAgain, RecvEof, RecvError, HandleLine, BatchDone, Arrive, PeerCloses,
              Finished, Ended
  <2>2. ASSUME ~Returned, Returned' PROVE LeaveLoop \/ (Register /\ pc = "register")
    <3>1. CASE RecvData \/ RecvAgain \/ RecvEof \/ RecvError
      <4>1. pc' \in {"recv", "batch", "wait"}
        BY <3>1 DEF RecvData, RecvAgain, RecvEof, RecvError, ReturnLines, ReturnNothing
      <4> QED BY <2>2, <4>1 DEF Returned
    <3>2. CASE HandleLine \/ BatchDone \/ CallbackRuns
      <4>1. pc' \in {"batch", "aborted", "wait", "recv"}
        BY <3>2 DEF HandleLine, BatchDone, CallbackRuns
      <4> QED BY <2>2, <4>1 DEF Returned
    <3>3. CASE PeerCloses \/ Finished \/ \E n \in 1..N : Arrive(n)
      <4>1. pc' = pc
        BY <3>3 DEF PeerCloses, Finished, Arrive, vars
      <4> QED BY <2>2, <4>1 DEF Returned
    <3>4. CASE Register
      BY <3>4 DEF Register
    <3> QED BY <3>1, <3>2, <3>3, <3>4 DEF Next, WorkerStep
  <2>3. ASSUME LeaveLoop PROVE QuitRead(lost = {})
    <3>1. PICK h \in handled : Reads[h] = "quit"
      BY <2>3 DEF LeaveLoop, IInv, FlagInv, IsLast
    <3>2. lost = {} => BeginsLine(h[1])
      BY DEF IInv, TornOnlyByLoss
    <3> QED BY <3>1, <3>2 DEF QuitRead
  <2>4. pc = "register" => pos = 0
    BY DEF IInv, FlagInv, IsLast
  <2> QED BY <2>1, <2>2, <2>3, <2>4 DEF QuitStep
<1> QED BY <1>1, Invariant, PTL DEF Spec, QuitDecides

\* Nothing that was handled or thrown away comes back, and what is handled or
\* thrown away now was sent behind everything that was handled before: no line is
\* handled twice and none overtakes another, however TCP cuts the stream.
InOrder ==
  /\ handled \subseteq handled' /\ lost \subseteq lost'
  /\ \A h \in handled' \ handled, k \in handled : k[2] < h[1]
  /\ \A x \in lost' \ lost, k \in handled : k[2] < x

\* RecvMsg throws away only what lies behind its buffer's beginning.
LEMMA LostInOrder ==
  ASSUME IInv, RecvData \/ RecvAgain \/ RecvEof \/ RecvError
  PROVE  InOrder
<1>1. pc = "recv" /\ handled' = handled
  BY DEF RecvData, RecvAgain, RecvEof, RecvError
<1>2. /\ start \in Nat /\ pos \in Nat /\ start <= pos /\ pos <= arrived /\ arrived \in Nat
      /\ MaxRecv \in Nat \ {0} /\ \A k \in handled : k[2] \in Nat /\ k[2] <= start
  BY <1>1, Ranges, RecvAssumption DEF IInv, HandledInv
<1>3. ASSUME NEW p \in Nat, start <= p, ReturnLines(p)
      PROVE  lost \subseteq lost' /\ \A x \in lost' \ lost : x \in Int /\ start < x
  <2>1. LastNewline(p) \in Nat /\ start <= LastNewline(p)
    BY <1>2, <1>3, LastNewlineFound
  <2>2. lost' = lost \cup (LastNewline(p) + 1)..p
    BY <1>3 DEF ReturnLines
  <2> QED BY <1>2, <2>1, <2>2
<1>4. ASSUME ReturnNothing
      PROVE  lost \subseteq lost' /\ \A x \in lost' \ lost : x \in Int /\ start < x
  BY <1>2, <1>4 DEF ReturnNothing
<1>5. lost \subseteq lost' /\ \A x \in lost' \ lost : x \in Int /\ start < x
  <2>1. CASE RecvData
    <3>1. PICK p \in Nat : /\ start <= p
                           /\ ReturnLines(p) \/ UNCHANGED lost
      BY <1>2, <2>1 DEF RecvData
    <3> QED BY <1>3, <3>1
  <2>2. CASE RecvAgain
    BY <1>2, <1>3, <1>4, <2>2 DEF RecvAgain
  <2>3. CASE RecvEof \/ RecvError
    BY <1>4, <2>3 DEF RecvEof, RecvError
  <2> QED BY <2>1, <2>2, <2>3
<1> QED BY <1>1, <1>2, <1>5 DEF InOrder

\* ProcessMessageLine gets the lines in the order of the stream, each once, and
\* what RecvMsg throws away lies behind all that was handled before.
THEOREM HandledInOrder == Spec => [][InOrder]_vars
<1>1. IInv /\ [Next]_vars => [InOrder]_vars
  <2> SUFFICES ASSUME IInv, Next PROVE InOrder
    OBVIOUS
  <2>1. CASE HandleLine
    <3>1. lost' = lost /\ handled \subseteq handled'
      BY <2>1 DEF HandleLine
    <3>2. ASSUME NEW h \in handled' \ handled PROVE h[1] = next
      BY <2>1 DEF HandleLine
    <3>3. InBatch
      BY <2>1 DEF HandleLine, InBatch
    <3> QED BY <3>1, <3>2, <3>3 DEF InOrder, IInv, HandledInv
  <2>2. CASE RecvData \/ RecvAgain \/ RecvEof \/ RecvError
    BY <2>2, LostInOrder
  <2>3. CASE \/ Register \/ CallbackRuns \/ LeaveLoop \/ BatchDone \/ Finished
             \/ PeerCloses \/ \E n \in 1..N : Arrive(n)
    <3>1. lost' = lost /\ handled' = handled
      BY <2>3 DEF Register, CallbackRuns, LeaveLoop, BatchDone, Finished, PeerCloses, Arrive,
                  done, vars
    <3> QED BY <3>1 DEF InOrder
  <2> QED BY <2>1, <2>2, <2>3 DEF Next, WorkerStep
<1> QED BY <1>1, Invariant, PTL DEF Spec
=============================================================================
