------------------------------- MODULE Worker -------------------------------
(***************************************************************************)
(* WorkerRun's event loop on one connection: RecvMsg collects what the     *)
(* kernel has, cuts it after the last newline, TokenizeMessageMultiple     *)
(* splits it into lines and ProcessMessageLine (module IRCMessage) handles *)
(* them one by one.  TCP delivers the stream in pieces of any size, so a   *)
(* line may be split between two calls of recv, or of RecvMsg.             *)
(*                                                                         *)
(* Everything the program holds is an interval of the stream: the kernel   *)
(* has pos+1..arrived, RecvMsg's buffer is start+1..pos, the batch is      *)
(* next..stop.  Assertions are those of the debug build.                   *)
(***************************************************************************)
EXTENDS IRCMessage, FiniteSets

CONSTANTS
  Stream,     \* what the IRC server sends: symbols of IRCMessage, CR and LF
  MaxRecv,    \* how much one recv returns (4096 bytes)
  Tries       \* how often RecvMsg tries again (5)

ASSUME RecvAssumption ==
  Stream \in Seq(STRING) /\ MaxRecv \in Nat \ {0} /\ Tries \in Nat

VARIABLES
  arrived,    \* the kernel has received the stream up to here
  eof,        \* the peer has closed the connection
  pc,         \* where WorkerRun is
  pos,        \* recv has returned the stream up to here
  start,      \* where RecvMsg's buffer began
  tries,      \* RecvMsg's local of that name
  next,       \* first position of the batch not handled yet
  stop,       \* last position of the batch
  r,          \* WorkerRun's flag: go on
  lost,       \* positions received and thrown away
  handled     \* pieces handled, as pairs of first and last position

stream == <<arrived, eof>>
buffer == <<pos, start, tries>>
batch  == <<next, stop>>
done   == <<lost, handled>>
vars == <<stream, pc, buffer, batch, r, done>>

PCs == {"register", "wait", "recv", "batch", "done", "failed", "aborted"}
Ended == pc \in {"done", "failed", "aborted"}

N == Len(Stream)
Newlines == {i \in 1..N : Stream[i] = "LF"}
Ends     == {i \in 1..N : Stream[i] \in {"CR", "LF"}}
Text     == (1..N) \ Ends

\* A piece that begins at i begins with a line.
BeginsLine(i) == i = 1 \/ i - 1 \in Ends

-----------------------------------------------------------------------------
(* The connection                                                          *)

Arrive(n) ==
  /\ ~eof
  /\ arrived + n <= N
  /\ arrived' = arrived + n
  /\ UNCHANGED <<eof, pc, buffer, batch, r, done>>

PeerCloses ==
  /\ ~eof
  /\ eof' = TRUE
  /\ UNCHANGED <<arrived, pc, buffer, batch, r, done>>

-----------------------------------------------------------------------------
(* The worker                                                              *)

\* WorkerRun registers the socket and does not look at the result: without a
\* registration epoll_wait has no events to wait for and fails.
Register ==
  /\ pc = "register"
  /\ pc' \in {"wait", "failed"}
  /\ UNCHANGED <<stream, buffer, batch, r, done>>

\* Mutant: edge-triggered, and the edge of the data was seen before.
ReadableAtEof == eof

\* Level-triggered: there is something to read, or the peer has closed.
Readable == pos < arrived \/ eof

\* RunEventLoop calls the callback, which calls RecvMsg.
CallbackRuns ==
  /\ pc = "wait"
  /\ r
  /\ Readable
  /\ pc' = "recv"
  /\ start' = pos
  /\ tries' = Tries
  /\ UNCHANGED <<stream, pos, batch, r, done>>

\* The loop of WorkerRun ends when the flag is down.
LeaveLoop ==
  /\ pc = "wait"
  /\ ~r
  /\ pc' = "done"
  /\ UNCHANGED <<stream, buffer, batch, r, done>>

\* Mutant: the buffer is returned as it is.
WholeBuffer(p) == p

\* The last newline in the buffer start+1..p, start if there is none.
LastNewline(p) ==
  CHOOSE i \in start..p :
    (i = start \/ i \in Newlines) /\ \A j \in (i + 1)..p : j \notin Newlines

\* RecvMsg returns the buffer up to its last newline; the rest is gone.
ReturnLines(p) ==
  /\ next' = start + 1
  /\ stop' = LastNewline(p)
  /\ lost' = lost \cup (LastNewline(p) + 1)..p
  /\ pc' = "batch"

\* RecvMsg returns "": all that was read is gone.
ReturnNothing ==
  /\ pc' = "wait"
  /\ lost' = lost \cup (start + 1)..pos
  /\ UNCHANGED batch

\* The loop of RecvMsg ends at a newline or after Tries more turns.
StopsAt(p) == p \in Newlines \/ tries = 0

\* recv returns what the kernel has, at most MaxRecv.
RecvData ==
  LET p == IF arrived - pos < MaxRecv THEN arrived ELSE pos + MaxRecv
  IN /\ pc = "recv"
     /\ pos < arrived
     /\ pos' = p
     /\ \/ StopsAt(p) /\ ReturnLines(p)
        \/ ~StopsAt(p) /\ UNCHANGED <<pc, batch, lost>>
     /\ tries' = tries - 1
     /\ UNCHANGED <<stream, start, r, handled>>

\* EAGAIN: what was read so far is returned.
RecvAgain ==
  /\ pc = "recv"
  /\ pos = arrived /\ ~eof
  /\ IF pos = start THEN ReturnNothing ELSE ReturnLines(pos)
  /\ UNCHANGED <<stream, buffer, r, handled>>

\* recv returns 0 at the end of the stream.
RecvEof ==
  /\ pc = "recv"
  /\ pos = arrived /\ eof
  /\ ReturnNothing
  /\ UNCHANGED <<stream, buffer, r, handled>>

\* Any other error of recv: the connection was reset, which a socket reports
\* once, behind the data it has, and then reads as closed.
RecvError ==
  /\ pc = "recv"
  /\ pos = arrived /\ ~eof
  /\ eof' = TRUE
  /\ ReturnNothing
  /\ UNCHANGED <<arrived, buffer, r, handled>>

\* The tokens a batch may have, as pairs of first and last position, and what
\* ProcessMessageLine makes of each.
Tokens == {h \in (1..N) \X (1..N) : h[1] <= h[2] /\ h[1]..h[2] \subseteq Text}
Reads  == [h \in Tokens |-> ProcessMessageLine(SubSeq(Stream, h[1], h[2])).handler]

\* Mutant: the callback captures the flag by copy.
SetsCopy(outcome) == UNCHANGED r

\* r = ProcessMessageLine(...): the flag of an earlier line is overwritten.
SetsFlag(outcome) == r' = (outcome # "quit")

\* Where the token of the batch that begins at next ends.
TokenEnd ==
  CHOOSE i \in next..(stop + 1) :
    (i = stop + 1 \/ i \in Ends) /\ \A j \in next..(i - 1) : j \notin Ends

\* Mutant: every line is taken to end in CR and LF.
BehindCRLF(end) == end + 2

\* strtok_r goes on behind the one character that ends the token.
BehindToken(end) == end + 1

\* The next token of the batch; strtok_r skips empty ones.
HandleLine ==
  /\ pc = "batch"
  /\ next <= stop
  /\ LET end == TokenEnd
     IN /\ next' = BehindToken(end)
        /\ \/ /\ end = next
              /\ UNCHANGED <<pc, r, handled>>
           \/ /\ end # next
              /\ handled' = handled \cup {<<next, end - 1>>}
              /\ IF Reads[<<next, end - 1>>] = "assert"
                 THEN pc' = "aborted" /\ UNCHANGED r
                 ELSE SetsFlag(Reads[<<next, end - 1>>]) /\ UNCHANGED pc
  /\ UNCHANGED <<stream, buffer, stop, lost>>

BatchDone ==
  /\ pc = "batch"
  /\ next > stop
  /\ pc' = "wait"
  /\ UNCHANGED <<stream, buffer, batch, r, done>>

-----------------------------------------------------------------------------
Init ==
  /\ arrived = 0 /\ eof = FALSE
  /\ pc = "register"
  /\ pos = 0 /\ start = 0 /\ tries = Tries
  /\ next = 1 /\ stop = 0
  /\ r = TRUE
  /\ lost = {} /\ handled = {}

WorkerStep ==
  \/ Register \/ CallbackRuns \/ LeaveLoop
  \/ RecvData \/ RecvAgain \/ RecvEof
  \/ HandleLine \/ BatchDone

Finished == Ended /\ UNCHANGED vars

Next ==
  \/ WorkerStep
  \/ RecvError
  \/ \E n \in 1..N : Arrive(n)
  \/ PeerCloses
  \/ Finished

\* The worker's thread is scheduled; nothing makes data arrive or recv fail.
Spec == Init /\ [][Next]_vars /\ WF_vars(WorkerStep)

-----------------------------------------------------------------------------
(* Properties                                                              *)

\* Every variable stays in its type, and the intervals lie as they should.
TypeOK ==
  /\ arrived \in 0..N /\ eof \in BOOLEAN
  /\ pc \in PCs
  /\ pos \in 0..arrived /\ start \in 0..pos
  /\ tries \in -1..Tries
  /\ next \in 1..(N + 2) /\ stop \in 0..pos
  /\ r \in BOOLEAN
  /\ lost \subseteq 1..N
  /\ handled \subseteq Tokens

Covered  == UNION {h[1]..h[2] : h \in handled}
Buffered == IF pc = "recv" THEN (start + 1)..pos ELSE {}
Batched  == IF pc \in {"batch", "aborted"} THEN next..stop ELSE {}

\* Every byte of text that recv returned is accounted for exactly once: it was
\* handled as part of one line, or thrown away, or it is in the buffer or in
\* the rest of the batch.
TextAccountedFor ==
  /\ Text \cap (1..pos) = Text \cap (Covered \cup lost \cup Buffered \cup Batched)
  /\ Covered \cap lost = {}
  /\ (Covered \cup lost) \cap (Buffered \cup Batched) = {}
  /\ \A h, k \in handled : h # k => (h[1]..h[2]) \cap (k[1]..k[2]) = {}

\* The intervals of the stream lie as they should and leave no gap.
StreamInv == TypeOK /\ TextAccountedFor

\* What is handled ends where a line ends, and it is a whole line unless the
\* text just before it was thrown away: the stream is never torn otherwise.
TornOnlyByLoss ==
  \A h \in handled :
    /\ h[2] + 1 \in Ends
    /\ BeginsLine(h[1]) \/ h[1] - 1 \in lost

QuitRead(whole) ==
  \E h \in handled : Reads[h] = "quit" /\ (whole => BeginsLine(h[1]))

\* The piece handled last reads like a quit.
LastQuit ==
  \E h \in handled : Reads[h] = "quit" /\ \A k \in handled : k[2] <= h[2]

Returned == pc \in {"done", "failed"}

\* A quit that is the last line of its batch is obeyed: WorkerRun never calls
\* RecvMsg behind it, whatever is left to read.  And WorkerRun returns for nothing
\* else: a worker that has read anything of a connection that still stands has
\* read a quit, a whole line if nothing was thrown away; an epoll_wait that fails
\* for want of a registration does so before anything was read.
QuitStep ==
  /\ LastQuit /\ pc = "wait" => pc' # "recv"
  /\ ~Returned /\ Returned' => QuitRead(lost = {}) \/ pos = 0 \/ eof
QuitDecides == [][QuitStep]_vars

\* What the IRC server sends is well-formed: a whole line of it fails no assertion.
WholeLinesHandled ==
  \A h \in Tokens : BeginsLine(h[1]) /\ h[2] + 1 \in Ends => Reads[h] # "assert"

\* A server that sends well-formed messages brings the bot down only with the
\* help of RecvMsg: while nothing was thrown away no assertion fails.
AbortsOnlyAfterLoss == pc = "aborted" => lost # {}

\* Nothing is left lying in the kernel: again and again the worker has read all
\* that has arrived, unless it stops.
EverythingRead == []<>(pos = arrived \/ Ended)

\* What the assertions on the source of a NICK or PRIVMSG message say (IRC.cc:191
\* and 201): they come from a user.
SourceAssertsHold == pc # "aborted"

\* What the comment in ProcessMessageLine says: termination is handled early.
\* After a line that asks to quit the worker handles no further batch.
QuitStopsWorker == [][QuitRead(TRUE) /\ pc = "wait" => pc' # "recv"]_vars
=============================================================================
