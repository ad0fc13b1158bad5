----------------------------- MODULE ServerPool -----------------------------
(***************************************************************************)
(* What the server threads promise, without threads: every connection is   *)
(* opened by main, served and closed once, the process exits when the last *)
(* one is closed and not before, or it dies.                               *)
(***************************************************************************)
CONSTANT Servers

VARIABLES
  state,    \* of each connection: "waiting", "serving" or "closed"
  process   \* "running", "exited" or "died"

vars == <<state, process>>

Init ==
  /\ state = [s \in Servers |-> "waiting"]
  /\ process = "running"

Move(s, from, to) ==
  /\ process = "running"
  /\ state[s] = from
  /\ state' = [state EXCEPT ![s] = to]
  /\ UNCHANGED process

Launch(s) == Move(s, "waiting", "serving")
Close(s)  == Move(s, "serving", "closed")

Exit ==
  /\ process = "running"
  /\ \A s \in Servers : state[s] = "closed"
  /\ process' = "exited"
  /\ UNCHANGED state

Die ==
  /\ process = "running"
  /\ process' = "died"
  /\ UNCHANGED state

Next == (\E s \in Servers : Launch(s) \/ Close(s)) \/ Exit \/ Die

\* The process does not outlive its connections.
Spec == Init /\ [][Next]_vars /\ WF_vars(Exit)
=============================================================================
