---------------------------- MODULE ResponsesStream ----------------------------
(***************************************************************************)
(* What a Responses stream promises the Codex client, and nothing of how   *)
(* the translator keeps it: output items are announced in index order,     *)
(* each announced item is finished at most once, and the stream is only    *)
(* declared over when every announced item is finished.  A client that     *)
(* goes away is promised nothing more.                                     *)
(***************************************************************************)
EXTENDS Integers

VARIABLES
  announced,  \* the items announced so far are 0 .. announced - 1
  finished,   \* the items the client has seen finished
  status      \* "open", "completed", "failed", or "gone" for a lost client

vars == <<announced, finished, status>>

Init == announced = 0 /\ finished = {} /\ status = "open"

\* One turn of the translator may finish some items and announce others.
Progress ==
  /\ status = "open"
  /\ status' = "open"
  /\ announced' >= announced
  /\ finished \subseteq finished'
  /\ finished' \subseteq 0 .. (announced' - 1)

End ==
  /\ status = "open"
  /\ finished = 0 .. (announced - 1)
  /\ status' \in {"completed", "failed"}
  /\ UNCHANGED <<announced, finished>>

Lose ==
  /\ status = "open"
  /\ status' = "gone"
  /\ UNCHANGED <<announced, finished>>

Next == Progress \/ End \/ Lose

Spec == Init /\ [][Next]_vars
================================================================================
