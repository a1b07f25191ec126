----------------------------- MODULE LeaseQueue -----------------------------
(***************************************************************************)
(* What a leased work queue promises, whatever tables, clocks and handlers *)
(* implement it: an item is worked on under one token at a time, only an   *)
(* answer that carries that token finishes it, and a lease that is not     *)
(* answered goes back to the queue.  Answers are bearer messages: they     *)
(* come and go freely, late, twice or never.                               *)
(***************************************************************************)
CONSTANTS Item, Token, NoToken

VARIABLES
  state,    \* of each item: "absent", "idle", "held" or "finished"
  holder,   \* the token each item is held under
  answers   \* the tokens some worker is answering with

vars == <<state, holder, answers>>

TypeOK ==
  /\ state \in [Item -> {"absent", "idle", "held", "finished"}]
  /\ holder \in [Item -> Token \cup {NoToken}]
  /\ answers \subseteq Token

Init ==
  /\ state = [i \in Item |-> "absent"]
  /\ holder = [i \in Item |-> NoToken]
  /\ answers = {}

Becomes(i, s, t) == state'[i] = s /\ holder'[i] = t

Add(i) == state[i] = "absent" /\ Becomes(i, "idle", NoToken)
Grant(i) == state[i] = "idle" /\ state'[i] = "held" /\ holder'[i] \in Token
Finish(i) == /\ state[i] = "held" /\ holder[i] \in answers
             /\ Becomes(i, "finished", NoToken)
Release(i) == state[i] = "held" /\ Becomes(i, "idle", NoToken)
Revive(i) == state[i] = "finished" /\ Becomes(i, "idle", NoToken)
Keep(i) == Becomes(i, state[i], holder[i])

\* One transaction of the implementation may move many items, each by a step
\* of its own.
Next ==
  /\ \A i \in Item : Add(i) \/ Grant(i) \/ Finish(i) \/ Release(i) \/ Revive(i) \/ Keep(i)
  /\ state' \in [Item -> {"absent", "idle", "held", "finished"}]
  /\ holder' \in [Item -> Token \cup {NoToken}]
  /\ answers' \subseteq Token

Spec == Init /\ [][Next]_vars
=============================================================================
