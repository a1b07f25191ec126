--------------------------- MODULE FrontierQueue ----------------------------
(***************************************************************************)
(* The crawl frontier as a leased work queue.                              *)
(***************************************************************************)
EXTENDS Frontier

ItemState(s) == CASE s = "absent" -> "absent"
                  [] s = "queued" -> "idle"
                  [] s = "leased" -> "held"
                  [] s \in Settled -> "finished"

Queue == INSTANCE LeaseQueue WITH
  Item <- URL, NoToken <- None,
  state <- [u \in URL |-> ItemState(row[u].status)],
  holder <- [u \in URL |-> row[u].token],
  answers <- {c.token : c \in answering}

\* Every behaviour of the frontier is one of the abstract queue: however
\* handlers, sweeps and requeues interleave, a URL is crawled under one token
\* at a time and is finished only by an answer carrying it.
ImplementsLeaseQueue == Queue!Spec
=============================================================================
