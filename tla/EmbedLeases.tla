---------------------------- MODULE EmbedLeases -----------------------------
(***************************************************************************)
(* The embedding queue as a leased work queue.  A chunk that rechunk has   *)
(* deleted is an item that nobody is granted again.                        *)
(***************************************************************************)
EXTENDS EmbedQueue

ItemState(s) == CASE s = "absent" -> "absent"
                  [] s \in {"pending", "deleted"} -> "idle"
                  [] s = "leased" -> "held"
                  [] s \in Settled -> "finished"

Queue == INSTANCE LeaseQueue WITH
  Item <- Id, NoToken <- None,
  state <- [i \in Id |-> ItemState(chunk[i].status)],
  holder <- [i \in Id |-> chunk[i].token],
  answers <- {c.token : c \in answering}

\* Every behaviour of the embedding queue is one of the abstract queue: however
\* results, failures, sweeps, requeues and rechunk interleave, a chunk is embedded
\* under one token at a time and marked only by a result carrying it.
ImplementsLeaseQueue == Queue!Spec
=============================================================================
