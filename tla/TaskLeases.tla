----------------------------- MODULE TaskLeases -----------------------------
(***************************************************************************)
(* The processing queue as a leased work queue: the rows that external     *)
(* workers handle.  A row the pipeline handles is none of its items.       *)
(***************************************************************************)
EXTENDS TaskQueue

ItemState(r) == IF r.kind \in Internal THEN "absent"
                ELSE CASE r.status = "absent" -> "absent"
                       [] r.status = "queued" -> "idle"
                       [] r.status = "running" -> "held"
                       [] r.status \in Settled -> "finished"

Queue == INSTANCE LeaseQueue WITH
  Item <- Id, NoToken <- None,
  state <- [i \in Id |-> ItemState(job[i])],
  holder <- [i \in Id |-> job[i].token],
  answers <- {c.token : c \in answering}

\* Every behaviour of the processing queue is one of the abstract queue: however
\* results, fails, sweeps, requeues and the pipeline interleave, an external task
\* is worked on under one token at a time and settled only by an answer carrying
\* it.
ImplementsLeaseQueue == Queue!Spec
=============================================================================
