----------------------------- MODULE WorkerPool -----------------------------
(***************************************************************************)
(* The registry as one worker meets it: whether it is banned, its leases,  *)
(* its requests from the check of its token to their effect, the           *)
(* sweeper, and the operator's commands.  Time is what is left of a lease, *)
(* so that nothing grows for ever.                                         *)
(***************************************************************************)
EXTENDS Integers, FiniteSets

CONSTANTS
  Job,                      \* rows of the queue the worker's program reserves from
  LeaseTTL, HeartbeatExtend,  \* in ticks of the model
  Batch,                    \* what a reserve asks for
  None                      \* SQL NULL, "no value"

\* Bounds of the model: tokens of each job that somebody still knows; requests that
\* were let in and have not had their effect; requests nobody waits for.
CONSTANTS Names, AdmittedBound, StaleBound

Token == Job \X (1..Names)
\* A failure is reported as worth a retry or as final.
Post == {"result", "retry", "final"}
Step == {"first", "second"}
Place == {"none", "batch", "channel", "done", "post"} \cup Step

ASSUME PoolAssumption ==
  /\ IsFiniteSet(Job)
  /\ LeaseTTL \in Nat \ {0} /\ HeartbeatExtend \in Nat \ {0} /\ Batch \in Nat \ {0}
  /\ None \notin Token /\ Names \in Nat \ {0}
  /\ AdmittedBound \in Nat \ {0} /\ StaleBound \in Nat \ {0}

VARIABLES
  banned,     \* its row's ban
  row,        \* the rows of the queue
  calls,      \* its requests that the registry has not finished
  hand,       \* where in the program each token is
  loop        \* where the program's loop is

poolVars == <<banned, row, calls, hand, loop>>

\* left: ticks until the lease expires; signed: until the token itself does.
Row == [status : {"pending", "leased", "settled"}, token : Token \cup {None},
        left : Nat, signed : Nat]
\* waited: the program waits for the answer; admitted: PATAuth has let it in.
Call == [verb : {"reserve", "heartbeat"} \cup Post, token : Token \cup {None},
         admitted : BOOLEAN, waited : BOOLEAN]
Loop == {"top", "asked", "handing", "draining", "exited"}

PoolTypeOK ==
  /\ banned \in BOOLEAN
  /\ row \in [Job -> Row]
  /\ calls \subseteq Call
  /\ hand \in [Token -> Place]
  /\ loop \in Loop

FreeRow == [status |-> "pending", token |-> None, left |-> 0, signed |-> 0]
Settled == [FreeRow EXCEPT !.status = "settled"]

PoolInit ==
  /\ banned = FALSE
  /\ row = [j \in Job |-> FreeRow]
  /\ calls = {}
  /\ hand = [t \in Token |-> "none"] /\ loop = "top"

InHand == {t \in Token : hand[t] # "none"}

-----------------------------------------------------------------------------
(***************************************************************************)
(* Requests.                                                               *)
(***************************************************************************)

Held == {j \in Job : row[j].status = "leased"}

\* PATAuth.  Capabilities and max_concurrent are left to the modules of the queues.
RefusesPosts(c) == banned /\ c.verb # "reserve"
Refuses(c) == banned

Admitted == {c \in calls : c.admitted}

\* A request is let in; what it does it does later, whoever is banned meanwhile.
Admit(c) ==
  /\ ~c.admitted /\ ~Refuses(c) /\ Cardinality(Admitted) < AdmittedBound
  /\ calls' = (calls \ {c}) \cup {[c EXCEPT !.admitted = TRUE]}
  /\ UNCHANGED <<banned, row, hand, loop>>

\* A token is as good as new when nobody knows it any more.
Used == InHand \cup {row[j].token : j \in Job} \cup {c.token : c \in calls}
FreshFor(j) == {t \in Token : t[1] = j /\ t \notin Used}
NewToken(j) == CHOOSE t \in FreshFor(j) : TRUE

LeasedByJob(t) == [status |-> "leased", token |-> t[1], left |-> LeaseTTL, signed |-> LeaseTTL]
Leased(t) == [status |-> "leased", token |-> t, left |-> LeaseTTL, signed |-> LeaseTTL]

\* A reserve leases a batch of the pending rows, and fewer only when there are no more.
MayLease == {j \in Job : row[j].status = "pending" /\ FreshFor(j) # {}}
Grants == {J \in SUBSET MayLease : \/ Cardinality(J) = Batch
                                   \/ Cardinality(J) < Batch /\ J = MayLease}

\* The answer of a reserve reaches the loop, or the program has given it up, or the
\* loop sees an error; without jobs it sleeps and begins again.
LoopHears(c, tokens) ==
  IF ~c.waited THEN UNCHANGED <<hand, loop>>
  ELSE /\ hand' = [t \in Token |-> IF t \in tokens THEN "batch" ELSE hand[t]]
       /\ loop' = IF tokens = {} THEN "top" ELSE "handing"

\* J is leased; told is whether the answer arrives.
Grant(c, J, told) ==
  /\ c.verb = "reserve" /\ c.admitted
  /\ J \in Grants
  /\ row' = [j \in Job |-> IF j \in J THEN Leased(NewToken(j)) ELSE row[j]]
  /\ calls' = calls \ {c}
  /\ LoopHears(c, IF told THEN {NewToken(j) : j \in J} ELSE {})
  /\ UNCHANGED <<banned>>

\* The token's signature is still in time, and the row's lease is this token.
InTime(t) == row[t[1]].token = t /\ row[t[1]].signed > 0
Holds(t) == row[t[1]].status = "leased" /\ InTime(t)

\* What a request makes of its row.
Verdict(verb, r) ==
  CASE verb = "heartbeat" -> {[r EXCEPT !.left = HeartbeatExtend]}
    [] verb \in {"result", "final"} -> {Settled}
    [] verb = "retry" -> {FreeRow, Settled}

\* The program only logs what a post answers, and has done with the job.
PostHeardOfResults(c) ==
  hand' = IF c.waited /\ c.verb = "result" THEN [hand EXCEPT ![c.token] = "none"] ELSE hand
PostHeard(c) ==
  hand' = IF c.waited /\ c.verb \in Post THEN [hand EXCEPT ![c.token] = "none"] ELSE hand

\* A heartbeat or a post that was let in: one whose token does not hold changes
\* nothing.
Answer(c) ==
  /\ c.verb # "reserve" /\ c.admitted
  /\ IF Holds(c.token)
       THEN \E r \in Verdict(c.verb, row[c.token[1]]) : row' = [row EXCEPT ![c.token[1]] = r]
       ELSE UNCHANGED row
  /\ calls' = calls \ {c}
  /\ PostHeard(c)
  /\ UNCHANGED <<banned, loop>>

\* The request is refused, or gets lost, or its handler ends early.
CallEnds(c) ==
  /\ calls' = calls \ {c}
  /\ IF c.verb = "reserve" THEN LoopHears(c, {}) ELSE PostHeard(c) /\ UNCHANGED loop
  /\ UNCHANGED <<banned, row>>

Serve(c) == \/ Admit(c) \/ Answer(c) \/ CallEnds(c)
            \/ \E J \in SUBSET Job, told \in BOOLEAN : Grant(c, J, told)

-----------------------------------------------------------------------------
(***************************************************************************)
(* The clock, the sweeper and the operator.                                *)
(***************************************************************************)

Less(n) == IF n > 0 THEN n - 1 ELSE 0

Tick ==
  /\ \E j \in Job : row[j].left > 0 \/ row[j].signed > 0
  /\ row' = [j \in Job |-> [row[j] EXCEPT !.left = Less(@), !.signed = Less(@)]]
  /\ UNCHANGED <<banned, calls, hand, loop>>

Expired(j) == row[j].status = "leased" /\ row[j].left = 0

Sweep ==
  /\ \E j \in Job : Expired(j)
  /\ row' = [j \in Job |-> IF Expired(j) THEN FreeRow ELSE row[j]]
  /\ UNCHANGED <<banned, calls, hand, loop>>

\* ban; with --release it is followed by a release.
Ban ==
  /\ banned' = TRUE
  /\ UNCHANGED <<row, calls, hand, loop>>

Unban ==
  /\ banned' = FALSE
  /\ UNCHANGED <<row, calls, hand, loop>>

\* The queue's UPDATE of release-worker; one that fails changes nothing.
Release ==
  /\ row' = [j \in Job |-> IF j \in Held THEN FreeRow ELSE row[j]]
  /\ UNCHANGED <<banned, calls, hand, loop>>

Operator == Ban \/ Unban \/ Release
=============================================================================
