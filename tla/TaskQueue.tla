------------------------------ MODULE TaskQueue -----------------------------
(***************************************************************************)
(* The processing queue: table processing_jobs with its two consumers.     *)
(* External workers lease rows over HTTP and answer with a text, a blob or *)
(* a failure; the registry's own pipeline goroutine claims rows without a  *)
(* lease.  Both store what they extracted before they settle the row, and  *)
(* a stored blob announces further work.                                   *)
(*                                                                         *)
(* The database is SQLite, whose one writer makes every transaction a      *)
(* step.  A handler runs several of them, and may die between any two.     *)
(***************************************************************************)
EXTENDS Integers, FiniteSets

CONSTANTS
  Object, Crawled,          \* lake objects; those the crawl has stored
  OutputOf,                 \* the object that converting an object yields
  Kind, Internal,           \* processors; those the pipeline claims
  Triggered,                \* kinds the blob_produced triggers enqueue
  Followers,                \* the next processors a worker may name
  Text, Blank,              \* extracted texts; the one with nothing in it
  Worker, CapsOf,           \* workers and their stored capabilities ({}: any)
  None,                     \* SQL NULL, the zero field of a filter, "no value"
  TicksPerSecond,           \* one tick of the model is a fraction of a second
  LeaseTTL, HeartbeatExtend, MaxAttempts,
  MaxConcurrent,            \* the workers' cap on held leases, 0: unlimited
  Requests, Batches,        \* the kinds and the batch a reserve may ask for
  RequeueFilters,           \* the filters the operator requeues by
  Backfills                 \* the kinds the operator enqueues for old objects

\* Bounds of the model, none of them in the code.
CONSTANTS
  MaxJobs,                  \* rows of the table
  MaxTime, LastReserve,     \* the clock stops; no reserve begins after
  MaxCalls,                 \* calls in flight together
  LeaseBound                \* times one row is leased or claimed

Id == 1..MaxJobs
Status == {"absent", "queued", "running", "done", "failed"}
Settled == {"done", "failed"}
Token == [id : Id, worker : Worker, exp : Nat]
Filter == [status : Status \cup {None}, worker : Worker \cup {None},
           kind : Kind \cup {None}]

ASSUME ObjectAssumption ==
  /\ Crawled \subseteq Object /\ OutputOf \in [Object -> Object]
ASSUME KindAssumption ==
  /\ Internal \subseteq Kind /\ Triggered \subseteq Kind /\ Backfills \subseteq Kind
  /\ Followers \subseteq Kind \cup {None} /\ Requests \subseteq SUBSET Kind
  /\ CapsOf \in [Worker -> SUBSET Kind]
ASSUME NullAssumption ==
  /\ Blank \in Text /\ None \notin Text /\ None \notin Object /\ None \notin Kind
  /\ None \notin Worker /\ None \notin Token /\ None \notin Nat /\ None \notin Status
ASSUME NumberAssumption ==
  /\ TicksPerSecond \in Nat \ {0}
  /\ LeaseTTL \in Nat /\ HeartbeatExtend \in Nat /\ MaxAttempts \in Nat
  /\ MaxConcurrent \in Nat /\ Batches \subseteq Nat \ {0}
  /\ MaxJobs \in Nat /\ MaxTime \in Nat /\ LastReserve \in Nat
  /\ MaxCalls \in Nat /\ LeaseBound \in Nat
ASSUME FilterAssumption == RequeueFilters \subseteq Filter

VARIABLES
  now,        \* the clock
  job,        \* processing_jobs, by id
  lake,       \* the objects lake_objects has
  document,   \* extracted_documents: the text kept for an object
  chunks,     \* document_chunks: the text an object's chunks were cut from
  issued,     \* the tokens handed out so far
  reserving,  \* reserve calls in flight
  answering,  \* heartbeat, result and fail calls in flight
  chaining,   \* accepted blobs whose follow-ups are being enqueued
  working     \* the pipeline goroutine

vars == <<now, job, lake, document, chunks, issued, reserving, answering,
          chaining, working>>

Job == [object : Object \cup {None}, kind : Kind \cup {None}, status : Status,
        attempts : Nat, output : Object \cup {None}, token : Token \cup {None},
        holder : Worker \cup {None}, expires : Nat \cup {None}]
ReserveCall == [worker : Worker, kinds : SUBSET Kind, batch : Nat, at : Nat]
\* text: of a text result; stored: the blob of a blob result is in the lake.
AnswerCall == [token : Token, at : Nat, stage : {"verified", "chunks", "complete"},
               text : Text \cup {None}, stored : BOOLEAN]
Chain == [job : Id, attempt : Nat, object : Object, next : Kind \cup {None},
          todo : SUBSET Kind]
Working == [id : Id \cup {None}, text : Text \cup {None},
            stage : {"idle", "extract", "chunks", "succeeded", "failed"}]

TypeOK ==
  /\ now \in 0..MaxTime
  /\ job \in [Id -> Job]
  /\ lake \subseteq Object
  /\ document \in [Object -> Text \cup {None}]
  /\ chunks \in [Object -> Text \cup {None}]
  /\ issued \subseteq Token
  /\ reserving \subseteq ReserveCall
  /\ answering \subseteq AnswerCall
  /\ chaining \subseteq Chain
  /\ working \in Working

NoJob == [object |-> None, kind |-> None, status |-> "absent", attempts |-> 0,
          output |-> None, token |-> None, holder |-> None, expires |-> None]
Idle == [id |-> None, text |-> None, stage |-> "idle"]

Init ==
  /\ now = 0
  /\ job = [i \in Id |-> NoJob]
  /\ lake = Crawled
  /\ document = [o \in Object |-> None]
  /\ chunks = [o \in Object |-> None]
  /\ issued = {} /\ reserving = {} /\ answering = {} /\ chaining = {}
  /\ working = Idle

-----------------------------------------------------------------------------
(***************************************************************************)
(* The statements the handlers and the pipeline run.                       *)
(***************************************************************************)

Calls == Cardinality(reserving) + Cardinality(answering) + Cardinality(chaining)

\* ORDER BY id LIMIT n
Lowest(S, n) == {i \in S : Cardinality({j \in S : j < i}) < n}

\* Create: every job is a new row with the next id, whatever rows there are.
NewJob(o, k) == [NoJob EXCEPT !.object = o, !.kind = k, !.status = "queued"]
Insert(o, k) ==
  /\ \E i \in Lowest({j \in Id : job[j].status = "absent"}, 1) :
       job' = [job EXCEPT ![i] = NewJob(o, k)]

UnleasedKeepingHolder(r, s) == [r EXCEPT !.status = s, !.token = None, !.expires = None]
UnleasedKeepingStatus(r, s) == [r EXCEPT !.token = None, !.holder = None, !.expires = None]
Unleased(r, s) == [r EXCEPT !.status = s, !.token = None, !.holder = None,
                            !.expires = None]

\* The status after a failure: queued again while attempts remain.
RetriedOrSkipped(r) == IF r.attempts < MaxAttempts THEN "queued" ELSE "skipped"
Retried(r) == IF r.attempts < MaxAttempts THEN "queued" ELSE "failed"

\* The lease's HMAC expiry, compared with the clock of the handler.
Verify(t) == t \in issued /\ now <= t.exp * TicksPerSecond

\* WHERE id = ? AND status = 'running' AND lease_token = ?
HoldsAnyToken(t) == job[t.id].status = "running"
Holds(t) == job[t.id].status = "running" /\ job[t.id].token = t

Held(w) == {i \in Id : job[i].status = "running" /\ job[i].holder = w}
EffectiveBatch(w, n) ==
  LET room == MaxConcurrent - Cardinality(Held(w))
  IN  IF MaxConcurrent = 0 THEN n
      ELSE IF room < 0 THEN 0
      ELSE IF room < n THEN room ELSE n

\* InsertMany knows no conflict: it fails when an index of the document is
\* taken, and without pieces it does nothing.
Fits(o, x) == x = Blank \/ chunks[o] = None
WithChunks(o, x) == IF x = Blank THEN chunks ELSE [chunks EXCEPT ![o] = x]

-----------------------------------------------------------------------------
(***************************************************************************)
(* Reserve.                                                                *)
(***************************************************************************)

\* Only the kinds that are named are checked; none named means any kind.
MayAsk(w, K) == CapsOf[w] = {} \/ K \subseteq CapsOf[w]

ReserveBegin(w, K, n) ==
  /\ now <= LastReserve /\ Calls < MaxCalls
  /\ MayAsk(w, K) /\ EffectiveBatch(w, n) > 0
  /\ reserving' = reserving \cup
       {[worker |-> w, kinds |-> K, batch |-> EffectiveBatch(w, n), at |-> now]}
  /\ UNCHANGED <<now, job, lake, document, chunks, issued, answering, chaining, working>>

Picks(c) ==
  Lowest({i \in Id : /\ job[i].status = "queued"
                     /\ c.kinds # {} => job[i].kind \in c.kinds
                     /\ job[i].attempts < LeaseBound}, c.batch)

TokenOf(i, c) == [id |-> i, worker |-> c.worker,
                  exp |-> (c.at + LeaseTTL) \div TicksPerSecond]

Leased(r, i, c) ==
  [r EXCEPT !.status = "running", !.attempts = @ + 1, !.token = TokenOf(i, c),
            !.holder = c.worker, !.expires = c.at + LeaseTTL]

ReserveBatch(c) ==
  /\ job' = [i \in Id |-> IF i \in Picks(c) THEN Leased(job[i], i, c) ELSE job[i]]
  /\ issued' = issued \cup {TokenOf(i, c) : i \in Picks(c)}
  /\ reserving' = reserving \ {c}
  /\ UNCHANGED <<now, lake, document, chunks, answering, chaining, working>>

-----------------------------------------------------------------------------
(***************************************************************************)
(* Heartbeat, fail and the two results.                                    *)
(***************************************************************************)

AnswerBegin(t) ==
  /\ Calls < MaxCalls
  /\ Verify(t)
  /\ answering' = answering \cup
       {[token |-> t, at |-> now, stage |-> "verified", text |-> None, stored |-> FALSE]}
  /\ UNCHANGED <<now, job, lake, document, chunks, issued, reserving, chaining, working>>

Ends(c) == answering' = answering \ {c}
Goes(c, d) == answering' = (answering \ {c}) \cup {d}
ObjectOf(c) == job[c.token.id].object

Heartbeat(c) ==
  /\ c.stage = "verified"
  /\ job' = [job EXCEPT ![c.token.id].expires =
               IF Holds(c.token) THEN c.at + HeartbeatExtend ELSE @]
  /\ Ends(c)
  /\ UNCHANGED <<now, lake, document, chunks, issued, reserving, chaining, working>>

\* Fail looks at the token and not at the status.
FailsAnyway(c) == TRUE
Fails(c) == job[c.token.id].token = c.token

Fail(c, retryable) ==
  /\ c.stage = "verified"
  /\ job' = [job EXCEPT ![c.token.id] =
               IF Fails(c) THEN Unleased(@, IF retryable THEN Retried(@) ELSE "failed")
                           ELSE @]
  /\ Ends(c)
  /\ UNCHANGED <<now, lake, document, chunks, issued, reserving, chaining, working>>

\* AcceptText: Extractions.Upsert, Chunks.InsertMany, Processing.Complete.
UpsertText(c, x) ==
  /\ c.stage = "verified"
  /\ document' = [document EXCEPT ![ObjectOf(c)] = x]
  /\ Goes(c, [c EXCEPT !.stage = "chunks", !.text = x])
  /\ UNCHANGED <<now, job, lake, chunks, issued, reserving, chaining, working>>

InsertChunks(c) ==
  /\ c.stage = "chunks"
  /\ IF Fits(ObjectOf(c), c.text)
       THEN /\ chunks' = WithChunks(ObjectOf(c), c.text)
            /\ Goes(c, [c EXCEPT !.stage = "complete"])
       ELSE UNCHANGED chunks /\ Ends(c)
  /\ UNCHANGED <<now, job, lake, document, issued, reserving, chaining, working>>

\* AcceptBlob: Blobs.Put and Lake.Insert, Processing.Complete.
StoreOutput(c) ==
  /\ c.stage = "verified"
  /\ lake' = lake \cup {OutputOf[ObjectOf(c)]}
  /\ Goes(c, [c EXCEPT !.stage = "complete", !.stored = TRUE])
  /\ UNCHANGED <<now, job, document, chunks, issued, reserving, chaining, working>>

ReadyAtOnce(c) == TRUE
Ready(c) == c.stage = "complete"

OutputOfCall(c) == IF c.stored THEN OutputOf[ObjectOf(c)] ELSE None

\* A refused completion chains nothing.
Complete(c) ==
  /\ Ready(c)
  /\ job' = [job EXCEPT ![c.token.id] =
               IF Holds(c.token)
                 THEN [Unleased(@, "done") EXCEPT !.output = OutputOfCall(c)]
                 ELSE @]
  /\ IF Holds(c.token) /\ c.stored
       THEN \E next \in Followers :
              chaining' = chaining \cup
                {[job |-> c.token.id, attempt |-> job[c.token.id].attempts,
                  object |-> OutputOfCall(c), next |-> next, todo |-> Triggered]}
       ELSE UNCHANGED chaining
  /\ Ends(c)
  /\ UNCHANGED <<now, lake, document, chunks, issued, reserving, working>>

\* The follow-up the worker named; without it the triggers do not fire.
EnqueueNext(c) ==
  /\ c.next # None
  /\ Insert(c.object, c.next)
  /\ chaining' = (chaining \ {c}) \cup {[c EXCEPT !.next = None]}
  /\ UNCHANGED <<now, lake, document, chunks, issued, reserving, answering, working>>

\* Fire drops an insert that fails.
FireTrigger(c, k) ==
  /\ c.next = None /\ k \in c.todo
  /\ Insert(c.object, k) \/ UNCHANGED job
  /\ chaining' = (chaining \ {c}) \cup
                   {d \in {[c EXCEPT !.todo = @ \ {k}]} : d.todo # {}}
  /\ UNCHANGED <<now, lake, document, chunks, issued, reserving, answering, working>>

-----------------------------------------------------------------------------
(***************************************************************************)
(* The pipeline goroutine.                                                 *)
(***************************************************************************)

ClaimNext(k) ==
  /\ working = Idle /\ k \in Internal
  /\ \E i \in Lowest({j \in Id : /\ job[j].status = "queued" /\ job[j].kind = k
                                 /\ job[j].attempts < LeaseBound}, 1) :
       /\ job' = [job EXCEPT ![i].status = "running", ![i].attempts = @ + 1]
       /\ working' = [id |-> i, text |-> None, stage |-> "extract"]
  /\ UNCHANGED <<now, lake, document, chunks, issued, reserving, answering, chaining>>

\* Reading or stripping the blob may fail, and may yield nothing to keep.
Extract(x) ==
  /\ working.stage = "extract"
  /\ \/ /\ x # Blank
        /\ document' = [document EXCEPT ![job[working.id].object] = x]
        /\ working' = [working EXCEPT !.stage = "chunks", !.text = x]
     \/ /\ x = Blank
        /\ \E s \in {"succeeded", "failed"} : working' = [working EXCEPT !.stage = s]
        /\ UNCHANGED document
  /\ UNCHANGED <<now, job, lake, chunks, issued, reserving, answering, chaining>>

WriteChunks ==
  /\ working.stage = "chunks"
  /\ LET o == job[working.id].object
     IN  \/ /\ Fits(o, working.text)
            /\ chunks' = WithChunks(o, working.text)
            /\ working' = [working EXCEPT !.stage = "succeeded"]
         \/ /\ UNCHANGED chunks
            /\ working' = [working EXCEPT !.stage = "failed"]
  /\ UNCHANGED <<now, job, lake, document, issued, reserving, answering, chaining>>

\* The row is written by id, whatever has become of it; an error is ignored.
MarkDone ==
  /\ working.stage = "succeeded"
  /\ \/ job' = [job EXCEPT ![working.id].status = "done", ![working.id].output = None]
     \/ UNCHANGED job
  /\ working' = Idle
  /\ UNCHANGED <<now, lake, document, chunks, issued, reserving, answering, chaining>>

MarkFailed ==
  /\ working.stage = "failed"
  /\ \/ job' = [job EXCEPT ![working.id].status = Retried(job[working.id])]
     \/ UNCHANGED job
  /\ working' = Idle
  /\ UNCHANGED <<now, lake, document, chunks, issued, reserving, answering, chaining>>

-----------------------------------------------------------------------------
(***************************************************************************)
(* The sweeper, the operator and failures.                                 *)
(***************************************************************************)

\* A row the pipeline claimed has no expiry, and NULL is before no time.
Expired(i) == /\ job[i].status = "running" /\ job[i].expires # None
              /\ job[i].expires < now

SweepExpired ==
  /\ job' = [i \in Id |-> IF Expired(i) THEN Unleased(job[i], "queued") ELSE job[i]]
  /\ UNCHANGED <<now, lake, document, chunks, issued, reserving, answering, chaining, working>>

\* Zero fields of the filter constrain nothing.
Matches(i, f) ==
  /\ job[i].status # "absent"
  /\ f.status # None => job[i].status = f.status
  /\ f.worker # None => job[i].holder = f.worker
  /\ f.kind # None => job[i].kind = f.kind

RequeueByFilter(f) ==
  /\ job' = [i \in Id |-> IF Matches(i, f) THEN Unleased(job[i], "queued") ELSE job[i]]
  /\ UNCHANGED <<now, lake, document, chunks, issued, reserving, answering, chaining, working>>

\* The crawl's triggers and the operator's reprocess enqueue for an object.
Enqueue(o, k) ==
  /\ o \in lake /\ k \in Backfills
  /\ Insert(o, k)
  /\ UNCHANGED <<now, lake, document, chunks, issued, reserving, answering, chaining, working>>

\* A call ends without its next effect: the database or a store refuses, or the
\* client hangs up.
CallFails ==
  /\ \/ \E c \in reserving : reserving' = reserving \ {c}
                             /\ UNCHANGED <<answering, chaining>>
     \/ \E c \in answering : Ends(c) /\ UNCHANGED <<reserving, chaining>>
     \/ \E c \in chaining : chaining' = chaining \ {c}
                            /\ UNCHANGED <<reserving, answering>>
  /\ UNCHANGED <<now, job, lake, document, chunks, issued, working>>

\* The registry is killed and started again.
Crash ==
  /\ reserving' = {} /\ answering' = {} /\ chaining' = {} /\ working' = Idle
  /\ UNCHANGED <<now, job, lake, document, chunks, issued>>

Tick ==
  /\ now < MaxTime
  /\ now' = now + 1
  /\ UNCHANGED <<job, lake, document, chunks, issued, reserving, answering, chaining, working>>

-----------------------------------------------------------------------------
Answer == \E c \in answering :
  \/ Heartbeat(c) \/ InsertChunks(c) \/ StoreOutput(c) \/ Complete(c)
  \/ \E retryable \in BOOLEAN : Fail(c, retryable)
  \/ \E x \in Text : UpsertText(c, x)
FollowUp == \E c \in chaining : EnqueueNext(c) \/ \E k \in Kind : FireTrigger(c, k)
Pipeline == \/ \E k \in Kind : ClaimNext(k)
            \/ \E x \in Text : Extract(x)
            \/ WriteChunks \/ MarkDone \/ MarkFailed
Requeue == \E f \in RequeueFilters : RequeueByFilter(f)

Next ==
  \/ \E w \in Worker, K \in Requests, n \in Batches : ReserveBegin(w, K, n)
  \/ \E c \in reserving : ReserveBatch(c)
  \/ \E t \in issued : AnswerBegin(t)
  \/ Answer \/ FollowUp \/ Pipeline
  \/ SweepExpired \/ Requeue \/ CallFails \/ Crash
  \/ \E o \in Object, k \in Kind : Enqueue(o, k)
  \/ Tick

Spec == Init /\ [][Next]_vars

-----------------------------------------------------------------------------
(***************************************************************************)
(* Properties.                                                             *)
(***************************************************************************)

\* The lease columns of a row are set together and only while an external
\* worker runs it: no answer, sweep, requeue or step of the pipeline leaves half
\* a lease or a lease on a row the pipeline works on.  (For workers that ask for
\* external kinds: a reserve that names none is given the pipeline's rows too.)
LeaseShape ==
  \A i \in Id :
    /\ job[i].token = None <=> job[i].holder = None
    /\ job[i].token = None <=> job[i].expires = None
    /\ job[i].token # None =>
         /\ job[i].status = "running" /\ job[i].kind \notin Internal
         /\ job[i].token \in issued
         /\ job[i].token.id = i /\ job[i].token.worker = job[i].holder

\* tasksvc.go, AcceptText and AcceptBlob: whatever dies, repeats or loses its
\* lease, a task is done only once its text or its output is stored.
DoneIsStored ==
  \A i \in Id : job[i].status = "done" /\ job[i].kind \notin Internal =>
    IF job[i].output = None THEN document[job[i].object] # None
                            ELSE job[i].output \in lake

\* A settled task is reopened by nothing but the operator's requeue: a late
\* fail, a sweep or the pipeline never runs it again.  (For workers that ask for
\* external kinds, which the registry does not enforce.)
SettledIsFinal ==
  [][\/ \A i \in Id : job[i].status \in Settled => job'[i].status = job[i].status
     \/ Requeue]_vars

\* Whatever kinds the workers ask for, that stays so for the external kinds.  A
\* settled row of the pipeline's kinds, which a worker may hold as well, is also
\* moved by a fail whose token is on it and by the pipeline that works on it.
ReopenedOnlyIfShared ==
  [][\A i \in Id : job[i].status \in Settled /\ job'[i].status # job[i].status =>
       \/ Requeue
       \/ /\ job[i].kind \in Internal
          /\ \/ \E c \in answering : c.token = job[i].token
             \/ working.id = i]_vars

\* pipeline.go, exec: a row runs without a lease and without the pipeline on it
\* only when the registry died, or could not write the row, while its pipeline
\* worked on it; from then on nothing but the operator's requeue moves the row,
\* for the sweeper looks at expired leases alone.
Stranded(i) == job[i].status = "running" /\ job[i].token = None /\ working.id # i
PipelineCutShort == working # Idle /\ working' = Idle /\ UNCHANGED job
OnlyFailuresStrand ==
  [][\A i \in Id : IF Stranded(i) THEN Stranded(i)' \/ Requeue
                                  ELSE ~ Stranded(i)' \/ PipelineCutShort]_vars

\* However often and however late a worker heartbeats, a task's expiry stays
\* within one heartbeat of the expiry signed into its token ...
LeaseSlack == IF HeartbeatExtend > TicksPerSecond THEN HeartbeatExtend ELSE TicksPerSecond
LeaseBounded ==
  \A i \in Id : job[i].token # None =>
    job[i].expires <= job[i].token.exp * TicksPerSecond + LeaseSlack

\* ... so a sweep leaves nobody a task by a token that ran out longer ago than that.
SweepsReclaim ==
  [][SweepExpired => \A i \in Id : job'[i].status = "running" /\ job'[i].token # None =>
       now <= job'[i].token.exp * TicksPerSecond + LeaseSlack]_vars
=============================================================================
