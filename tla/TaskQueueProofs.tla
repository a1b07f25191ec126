-------------------------- MODULE TaskQueueProofs ---------------------------
(***************************************************************************)
(* Proofs about the processing queue.  JobStep lists everything one step   *)
(* can do to one row; the theorems argue about its cases and not about the *)
(* handlers.                                                               *)
(***************************************************************************)
EXTENDS TaskLeases, FiniteSetTheorems, TLAPS

LEMMA DivNat == \A a \in Nat, b \in Nat \ {0} : a \div b \in Nat
OBVIOUS

LEMMA DivBelow == \A a \in Nat, b \in Nat \ {0} : a < (a \div b) * b + b
OBVIOUS

LEMMA TokenOfType ==
  ASSUME NEW i \in Id, NEW c \in ReserveCall
  PROVE  TokenOf(i, c) \in Token
BY DivNat, NumberAssumption DEF TokenOf, Token, ReserveCall

LEMMA EffectiveBatchType ==
  ASSUME NEW w \in Worker, NEW n \in Nat
  PROVE  EffectiveBatch(w, n) \in Nat
<1>1. Held(w) \subseteq 1..MaxJobs /\ IsFiniteSet(1..MaxJobs)
  BY FS_Interval, NumberAssumption DEF Held, Id
<1>2. Cardinality(Held(w)) \in Nat
  BY <1>1, FS_Subset, FS_CardinalityType
<1>. QED BY <1>2, NumberAssumption DEF EffectiveBatch

LEMMA NoJobType == NoJob \in Job
BY DEF NoJob, Job, Status

LEMMA NewJobShape ==
  ASSUME NEW o \in Object, NEW k \in Kind
  PROVE  LET q == NewJob(o, k)
         IN  /\ q \in Job /\ q.status = "queued" /\ q.object = o /\ q.kind = k
             /\ q.token = None /\ q.holder = None /\ q.expires = None
BY NoJobType DEF NewJob, NoJob, Job, Status

LEMMA UnleasedShape ==
  ASSUME NEW r \in Job, NEW s \in Status
  PROVE  LET q == Unleased(r, s)
         IN  /\ q \in Job /\ q.status = s /\ q.object = r.object /\ q.kind = r.kind
             /\ q.token = None /\ q.holder = None /\ q.expires = None
             /\ q.output = r.output
BY DEF Unleased, Job

LEMMA LeasedShape ==
  ASSUME NEW r \in Job, NEW i \in Id, NEW c \in ReserveCall
  PROVE  LET q == Leased(r, i, c)
         IN  /\ q \in Job /\ q.status = "running" /\ q.object = r.object /\ q.kind = r.kind
             /\ q.token = TokenOf(i, c) /\ q.holder = c.worker
             /\ q.expires = c.at + LeaseTTL
<1>1. TokenOf(i, c) \in Token
  BY TokenOfType
<1>2. c.worker \in Worker /\ c.at + LeaseTTL \in Nat /\ r.attempts + 1 \in Nat
  BY NumberAssumption DEF ReserveCall, Job
<1>. QED BY <1>1, <1>2 DEF Leased, Job, Status

LEMMA RetriedType == \A r : Retried(r) \in {"queued", "failed"}
BY DEF Retried

-----------------------------------------------------------------------------
(***************************************************************************)
(* What one step does to one row.                                          *)
(***************************************************************************)

JobGranted(i) ==
  \E c \in reserving : /\ job[i].status = "queued"
                       /\ c.kinds # {} => job[i].kind \in c.kinds
                       /\ job'[i] = Leased(job[i], i, c)
                       /\ TokenOf(i, c) \in issued'
JobExtended(i) ==
  \E c \in answering : /\ c.token.id = i /\ Holds(c.token)
                       /\ job'[i] = [job[i] EXCEPT !.expires = c.at + HeartbeatExtend]
JobCompleted(i) ==
  \E c \in answering : /\ c.token.id = i /\ Holds(c.token) /\ c.stage = "complete"
                       /\ job'[i] = [Unleased(job[i], "done") EXCEPT
                                       !.output = OutputOfCall(c)]
JobFailed(i) ==
  \E c \in answering, s \in {"queued", "failed"} :
    c.token.id = i /\ job[i].token = c.token /\ job'[i] = Unleased(job[i], s)
JobInserted(i) ==
  /\ job[i].status = "absent"
  /\ \E o \in Object, k \in Kind : job'[i] = NewJob(o, k)
JobClaimed(i) ==
  /\ job[i].status = "queued" /\ job[i].kind \in Internal /\ working'.id = i
  /\ job'[i] = [job[i] EXCEPT !.status = "running", !.attempts = @ + 1]
JobClosed(i) ==
  /\ working.stage \in {"succeeded", "failed"} /\ working.id = i /\ working' = Idle
  /\ \E s \in {"done", "queued", "failed"}, o \in {job[i].output, None} :
       job'[i] = [job[i] EXCEPT !.status = s, !.output = o]
JobSwept(i) == Expired(i) /\ job'[i] = Unleased(job[i], "queued")
JobRequeued(i) ==
  Requeue /\ job[i].status # "absent" /\ job'[i] = Unleased(job[i], "queued")

JobStep(i) ==
  \/ job'[i] = job[i]
  \/ JobGranted(i) \/ JobExtended(i) \/ JobCompleted(i) \/ JobFailed(i)
  \/ JobInserted(i) \/ JobClaimed(i) \/ JobClosed(i) \/ JobSwept(i) \/ JobRequeued(i)

LEMMA InsertStep ==
  ASSUME TypeOK, NEW o \in Object, NEW k \in Kind, Insert(o, k)
  PROVE  /\ \A i \in Id : JobStep(i)
         /\ job' \in [Id -> Job]
<1>1. PICK j \in Id : job[j].status = "absent" /\ job' = [job EXCEPT ![j] = NewJob(o, k)]
  BY DEF Insert, Lowest
<1>2. \A i \in Id : JobStep(i)
  BY <1>1 DEF JobStep, JobInserted, TypeOK
<1>. QED BY <1>1, <1>2, NewJobShape DEF TypeOK

\* What one step does to one row, and that tokens are only ever added.
LEMMA JobStepLemma ==
  ASSUME TypeOK, [Next]_vars, NEW i \in Id
  PROVE  JobStep(i) /\ issued \subseteq issued'
<1>1. ASSUME UNCHANGED <<job, issued>> PROVE JobStep(i) /\ issued \subseteq issued'
  BY <1>1 DEF JobStep
<1>2. CASE UNCHANGED vars
  BY <1>1, <1>2 DEF vars
<1>3. ASSUME NEW w \in Worker, NEW K \in Requests, NEW n \in Batches, ReserveBegin(w, K, n)
      PROVE  JobStep(i) /\ issued \subseteq issued'
  BY <1>1, <1>3 DEF ReserveBegin
<1>4. ASSUME NEW c \in reserving, ReserveBatch(c)
      PROVE  JobStep(i) /\ issued \subseteq issued'
  <2>1. CASE i \in Picks(c)
    BY <1>4, <2>1 DEF ReserveBatch, Picks, Lowest, JobStep, JobGranted
  <2>2. CASE i \notin Picks(c)
    BY <1>4, <2>2 DEF ReserveBatch, JobStep
  <2>. QED BY <2>1, <2>2
<1>5. ASSUME NEW t \in issued, AnswerBegin(t)
      PROVE  JobStep(i) /\ issued \subseteq issued'
  BY <1>1, <1>5 DEF AnswerBegin
<1>6. ASSUME NEW c \in answering, Heartbeat(c)
      PROVE  JobStep(i) /\ issued \subseteq issued'
  BY <1>6 DEF Heartbeat, JobStep, JobExtended, TypeOK, Job
<1>7. ASSUME NEW c \in answering, NEW retryable \in BOOLEAN, Fail(c, retryable)
      PROVE  JobStep(i) /\ issued \subseteq issued'
  BY <1>7, RetriedType DEF Fail, Fails, JobStep, JobFailed, TypeOK
<1>8. ASSUME NEW c \in answering, NEW x \in Text, UpsertText(c, x)
      PROVE  JobStep(i) /\ issued \subseteq issued'
  BY <1>1, <1>8 DEF UpsertText
<1>9. ASSUME NEW c \in answering, InsertChunks(c) \/ StoreOutput(c)
      PROVE  JobStep(i) /\ issued \subseteq issued'
  BY <1>1, <1>9 DEF InsertChunks, StoreOutput
<1>10. ASSUME NEW c \in answering, Complete(c)
       PROVE  JobStep(i) /\ issued \subseteq issued'
  BY <1>10 DEF Complete, Ready, JobStep, JobCompleted, TypeOK
<1>11. ASSUME NEW c \in chaining, EnqueueNext(c)
       PROVE  JobStep(i) /\ issued \subseteq issued'
  <2>1. c.object \in Object /\ c.next \in Kind
    BY <1>11 DEF EnqueueNext, TypeOK, Chain
  <2>. QED BY <1>11, <2>1, InsertStep DEF EnqueueNext
<1>12. ASSUME NEW c \in chaining, NEW k \in Kind, FireTrigger(c, k)
       PROVE  JobStep(i) /\ issued \subseteq issued'
  <2>1. c.object \in Object
    BY DEF TypeOK, Chain
  <2>. QED BY <1>12, <2>1, InsertStep DEF FireTrigger, JobStep
<1>13. ASSUME NEW k \in Kind, ClaimNext(k)
       PROVE  JobStep(i) /\ issued \subseteq issued'
  <2>1. PICK j \in Id : /\ job[j].status = "queued" /\ job[j].kind = k
                        /\ job' = [job EXCEPT ![j].status = "running", ![j].attempts = @ + 1]
                        /\ working' = [id |-> j, text |-> None, stage |-> "extract"]
    BY <1>13 DEF ClaimNext, Lowest
  <2>2. job'[i] = job[i] \/ JobClaimed(i)
    BY <1>13, <2>1 DEF ClaimNext, JobClaimed, TypeOK
  <2>. QED BY <1>13, <2>2 DEF ClaimNext, JobStep
<1>14. ASSUME NEW x \in Text, Extract(x)
       PROVE  JobStep(i) /\ issued \subseteq issued'
  BY <1>1, <1>14 DEF Extract
<1>15. CASE WriteChunks
  BY <1>1, <1>15 DEF WriteChunks
<1>16. CASE MarkDone
  <2>1. \/ job'[i] = job[i]
        \/ working.id = i /\ job'[i] = [job[i] EXCEPT !.status = "done", !.output = None]
    BY <1>16 DEF MarkDone, TypeOK
  <2>2. ASSUME working.id = i, job'[i] = [job[i] EXCEPT !.status = "done", !.output = None]
        PROVE  JobClosed(i)
    <3>1. working.stage \in {"succeeded", "failed"} /\ working' = Idle
      BY <1>16 DEF MarkDone
    <3>2. "done" \in {"done", "queued", "failed"} /\ None \in {job[i].output, None}
      OBVIOUS
    <3>. QED BY <2>2, <3>1, <3>2, Zenon DEF JobClosed
  <2>. QED BY <1>16, <2>1, <2>2 DEF MarkDone, JobStep
<1>17. CASE MarkFailed
  <2>. DEFINE s == Retried(job[working.id])
  <2>1. \/ job'[i] = job[i]
        \/ working.id = i /\ job'[i] = [job[i] EXCEPT !.status = s]
    BY <1>17 DEF MarkFailed, TypeOK
  <2>2. ASSUME working.id = i, job'[i] = [job[i] EXCEPT !.status = s]
        PROVE  JobClosed(i)
    <3>1. working.stage \in {"succeeded", "failed"} /\ working' = Idle
      BY <1>17 DEF MarkFailed
    <3>2. s \in {"done", "queued", "failed"} /\ job[i].output \in {job[i].output, None}
      BY RetriedType
    <3>3. job'[i] = [job[i] EXCEPT !.status = s, !.output = job[i].output]
      BY <2>2 DEF TypeOK, Job
    <3>. HIDE DEF s
    <3>. QED BY <2>2, <3>1, <3>2, <3>3, Zenon DEF JobClosed
  <2>. QED BY <1>17, <2>1, <2>2 DEF MarkFailed, JobStep
<1>18. CASE SweepExpired
  BY <1>18 DEF SweepExpired, JobStep, JobSwept
<1>19. ASSUME NEW f \in RequeueFilters, RequeueByFilter(f)
       PROVE  JobStep(i) /\ issued \subseteq issued'
  <2>1. Requeue
    BY <1>19 DEF Requeue
  <2>. QED BY <1>19, <2>1 DEF RequeueByFilter, Matches, JobStep, JobRequeued
<1>20. CASE CallFails \/ Crash \/ Tick
  BY <1>1, <1>20 DEF CallFails, Crash, Tick
<1>21. ASSUME NEW o \in Object, NEW k \in Kind, Enqueue(o, k)
       PROVE  JobStep(i) /\ issued \subseteq issued'
  BY <1>21, InsertStep DEF Enqueue
<1>. QED
  BY <1>2, <1>3, <1>4, <1>5, <1>6, <1>7, <1>8, <1>9, <1>10, <1>11, <1>12, <1>13, <1>14,
     <1>15, <1>16, <1>17, <1>18, <1>19, <1>20, <1>21
     DEF Next, Answer, FollowUp, Pipeline, Requeue

-----------------------------------------------------------------------------
(***************************************************************************)
(* Type correctness.  It needs to know what the ids in flight point at.    *)
(***************************************************************************)

Known ==
  /\ \A i \in Id : job[i].status # "absent" => job[i].object \in Object /\ job[i].kind \in Kind
  /\ \A t \in issued : job[t.id].status # "absent"
  /\ \A c \in answering : c.token \in issued
  /\ working.stage # "idle" =>
       /\ working.id \in Id /\ job[working.id].status # "absent"
       /\ job[working.id].kind \in Internal

JobKept(i) == job[i].status # "absent" =>
  /\ job'[i].status # "absent"
  /\ job'[i].object = job[i].object /\ job'[i].kind = job[i].kind

LEMMA JobKeptLemma ==
  ASSUME TypeOK, NEW i \in Id, JobStep(i)
  PROVE  JobKept(i)
<1>1. job[i] \in Job /\ \A c \in reserving : c \in ReserveCall
  BY DEF TypeOK
<1>2. CASE JobGranted(i)
  BY <1>1, <1>2, LeasedShape DEF JobGranted, JobKept
<1>3. CASE JobExtended(i)
  BY <1>1, <1>3 DEF JobExtended, JobKept, Job
<1>4. CASE JobCompleted(i)
  <2>1. PICK o : job'[i] = [Unleased(job[i], "done") EXCEPT !.output = o]
    BY <1>4 DEF JobCompleted
  <2>. QED BY <1>1, <2>1 DEF Unleased, JobKept, Job
<1>5. CASE JobFailed(i) \/ JobSwept(i) \/ JobRequeued(i)
  <2>1. PICK s \in {"queued", "failed"} : job'[i] = Unleased(job[i], s)
    BY <1>5 DEF JobFailed, JobSwept, JobRequeued
  <2>. QED BY <1>1, <2>1, UnleasedShape DEF JobKept, Status
<1>6. CASE JobClaimed(i)
  BY <1>1, <1>6 DEF JobClaimed, JobKept, Job
<1>7. CASE JobClosed(i)
  <2>1. PICK s \in {"done", "queued", "failed"}, o \in {job[i].output, None} :
          job'[i] = [job[i] EXCEPT !.status = s, !.output = o]
    BY <1>7 DEF JobClosed
  <2>. QED BY <1>1, <2>1 DEF JobKept, Job
<1>. QED BY <1>2, <1>3, <1>4, <1>5, <1>6, <1>7 DEF JobStep, JobInserted, JobKept

LEMMA KnownRows ==
  ASSUME TypeOK, Known, [Next]_vars, NEW i \in Id
  PROVE  /\ JobKept(i)
         /\ job'[i].status # "absent" => job'[i].object \in Object /\ job'[i].kind \in Kind
<1>1. JobStep(i) /\ JobKept(i) /\ job[i] \in Job
  BY JobStepLemma, JobKeptLemma DEF TypeOK
<1>2. CASE job[i].status # "absent"
  BY <1>1, <1>2 DEF Known, JobKept
<1>3. CASE job[i].status = "absent"
  <2>1. ~ JobGranted(i) /\ ~ JobExtended(i) /\ ~ JobCompleted(i)
    BY <1>3 DEF JobGranted, JobExtended, JobCompleted, Holds
  <2>2. ~ JobFailed(i) /\ ~ JobClosed(i)
    BY <1>3 DEF JobFailed, JobClosed, Known
  <2>3. ~ JobClaimed(i) /\ ~ JobSwept(i) /\ ~ JobRequeued(i)
    BY <1>3 DEF JobClaimed, JobSwept, JobRequeued, Expired
  <2>4. job'[i] = job[i] \/ JobInserted(i)
    BY <1>1, <2>1, <2>2, <2>3 DEF JobStep
  <2>. QED BY <1>1, <1>3, <2>4, NewJobShape DEF JobInserted
<1>. QED BY <1>2, <1>3

LEMMA KnownTokens ==
  ASSUME TypeOK, Known, [Next]_vars
  PROVE  \A t \in issued' : job'[t.id].status # "absent"
<1>1. \A i \in Id : JobKept(i)
  BY KnownRows
<1>2. ASSUME issued' = issued PROVE \A t \in issued' : job'[t.id].status # "absent"
  BY <1>1, <1>2 DEF Known, JobKept, TypeOK, Token
<1>3. ASSUME NEW c \in reserving, ReserveBatch(c)
      PROVE  \A t \in issued' : job'[t.id].status # "absent"
  <2>1. ASSUME NEW t \in issued PROVE job'[t.id].status # "absent"
    BY <1>1 DEF Known, JobKept, TypeOK, Token
  <2>2. ASSUME NEW i \in Picks(c) PROVE job'[TokenOf(i, c).id].status # "absent"
    <3>1. i \in Id /\ TokenOf(i, c).id = i
      BY DEF Picks, Lowest, TokenOf
    <3>2. job'[i] = Leased(job[i], i, c) /\ job[i] \in Job /\ c \in ReserveCall
      BY <1>3, <3>1 DEF ReserveBatch, TypeOK
    <3>. QED BY <3>1, <3>2, LeasedShape
  <2>. QED BY <1>3, <2>1, <2>2 DEF ReserveBatch
<1>4. CASE UNCHANGED vars
  BY <1>2, <1>4 DEF vars
<1>5. ASSUME NEW w \in Worker, NEW K \in Requests, NEW n \in Batches, ReserveBegin(w, K, n)
      PROVE  issued' = issued
  BY <1>5 DEF ReserveBegin
<1>6. ASSUME NEW t \in issued, AnswerBegin(t) PROVE issued' = issued
  BY <1>6 DEF AnswerBegin
<1>7. CASE Answer
  BY <1>2, <1>7 DEF Answer, Heartbeat, InsertChunks, StoreOutput, Complete, Fail, UpsertText
<1>8. CASE FollowUp
  BY <1>2, <1>8 DEF FollowUp, EnqueueNext, FireTrigger
<1>9. CASE Pipeline
  BY <1>2, <1>9 DEF Pipeline, ClaimNext, Extract, WriteChunks, MarkDone, MarkFailed
<1>10. CASE SweepExpired \/ Requeue \/ CallFails \/ Crash \/ Tick
  BY <1>2, <1>10 DEF SweepExpired, Requeue, RequeueByFilter, CallFails, Crash, Tick
<1>11. ASSUME NEW o \in Object, NEW k \in Kind, Enqueue(o, k) PROVE issued' = issued
  BY <1>11 DEF Enqueue
<1>. QED
  BY <1>2, <1>3, <1>4, <1>5, <1>6, <1>7, <1>8, <1>9, <1>10, <1>11 DEF Next

\* Only the steps named here put a call into answering; all others end calls.
LEMMA AnswersOnlyEnd ==
  ASSUME TypeOK, [Next]_vars,
         ~ (\E t \in issued : AnswerBegin(t)),
         ~ (\E d \in answering : \/ InsertChunks(d) \/ StoreOutput(d)
                                  \/ \E x \in Text : UpsertText(d, x))
  PROVE  answering' \subseteq answering
<1>1. CASE UNCHANGED vars
  BY <1>1 DEF vars
<1>2. ASSUME NEW w \in Worker, NEW K \in Requests, NEW n \in Batches, ReserveBegin(w, K, n)
      PROVE  answering' \subseteq answering
  BY <1>2 DEF ReserveBegin
<1>3. ASSUME NEW c \in reserving, ReserveBatch(c) PROVE answering' \subseteq answering
  BY <1>3 DEF ReserveBatch
<1>4. ASSUME NEW c \in answering, NEW retryable \in BOOLEAN,
             Heartbeat(c) \/ Complete(c) \/ Fail(c, retryable)
      PROVE  answering' \subseteq answering
  BY <1>4 DEF Heartbeat, Complete, Fail, Ends
<1>5. CASE FollowUp
  BY <1>5 DEF FollowUp, EnqueueNext, FireTrigger
<1>6. CASE Pipeline
  BY <1>6 DEF Pipeline, ClaimNext, Extract, WriteChunks, MarkDone, MarkFailed
<1>7. CASE SweepExpired \/ Requeue \/ CallFails \/ Crash \/ Tick
  BY <1>7 DEF SweepExpired, Requeue, RequeueByFilter, CallFails, Ends, Crash, Tick
<1>8. ASSUME NEW o \in Object, NEW k \in Kind, Enqueue(o, k)
      PROVE  answering' \subseteq answering
  BY <1>8 DEF Enqueue
<1>. QED BY <1>1, <1>2, <1>3, <1>4, <1>5, <1>6, <1>7, <1>8 DEF Next, Answer

LEMMA KnownCalls ==
  ASSUME TypeOK, Known, [Next]_vars
  PROVE  \A c \in answering' : c.token \in issued
<1>1. ASSUME answering' \subseteq answering PROVE \A c \in answering' : c.token \in issued
  BY <1>1 DEF Known
<1>2. ASSUME NEW t \in issued, AnswerBegin(t) PROVE \A c \in answering' : c.token \in issued
  BY <1>2 DEF AnswerBegin, Known
<1>3. ASSUME NEW c \in answering, NEW x \in Text, UpsertText(c, x)
      PROVE  \A d \in answering' : d.token \in issued
  BY <1>3 DEF UpsertText, Goes, Known, TypeOK, AnswerCall
<1>4. ASSUME NEW c \in answering, InsertChunks(c) \/ StoreOutput(c)
      PROVE  \A d \in answering' : d.token \in issued
  BY <1>4 DEF InsertChunks, StoreOutput, Goes, Ends, Known, TypeOK, AnswerCall
<1>. QED BY <1>1, <1>2, <1>3, <1>4, AnswersOnlyEnd

\* The pipeline holds on to a row it claimed, or lets go of it.
LEMMA WorkingStep ==
  ASSUME TypeOK, [Next]_vars
  PROVE  \/ working' = Idle
         \/ working.stage # "idle" /\ working'.id = working.id
         \/ working' = working
         \/ /\ working'.id \in Id
            /\ job[working'.id].status = "queued" /\ job[working'.id].kind \in Internal
            /\ job'[working'.id].status = "running"
<1>1. ASSUME NEW k \in Kind, ClaimNext(k)
      PROVE  /\ working'.id \in Id
             /\ job[working'.id].status = "queued" /\ job[working'.id].kind \in Internal
             /\ job'[working'.id].status = "running"
  <2>1. PICK i \in Id :
          /\ job[i].status = "queued" /\ job[i].kind = k
          /\ job' = [job EXCEPT ![i].status = "running", ![i].attempts = @ + 1]
          /\ working' = [id |-> i, text |-> None, stage |-> "extract"]
    BY <1>1 DEF ClaimNext, Lowest
  <2>2. job'[i].status = "running"
    BY <2>1 DEF TypeOK, Job
  <2>. QED BY <1>1, <2>1, <2>2 DEF ClaimNext
<1>2. ASSUME NEW x \in Text, Extract(x) PROVE working.stage # "idle" /\ working'.id = working.id
  BY <1>2 DEF Extract, TypeOK, Working
<1>3. ASSUME WriteChunks PROVE working.stage # "idle" /\ working'.id = working.id
  BY <1>3 DEF WriteChunks, TypeOK, Working
<1>4. ASSUME MarkDone \/ MarkFailed \/ Crash PROVE working' = Idle
  BY <1>4 DEF MarkDone, MarkFailed, Crash
<1>5. CASE UNCHANGED vars
  BY <1>5 DEF vars
<1>6. ASSUME NEW w \in Worker, NEW K \in Requests, NEW n \in Batches, ReserveBegin(w, K, n)
      PROVE  working' = working
  BY <1>6 DEF ReserveBegin
<1>7. ASSUME NEW c \in reserving, ReserveBatch(c) PROVE working' = working
  BY <1>7 DEF ReserveBatch
<1>8. ASSUME NEW t \in issued, AnswerBegin(t) PROVE working' = working
  BY <1>8 DEF AnswerBegin
<1>9. CASE Answer
  BY <1>9 DEF Answer, Heartbeat, InsertChunks, StoreOutput, Complete, Fail, UpsertText
<1>10. CASE FollowUp
  BY <1>10 DEF FollowUp, EnqueueNext, FireTrigger
<1>11. CASE SweepExpired \/ Requeue \/ CallFails \/ Tick
  BY <1>11 DEF SweepExpired, Requeue, RequeueByFilter, CallFails, Tick
<1>12. ASSUME NEW o \in Object, NEW k \in Kind, Enqueue(o, k) PROVE working' = working
  BY <1>12 DEF Enqueue
<1>. QED
  BY <1>1, <1>2, <1>3, <1>4, <1>5, <1>6, <1>7, <1>8, <1>9, <1>10, <1>11, <1>12
     DEF Next, Pipeline

LEMMA KnownStep ==
  ASSUME TypeOK, Known, [Next]_vars
  PROVE  Known'
<1>1. \A i \in Id : JobKept(i)
  BY KnownRows
<1>2. \A i \in Id : job'[i].status # "absent" => job'[i].object \in Object /\ job'[i].kind \in Kind
  BY KnownRows
<1>3. \A c \in answering' : c.token \in issued'
  <2>1. issued \subseteq issued'
    <3>1. CASE Id = {}
      BY <3>1 DEF TypeOK, Token
    <3>2. CASE Id # {}
      BY <3>2, JobStepLemma
    <3>. QED BY <3>1, <3>2
  <2>. QED BY <2>1, KnownCalls
<1>4. working'.stage # "idle" =>
        /\ working'.id \in Id /\ job'[working'.id].status # "absent"
        /\ job'[working'.id].kind \in Internal
  <2>1. Idle.stage = "idle"
    BY DEF Idle
  <2>2. CASE working' = working \/ (working.stage # "idle" /\ working'.id = working.id)
    BY <1>1, <2>2 DEF Known, JobKept
  <2>3. ASSUME working'.id \in Id, job[working'.id].status = "queued",
               job[working'.id].kind \in Internal
        PROVE  job'[working'.id].status # "absent" /\ job'[working'.id].kind \in Internal
    BY <1>1, <2>3 DEF JobKept
  <2>. QED BY <2>1, <2>2, <2>3, WorkingStep
<1>. QED BY <1>2, <1>3, <1>4, KnownTokens DEF Known

LEMMA TypeStep ==
  ASSUME TypeOK, Known, [Next]_vars
  PROVE  TypeOK'
<1>0. now \in Nat
  BY NumberAssumption DEF TypeOK
<1>1. CASE UNCHANGED vars
  BY <1>1 DEF vars, TypeOK
<1>2. ASSUME NEW w \in Worker, NEW K \in Requests, NEW n \in Batches, ReserveBegin(w, K, n)
      PROVE  TypeOK'
  <2>1. EffectiveBatch(w, n) \in Nat /\ K \in SUBSET Kind
    BY EffectiveBatchType, NumberAssumption, KindAssumption
  <2>2. [worker |-> w, kinds |-> K, batch |-> EffectiveBatch(w, n), at |-> now]
          \in ReserveCall
    BY <1>0, <2>1 DEF ReserveCall
  <2>. QED BY <1>2, <2>2 DEF ReserveBegin, TypeOK
<1>3. ASSUME NEW c \in reserving, ReserveBatch(c) PROVE TypeOK'
  <2>1. c \in ReserveCall /\ Picks(c) \subseteq Id
    BY DEF TypeOK, Picks, Lowest
  <2>2. \A i \in Id : Leased(job[i], i, c) \in Job
    BY <2>1, LeasedShape DEF TypeOK
  <2>3. \A i \in Picks(c) : TokenOf(i, c) \in Token
    BY <2>1, TokenOfType
  <2>4. job' \in [Id -> Job] /\ issued' \subseteq Token
    BY <1>3, <2>2, <2>3 DEF ReserveBatch, TypeOK
  <2>. QED BY <1>3, <2>4 DEF ReserveBatch, TypeOK
<1>4. ASSUME NEW t \in issued, AnswerBegin(t) PROVE TypeOK'
  <2>1. [token |-> t, at |-> now, stage |-> "verified", text |-> None, stored |-> FALSE]
          \in AnswerCall
    BY <1>0 DEF AnswerCall, TypeOK
  <2>. QED BY <1>4, <2>1 DEF AnswerBegin, TypeOK
<1>5. ASSUME NEW c \in answering, Heartbeat(c) PROVE TypeOK'
  <2>1. c.at + HeartbeatExtend \in Nat
    BY NumberAssumption DEF TypeOK, AnswerCall
  <2>2. \A i \in Id : [job[i] EXCEPT !.expires = c.at + HeartbeatExtend] \in Job
    BY <2>1 DEF TypeOK, Job
  <2>3. c.token.id \in Id
    BY DEF TypeOK, AnswerCall, Token
  <2>4. ASSUME Holds(c.token) PROVE job' \in [Id -> Job]
    <3>1. job' = [job EXCEPT ![c.token.id] = [job[c.token.id] EXCEPT
                                                !.expires = c.at + HeartbeatExtend]]
      BY <1>5, <2>4 DEF Heartbeat
    <3>. QED BY <2>2, <2>3, <3>1 DEF TypeOK
  <2>5. ASSUME ~ Holds(c.token) PROVE job' \in [Id -> Job]
    <3>1. job' = [job EXCEPT ![c.token.id] = [job[c.token.id] EXCEPT
                                                !.expires = job[c.token.id].expires]]
      BY <1>5, <2>5 DEF Heartbeat
    <3>2. [job[c.token.id] EXCEPT !.expires = job[c.token.id].expires] \in Job
      BY <2>3 DEF TypeOK, Job
    <3>. QED BY <2>3, <3>1, <3>2 DEF TypeOK
  <2>6. job' \in [Id -> Job]
    BY <2>4, <2>5
  <2>. QED BY <1>5, <2>6 DEF Heartbeat, Ends, TypeOK
<1>6. ASSUME NEW c \in answering, NEW retryable \in BOOLEAN, Fail(c, retryable) PROVE TypeOK'
  <2>1. \A i \in Id, s \in {"queued", "failed"} : Unleased(job[i], s) \in Job
    BY UnleasedShape DEF TypeOK, Status
  <2>2. job' \in [Id -> Job]
    BY <1>6, <2>1, RetriedType DEF Fail, TypeOK
  <2>. QED BY <1>6, <2>2 DEF Fail, Ends, TypeOK
<1>7. ASSUME NEW c \in answering, NEW x \in Text, UpsertText(c, x) PROVE TypeOK'
  <2>1. [c EXCEPT !.stage = "chunks", !.text = x] \in AnswerCall
    BY DEF TypeOK, AnswerCall
  <2>. QED BY <1>7, <2>1 DEF UpsertText, Goes, TypeOK
<1>8. ASSUME NEW c \in answering, InsertChunks(c) PROVE TypeOK'
  <2>1. [c EXCEPT !.stage = "complete"] \in AnswerCall /\ c.text \in Text \cup {None}
    BY DEF TypeOK, AnswerCall
  <2>2. chunks' \in [Object -> Text \cup {None}]
    BY <1>8, <2>1 DEF InsertChunks, WithChunks, TypeOK
  <2>3. answering' \subseteq AnswerCall
    BY <1>8, <2>1 DEF InsertChunks, Goes, Ends, TypeOK
  <2>. QED BY <1>8, <2>2, <2>3 DEF InsertChunks, TypeOK
<1>9. ASSUME NEW c \in answering PROVE ObjectOf(c) \in Object
  BY DEF ObjectOf, Known, TypeOK, AnswerCall, Token
<1>10. ASSUME NEW c \in answering, StoreOutput(c) PROVE TypeOK'
  <2>1. [c EXCEPT !.stage = "complete", !.stored = TRUE] \in AnswerCall
    BY DEF TypeOK, AnswerCall
  <2>2. OutputOf[ObjectOf(c)] \in Object
    BY <1>9, ObjectAssumption
  <2>. QED BY <1>10, <2>1, <2>2 DEF StoreOutput, Goes, TypeOK
<1>11. ASSUME NEW c \in answering, Complete(c) PROVE TypeOK'
  <2>1. OutputOfCall(c) \in Object \cup {None} /\ (c.stored => OutputOfCall(c) \in Object)
    BY <1>9, ObjectAssumption DEF OutputOfCall
  <2>2. \A i \in Id : [Unleased(job[i], "done") EXCEPT !.output = OutputOfCall(c)] \in Job
    <3>1. \A i \in Id : Unleased(job[i], "done") \in Job
      BY UnleasedShape DEF TypeOK, Status
    <3>. QED BY <2>1, <3>1 DEF Job
  <2>3. job' \in [Id -> Job]
    BY <1>11, <2>2 DEF Complete, TypeOK
  <2>4. c.token.id \in Id /\ job[c.token.id].attempts \in Nat
    BY DEF TypeOK, AnswerCall, Token, Job
  <2>5. ASSUME NEW next \in Followers, c.stored
        PROVE  [job |-> c.token.id, attempt |-> job[c.token.id].attempts,
                object |-> OutputOfCall(c), next |-> next, todo |-> Triggered] \in Chain
    BY <2>1, <2>4, <2>5, KindAssumption DEF Chain
  <2>6. chaining' \subseteq Chain
    BY <1>11, <2>5 DEF Complete, TypeOK
  <2>. QED BY <1>11, <2>3, <2>6 DEF Complete, Ends, TypeOK
<1>12. ASSUME NEW c \in chaining, EnqueueNext(c) PROVE TypeOK'
  <2>1. c.object \in Object /\ c.next \in Kind /\ [c EXCEPT !.next = None] \in Chain
    BY <1>12 DEF EnqueueNext, TypeOK, Chain
  <2>2. job' \in [Id -> Job]
    BY <1>12, <2>1, InsertStep DEF EnqueueNext
  <2>. QED BY <1>12, <2>1, <2>2 DEF EnqueueNext, TypeOK
<1>13. ASSUME NEW c \in chaining, NEW k \in Kind, FireTrigger(c, k) PROVE TypeOK'
  <2>1. c.object \in Object /\ [c EXCEPT !.todo = @ \ {k}] \in Chain
    BY DEF TypeOK, Chain
  <2>2. job' \in [Id -> Job]
    BY <1>13, <2>1, InsertStep DEF FireTrigger, TypeOK
  <2>. QED BY <1>13, <2>1, <2>2 DEF FireTrigger, TypeOK
<1>14. ASSUME NEW k \in Kind, ClaimNext(k) PROVE TypeOK'
  <2>1. PICK i \in Id :
          /\ job' = [job EXCEPT ![i].status = "running", ![i].attempts = @ + 1]
          /\ working' = [id |-> i, text |-> None, stage |-> "extract"]
    BY <1>14 DEF ClaimNext, Lowest
  <2>2. job' \in [Id -> Job] /\ working' \in Working
    BY <2>1 DEF TypeOK, Job, Status, Working
  <2>. QED BY <1>14, <2>2 DEF ClaimNext, TypeOK
<1>15. ASSUME NEW x \in Text, Extract(x) PROVE TypeOK'
  <2>1. working' \in Working
    BY <1>15 DEF Extract, TypeOK, Working
  <2>. QED BY <1>15, <2>1 DEF Extract, TypeOK
<1>16. CASE WriteChunks
  <2>1. working' \in Working /\ working.text \in Text \cup {None}
    BY <1>16 DEF WriteChunks, TypeOK, Working
  <2>2. chunks' \in [Object -> Text \cup {None}]
    BY <1>16, <2>1 DEF WriteChunks, WithChunks, TypeOK
  <2>. QED BY <1>16, <2>1, <2>2 DEF WriteChunks, TypeOK
<1>17. Idle \in Working
  BY DEF Idle, Working
<1>18. CASE MarkDone
  <2>1. job' \in [Id -> Job]
    BY <1>18 DEF MarkDone, TypeOK, Job, Status
  <2>. QED BY <1>17, <1>18, <2>1 DEF MarkDone, TypeOK
<1>19. CASE MarkFailed
  <2>1. \A i \in Id, s \in {"queued", "failed"} : [job[i] EXCEPT !.status = s] \in Job
    BY DEF TypeOK, Job, Status
  <2>. DEFINE s == Retried(job[working.id])
  <2>2. s \in {"queued", "failed"}
    BY RetriedType
  <2>3. job' = [job EXCEPT ![working.id] = [job[working.id] EXCEPT !.status = s]] \/ job' = job
    BY <1>19 DEF MarkFailed
  <2>. HIDE DEF s
  <2>4. working.id \in Id
    BY <1>19 DEF MarkFailed, Known
  <2>5. job' \in [Id -> Job]
    BY <2>1, <2>2, <2>3, <2>4 DEF TypeOK
  <2>. QED BY <1>17, <1>19, <2>5 DEF MarkFailed, TypeOK
<1>20. \A i \in Id : Unleased(job[i], "queued") \in Job
  BY UnleasedShape DEF TypeOK, Status
<1>21. CASE SweepExpired
  BY <1>20, <1>21 DEF SweepExpired, TypeOK
<1>22. CASE Requeue
  BY <1>20, <1>22 DEF Requeue, RequeueByFilter, TypeOK
<1>23. ASSUME NEW o \in Object, NEW k \in Kind, Enqueue(o, k) PROVE TypeOK'
  BY <1>23, InsertStep DEF Enqueue, TypeOK
<1>24. CASE CallFails
  BY <1>24 DEF CallFails, Ends, TypeOK
<1>25. CASE Crash
  BY <1>17, <1>25 DEF Crash, TypeOK
<1>26. CASE Tick
  BY <1>0, <1>26, NumberAssumption DEF Tick, TypeOK
<1>. QED
  BY <1>1, <1>2, <1>3, <1>4, <1>5, <1>6, <1>7, <1>8, <1>10, <1>11, <1>12, <1>13, <1>14,
     <1>15, <1>16, <1>18, <1>19, <1>21, <1>22, <1>23, <1>24, <1>25, <1>26
     DEF Next, Answer, FollowUp, Pipeline

\* Type correctness of the processing queue, with what the rows, tokens and
\* calls in flight refer to: an answer always finds the row its token names.
THEOREM TaskTyping == Spec => [](TypeOK /\ Known)
<1>1. Init => TypeOK /\ Known
  BY NoJobType, ObjectAssumption, NumberAssumption
     DEF Init, TypeOK, Known, NoJob, Idle, Working
<1>2. TypeOK /\ Known /\ [Next]_vars => (TypeOK /\ Known)'
  BY TypeStep, KnownStep
<1>. QED BY <1>1, <1>2, PTL DEF Spec

-----------------------------------------------------------------------------
(***************************************************************************)
(* The shape of a lease, for workers that name the kinds they ask for and  *)
(* name none of the pipeline's.                                            *)
(***************************************************************************)

ExternalRequests == \A K \in Requests : K # {} /\ K \cap Internal = {}
ReservesAsAllowed == \A c \in reserving : c.kinds \in Requests

LEMMA ReservesStep ==
  ASSUME ReservesAsAllowed, [Next]_vars
  PROVE  ReservesAsAllowed'
<1>1. ASSUME reserving' \subseteq reserving PROVE ReservesAsAllowed'
  BY <1>1 DEF ReservesAsAllowed
<1>2. ASSUME NEW w \in Worker, NEW K \in Requests, NEW n \in Batches, ReserveBegin(w, K, n)
      PROVE  ReservesAsAllowed'
  BY <1>2 DEF ReserveBegin, ReservesAsAllowed
<1>3. CASE UNCHANGED vars
  BY <1>1, <1>3 DEF vars
<1>4. ASSUME NEW c \in reserving, ReserveBatch(c) PROVE reserving' \subseteq reserving
  BY <1>4 DEF ReserveBatch
<1>5. ASSUME NEW t \in issued, AnswerBegin(t) PROVE reserving' \subseteq reserving
  BY <1>5 DEF AnswerBegin
<1>6. CASE Answer
  BY <1>1, <1>6 DEF Answer, Heartbeat, InsertChunks, StoreOutput, Complete, Fail, UpsertText
<1>7. CASE FollowUp
  BY <1>1, <1>7 DEF FollowUp, EnqueueNext, FireTrigger
<1>8. CASE Pipeline
  BY <1>1, <1>8 DEF Pipeline, ClaimNext, Extract, WriteChunks, MarkDone, MarkFailed
<1>9. CASE SweepExpired \/ Requeue \/ CallFails \/ Crash \/ Tick
  BY <1>1, <1>9 DEF SweepExpired, Requeue, RequeueByFilter, CallFails, Crash, Tick
<1>10. ASSUME NEW o \in Object, NEW k \in Kind, Enqueue(o, k)
       PROVE  reserving' \subseteq reserving
  BY <1>10 DEF Enqueue
<1>. QED
  BY <1>1, <1>2, <1>3, <1>4, <1>5, <1>6, <1>7, <1>8, <1>9, <1>10 DEF Next

\* LeaseShape of one row.
WellLeased(i) ==
  /\ job[i].token = None <=> job[i].holder = None
  /\ job[i].token = None <=> job[i].expires = None
  /\ job[i].token # None =>
       /\ job[i].status = "running" /\ job[i].kind \notin Internal
       /\ job[i].token \in issued
       /\ job[i].token.id = i /\ job[i].token.worker = job[i].holder

LEMMA WellLeasedStep ==
  ASSUME TypeOK, Known, ExternalRequests, ReservesAsAllowed, [Next]_vars,
         NEW i \in Id, WellLeased(i)
  PROVE  WellLeased(i)'
<1>1. /\ JobStep(i) /\ issued \subseteq issued' /\ job[i] \in Job
  BY JobStepLemma DEF TypeOK
<1>2. CASE job'[i] = job[i]
  BY <1>1, <1>2 DEF WellLeased
<1>3. CASE JobGranted(i)
  <2>1. PICK c \in reserving : /\ c.kinds # {} => job[i].kind \in c.kinds
                               /\ job'[i] = Leased(job[i], i, c)
                               /\ TokenOf(i, c) \in issued'
    BY <1>3 DEF JobGranted
  <2>2. c \in ReserveCall /\ job[i].kind \notin Internal
    BY <2>1 DEF TypeOK, ReservesAsAllowed, ExternalRequests
  <2>3. TokenOf(i, c) # None /\ c.worker # None /\ c.at + LeaseTTL # None
    BY <2>2, TokenOfType, NullAssumption, NumberAssumption DEF ReserveCall
  <2>4. TokenOf(i, c).id = i /\ TokenOf(i, c).worker = c.worker
    BY DEF TokenOf
  <2>. QED BY <1>1, <2>1, <2>2, <2>3, <2>4, LeasedShape DEF WellLeased
<1>4. CASE JobExtended(i)
  <2>1. PICK c \in answering : /\ c.token.id = i /\ Holds(c.token)
                               /\ job'[i] = [job[i] EXCEPT !.expires = c.at + HeartbeatExtend]
    BY <1>4 DEF JobExtended
  <2>2. c.at + HeartbeatExtend # None /\ c.token # None
    BY NullAssumption, NumberAssumption DEF TypeOK, AnswerCall
  <2>3. job[i].token # None
    BY <2>1, <2>2 DEF Holds
  <2>. QED BY <1>1, <2>1, <2>2, <2>3 DEF WellLeased, Job
<1>5. CASE JobCompleted(i)
  <2>1. PICK o : job'[i] = [Unleased(job[i], "done") EXCEPT !.output = o]
    BY <1>5 DEF JobCompleted
  <2>. QED BY <1>1, <2>1 DEF Unleased, WellLeased, Job
<1>6. CASE JobFailed(i) \/ JobSwept(i) \/ JobRequeued(i)
  <2>1. PICK s \in {"queued", "failed"} : job'[i] = Unleased(job[i], s)
    BY <1>6 DEF JobFailed, JobSwept, JobRequeued
  <2>. QED BY <1>1, <2>1, UnleasedShape DEF WellLeased, Status
<1>7. CASE JobInserted(i)
  BY <1>7, NewJobShape DEF JobInserted, WellLeased
<1>8. CASE JobClaimed(i)
  BY <1>1, <1>8 DEF JobClaimed, WellLeased, Job
<1>9. CASE JobClosed(i)
  <2>1. PICK s \in {"done", "queued", "failed"}, o \in {job[i].output, None} :
          job'[i] = [job[i] EXCEPT !.status = s, !.output = o]
    BY <1>9 DEF JobClosed
  <2>2. job[i].kind \in Internal
    BY <1>9 DEF JobClosed, Known
  <2>. QED BY <1>1, <2>1, <2>2 DEF WellLeased, Job
<1>. QED BY <1>1, <1>2, <1>3, <1>4, <1>5, <1>6, <1>7, <1>8, <1>9 DEF JobStep

\* Whatever results, fails, sweeps, requeues and the pipeline do, an external
\* task carries a whole lease or none, and a row of the pipeline never any.
THEOREM WholeTaskLeases ==
  ASSUME ExternalRequests PROVE Spec => []LeaseShape
<1>1. Init => ReservesAsAllowed /\ LeaseShape
  BY DEF Init, ReservesAsAllowed, LeaseShape, NoJob
<1>2. TypeOK /\ Known /\ ReservesAsAllowed /\ LeaseShape /\ [Next]_vars
        => (ReservesAsAllowed /\ LeaseShape)'
  <2>. SUFFICES ASSUME TypeOK, Known, ReservesAsAllowed, LeaseShape, [Next]_vars
                PROVE  (ReservesAsAllowed /\ LeaseShape)'
    OBVIOUS
  <2>1. \A i \in Id : WellLeased(i)
    BY DEF LeaseShape, WellLeased
  <2>2. \A i \in Id : WellLeased(i)'
    BY <2>1, WellLeasedStep
  <2>3. LeaseShape'
    BY <2>2 DEF LeaseShape, WellLeased
  <2>. QED BY <2>3, ReservesStep
<1>. QED BY <1>1, <1>2, TaskTyping, PTL DEF Spec

-----------------------------------------------------------------------------
(***************************************************************************)
(* Rows that run with nobody on them.  Nothing here depends on the kinds   *)
(* the workers ask for.                                                    *)
(***************************************************************************)

\* The token and the expiry of a row are written together.
LeaseColumns == \A i \in Id : job[i].token = None <=> job[i].expires = None

LEMMA LeaseColumnsStep ==
  ASSUME TypeOK, LeaseColumns, [Next]_vars
  PROVE  LeaseColumns'
<1>. SUFFICES ASSUME NEW i \in Id
              PROVE  job'[i].token = None <=> job'[i].expires = None
  BY DEF LeaseColumns
<1>1. JobStep(i) /\ job[i] \in Job
  BY JobStepLemma DEF TypeOK
<1>2. job[i].token = None <=> job[i].expires = None
  BY DEF LeaseColumns
<1>3. CASE JobGranted(i)
  <2>1. PICK c \in reserving : job'[i] = Leased(job[i], i, c)
    BY <1>3 DEF JobGranted
  <2>2. c \in ReserveCall
    BY DEF TypeOK
  <2>3. TokenOf(i, c) # None /\ c.at + LeaseTTL # None
    BY <2>2, TokenOfType, NullAssumption, NumberAssumption DEF ReserveCall
  <2>. QED BY <1>1, <2>1, <2>2, <2>3, LeasedShape
<1>4. CASE JobExtended(i)
  <2>1. PICK c \in answering : /\ Holds(c.token) /\ c.token.id = i
                               /\ job'[i] = [job[i] EXCEPT !.expires = c.at + HeartbeatExtend]
    BY <1>4 DEF JobExtended
  <2>2. c.at + HeartbeatExtend # None /\ c.token # None
    BY NullAssumption, NumberAssumption DEF TypeOK, AnswerCall
  <2>. QED BY <1>1, <2>1, <2>2 DEF Holds, Job
<1>5. CASE JobCompleted(i)
  <2>1. PICK o : job'[i] = [Unleased(job[i], "done") EXCEPT !.output = o]
    BY <1>5 DEF JobCompleted
  <2>. QED BY <1>1, <2>1 DEF Unleased, Job
<1>6. CASE JobFailed(i) \/ JobSwept(i) \/ JobRequeued(i)
  <2>1. PICK s \in {"queued", "failed"} : job'[i] = Unleased(job[i], s)
    BY <1>6 DEF JobFailed, JobSwept, JobRequeued
  <2>. QED BY <1>1, <2>1, UnleasedShape DEF Status
<1>7. CASE JobInserted(i)
  BY <1>7, NewJobShape DEF JobInserted
<1>8. CASE JobClaimed(i)
  BY <1>1, <1>2, <1>8 DEF JobClaimed, Job
<1>9. CASE JobClosed(i)
  <2>1. PICK s \in {"done", "queued", "failed"}, o \in {job[i].output, None} :
          job'[i] = [job[i] EXCEPT !.status = s, !.output = o]
    BY <1>9 DEF JobClosed
  <2>. QED BY <1>1, <1>2, <2>1 DEF Job
<1>. QED BY <1>1, <1>2, <1>3, <1>4, <1>5, <1>6, <1>7, <1>8, <1>9 DEF JobStep

\* The pipeline lets go of a row in the three places that say so.
LEMMA LettingGo ==
  ASSUME TypeOK, Known, [Next]_vars, NEW i \in Id, working.id = i, working'.id # i
  PROVE  /\ working # Idle /\ working' = Idle
         /\ UNCHANGED job \/ job'[i].status # "running"
<1>0. working # Idle
  BY NullAssumption, NumberAssumption DEF Idle, Id
<1>1. CASE MarkDone
  <2>1. job'[i].status = "done" \/ UNCHANGED job
    BY <1>1 DEF MarkDone, TypeOK, Job
  <2>. QED BY <1>0, <1>1, <2>1 DEF MarkDone
<1>2. CASE MarkFailed
  <2>1. job'[i].status = Retried(job[i]) \/ UNCHANGED job
    BY <1>2 DEF MarkFailed, TypeOK, Job
  <2>. QED BY <1>0, <1>2, <2>1, RetriedType DEF MarkFailed
<1>3. CASE Crash
  BY <1>0, <1>3 DEF Crash
<1>4. ~ (\E k \in Kind : ClaimNext(k))
  BY <1>0 DEF ClaimNext
<1>5. ~ (\E x \in Text : Extract(x)) /\ ~ WriteChunks
  BY DEF Extract, WriteChunks, TypeOK, Working
<1>6. ~ UNCHANGED working
  OBVIOUS
<1>7. MarkDone \/ MarkFailed \/ Crash
  <2>1. ~ UNCHANGED vars /\ ~ Answer /\ ~ FollowUp
    BY <1>6 DEF vars, Answer, Heartbeat, InsertChunks, StoreOutput, Complete, Fail,
         UpsertText, FollowUp, EnqueueNext, FireTrigger
  <2>2. ~ SweepExpired /\ ~ Requeue /\ ~ CallFails /\ ~ Tick
    BY <1>6 DEF SweepExpired, Requeue, RequeueByFilter, CallFails, Tick
  <2>3. /\ ~ \E w \in Worker, K \in Requests, n \in Batches : ReserveBegin(w, K, n)
        /\ ~ \E c \in reserving : ReserveBatch(c)
        /\ ~ \E t \in issued : AnswerBegin(t)
        /\ ~ \E o \in Object, k \in Kind : Enqueue(o, k)
    BY <1>6 DEF ReserveBegin, ReserveBatch, AnswerBegin, Enqueue
  <2>. QED BY <1>4, <1>5, <2>1, <2>2, <2>3 DEF Next, Pipeline
<1>. QED BY <1>1, <1>2, <1>3, <1>7

\* No sweep, no answer and no worker moves a row that runs with nobody on it.
LEMMA StrandedStays ==
  ASSUME TypeOK, LeaseColumns, [Next]_vars, NEW i \in Id, Stranded(i), ~ Requeue
  PROVE  Stranded(i)'
<1>1. JobStep(i) /\ job[i] \in Job
  BY JobStepLemma DEF TypeOK
<1>2. ~ JobExtended(i) /\ ~ JobCompleted(i) /\ ~ JobFailed(i)
  <2>1. \A c \in answering : c.token # job[i].token
    BY NullAssumption DEF Stranded, TypeOK, AnswerCall
  <2>. QED BY <2>1 DEF JobExtended, JobCompleted, JobFailed, Holds
<1>3. ~ JobGranted(i) /\ ~ JobInserted(i) /\ ~ JobClaimed(i) /\ ~ JobRequeued(i)
  BY DEF Stranded, JobGranted, JobInserted, JobClaimed, JobRequeued
<1>4. ~ JobClosed(i) /\ ~ JobSwept(i)
  BY DEF Stranded, JobClosed, JobSwept, Expired, LeaseColumns
<1>5. job'[i] = job[i]
  BY <1>1, <1>2, <1>3, <1>4 DEF JobStep
<1>6. working'.id # i
  BY WorkingStep, NullAssumption, NumberAssumption DEF Stranded, Idle, Id
<1>. QED BY <1>5, <1>6 DEF Stranded

\* And only an end of the pipeline's work leaves one behind.
LEMMA StrandedBegins ==
  ASSUME TypeOK, Known, LeaseColumns, [Next]_vars, NEW i \in Id, ~ Stranded(i), Stranded(i)'
  PROVE  PipelineCutShort
<1>0. /\ job'[i].status = "running" /\ job'[i].token = None /\ working'.id # i
      /\ JobStep(i) /\ job[i] \in Job
  BY JobStepLemma DEF Stranded, TypeOK
<1>1. ~ JobGranted(i)
  <2>1. ASSUME NEW c \in reserving, job'[i] = Leased(job[i], i, c) PROVE FALSE
    <3>1. c \in ReserveCall
      BY DEF TypeOK
    <3>2. TokenOf(i, c) # None
      BY <3>1, TokenOfType, NullAssumption
    <3>. QED BY <1>0, <2>1, <3>1, <3>2, LeasedShape
  <2>. QED BY <2>1 DEF JobGranted
<1>2. ~ JobExtended(i)
  <2>1. ASSUME NEW c \in answering, Holds(c.token), c.token.id = i,
               job'[i] = [job[i] EXCEPT !.expires = c.at + HeartbeatExtend]
        PROVE  FALSE
    <3>1. c.token # None
      BY NullAssumption DEF TypeOK, AnswerCall
    <3>. QED BY <1>0, <2>1, <3>1 DEF Holds, Job
  <2>. QED BY <2>1 DEF JobExtended
<1>3. ~ JobCompleted(i)
  <2>1. ASSUME NEW o, job'[i] = [Unleased(job[i], "done") EXCEPT !.output = o] PROVE FALSE
    BY <1>0, <2>1 DEF Unleased, Job
  <2>. QED BY <2>1 DEF JobCompleted
<1>4. ~ JobFailed(i) /\ ~ JobSwept(i) /\ ~ JobRequeued(i)
  <2>1. ASSUME NEW s \in {"queued", "failed"}, job'[i] = Unleased(job[i], s) PROVE FALSE
    BY <1>0, <2>1, UnleasedShape DEF Status
  <2>. QED BY <2>1 DEF JobFailed, JobSwept, JobRequeued
<1>5. ~ JobInserted(i) /\ ~ JobClaimed(i)
  BY <1>0, NewJobShape DEF JobInserted, JobClaimed
<1>6. ~ JobClosed(i)
  <2>1. ASSUME NEW s \in {"done", "queued", "failed"}, NEW o,
               job'[i] = [job[i] EXCEPT !.status = s, !.output = o]
        PROVE  FALSE
    BY <1>0, <2>1 DEF Job
  <2>. QED BY <2>1 DEF JobClosed
<1>7. job'[i] = job[i]
  BY <1>0, <1>1, <1>2, <1>3, <1>4, <1>5, <1>6 DEF JobStep
<1>8. working.id = i
  BY <1>0, <1>7 DEF Stranded
<1>. QED BY <1>0, <1>8, LettingGo DEF PipelineCutShort

\* A task of the pipeline is left running with nobody on it only by a crash of
\* the registry or a refused write of its pipeline, and then stays so until the
\* operator requeues it, for workers that ask for any kinds, in any order.
THEOREM OnlyFailuresLeaveRowsRunning == Spec => OnlyFailuresStrand
<1>1. Init => LeaseColumns
  BY DEF Init, LeaseColumns, NoJob
<1>2. TypeOK /\ LeaseColumns /\ [Next]_vars => LeaseColumns'
  BY LeaseColumnsStep
<1>3. TypeOK /\ Known /\ LeaseColumns /\ [Next]_vars =>
        \A i \in Id : IF Stranded(i) THEN Stranded(i)' \/ Requeue
                                     ELSE ~ Stranded(i)' \/ PipelineCutShort
  BY StrandedStays, StrandedBegins
<1>. QED BY <1>1, <1>2, <1>3, TaskTyping, PTL DEF Spec, OnlyFailuresStrand

-----------------------------------------------------------------------------
(***************************************************************************)
(* How long a lease lasts.                                                 *)
(***************************************************************************)

\* An answer in flight was verified before its token ran out.
AnswersInTime == \A c \in answering : c.at <= c.token.exp * TicksPerSecond

LEMMA AnswersInTimeStep ==
  ASSUME TypeOK, AnswersInTime, [Next]_vars
  PROVE  AnswersInTime'
<1>1. ASSUME answering' \subseteq answering PROVE AnswersInTime'
  BY <1>1 DEF AnswersInTime
<1>2. ASSUME NEW t \in issued, AnswerBegin(t) PROVE AnswersInTime'
  BY <1>2 DEF AnswerBegin, Verify, AnswersInTime
<1>3. ASSUME NEW c \in answering, NEW x \in Text, UpsertText(c, x) PROVE AnswersInTime'
  BY <1>3 DEF UpsertText, Goes, AnswersInTime, TypeOK, AnswerCall
<1>4. ASSUME NEW c \in answering, InsertChunks(c) \/ StoreOutput(c) PROVE AnswersInTime'
  BY <1>4 DEF InsertChunks, StoreOutput, Goes, Ends, AnswersInTime, TypeOK, AnswerCall
<1>. QED BY <1>1, <1>2, <1>3, <1>4, AnswersOnlyEnd

LEMMA LeaseBoundedStep ==
  ASSUME TypeOK, AnswersInTime, LeaseBounded, [Next]_vars
  PROVE  LeaseBounded'
<1>. SUFFICES ASSUME NEW i \in Id, job'[i].token # None
              PROVE  job'[i].expires <= job'[i].token.exp * TicksPerSecond + LeaseSlack
  BY DEF LeaseBounded, LeaseSlack
<1>1. JobStep(i) /\ job[i] \in Job
  BY JobStepLemma DEF TypeOK
<1>2. ASSUME job'[i].token = job[i].token, job'[i].expires = job[i].expires
      PROVE  job'[i].expires <= job'[i].token.exp * TicksPerSecond + LeaseSlack
  BY <1>2 DEF LeaseBounded
<1>3. CASE JobGranted(i)
  <2>1. PICK c \in reserving : job'[i] = Leased(job[i], i, c)
    BY <1>3 DEF JobGranted
  <2>2. c \in ReserveCall /\ c.at + LeaseTTL \in Nat
    BY NumberAssumption DEF TypeOK, ReserveCall
  <2>3. /\ job'[i].expires = c.at + LeaseTTL
        /\ job'[i].token.exp = (c.at + LeaseTTL) \div TicksPerSecond
    <3>1. job'[i].expires = c.at + LeaseTTL /\ job'[i].token = TokenOf(i, c)
      BY <1>1, <2>1, <2>2, LeasedShape
    <3>2. TokenOf(i, c).exp = (c.at + LeaseTTL) \div TicksPerSecond
      BY DEF TokenOf
    <3>. QED BY <3>1, <3>2
  <2>4. job'[i].expires < job'[i].token.exp * TicksPerSecond + TicksPerSecond
    BY <2>2, <2>3, DivBelow, NumberAssumption
  <2>5. job'[i].expires \in Nat /\ job'[i].token.exp \in Nat
    BY <2>2, <2>3, DivNat, NumberAssumption
  <2>6. job'[i].token.exp * TicksPerSecond \in Nat
    BY <2>5, NumberAssumption
  <2>. QED BY <2>4, <2>5, <2>6, NumberAssumption DEF LeaseSlack
<1>4. CASE JobExtended(i)
  <2>1. PICK c \in answering : /\ c.token.id = i /\ Holds(c.token)
                               /\ job'[i] = [job[i] EXCEPT !.expires = c.at + HeartbeatExtend]
    BY <1>4 DEF JobExtended
  <2>2. c.at \in Nat /\ c.token.exp \in Nat
    BY DEF TypeOK, AnswerCall, Token
  <2>3. job'[i].token = c.token /\ job'[i].expires = c.at + HeartbeatExtend
    BY <1>1, <2>1 DEF Job, Holds
  <2>4. c.at <= c.token.exp * TicksPerSecond
    BY DEF AnswersInTime
  <2>5. c.token.exp * TicksPerSecond \in Nat
    BY <2>2, NumberAssumption
  <2>. QED BY <2>2, <2>3, <2>4, <2>5, NumberAssumption DEF LeaseSlack
<1>5. CASE JobCompleted(i)
  <2>1. PICK o : job'[i] = [Unleased(job[i], "done") EXCEPT !.output = o]
    BY <1>5 DEF JobCompleted
  <2>. QED BY <1>1, <2>1 DEF Unleased, Job
<1>6. CASE JobFailed(i) \/ JobSwept(i) \/ JobRequeued(i)
  <2>1. PICK s \in {"queued", "failed"} : job'[i] = Unleased(job[i], s)
    BY <1>6 DEF JobFailed, JobSwept, JobRequeued
  <2>. QED BY <1>1, <2>1, UnleasedShape DEF Status
<1>7. CASE JobInserted(i)
  BY <1>7, NewJobShape DEF JobInserted
<1>8. CASE JobClaimed(i)
  BY <1>1, <1>2, <1>8 DEF JobClaimed, Job
<1>9. CASE JobClosed(i)
  <2>1. PICK s \in {"done", "queued", "failed"}, o \in {job[i].output, None} :
          job'[i] = [job[i] EXCEPT !.status = s, !.output = o]
    BY <1>9 DEF JobClosed
  <2>. QED BY <1>1, <1>2, <2>1 DEF Job
<1>. QED BY <1>1, <1>2, <1>3, <1>4, <1>5, <1>6, <1>7, <1>8, <1>9 DEF JobStep

\* The lease of a task is over in bounded time whatever its worker sends, early
\* heartbeats and late ones, of this lease or of an older one of the same task.
THEOREM BoundedTaskLeases == Spec => []LeaseBounded
<1>1. Init => AnswersInTime /\ LeaseBounded
  BY DEF Init, AnswersInTime, LeaseBounded, NoJob
<1>2. TypeOK /\ AnswersInTime /\ LeaseBounded /\ [Next]_vars
        => (AnswersInTime /\ LeaseBounded)'
  BY AnswersInTimeStep, LeaseBoundedStep
<1>. QED BY <1>1, <1>2, TaskTyping, PTL DEF Spec

\* The sweeper takes back every task whose token ran out more than a heartbeat,
\* or the rounding of a second, ago: no silent or stubborn worker keeps one.
THEOREM SweepsTakeTasksBack == Spec => SweepsReclaim
<1>1. Init => LeaseColumns
  BY DEF Init, LeaseColumns, NoJob
<1>2. TypeOK /\ LeaseColumns /\ [Next]_vars => LeaseColumns'
  BY LeaseColumnsStep
<1>3. TypeOK /\ LeaseColumns /\ LeaseBounded /\ SweepExpired =>
        \A i \in Id : job'[i].status = "running" /\ job'[i].token # None =>
          now <= job'[i].token.exp * TicksPerSecond + LeaseSlack
  <2>. SUFFICES ASSUME TypeOK, LeaseColumns, LeaseBounded, SweepExpired, NEW i \in Id,
                       job'[i].status = "running", job'[i].token # None
                PROVE  now <= job'[i].token.exp * TicksPerSecond + LeaseSlack
    OBVIOUS
  <2>1. job[i] \in Job /\ now \in Nat
    BY NumberAssumption DEF TypeOK
  <2>2. ~ Expired(i) /\ job'[i] = job[i]
    BY <2>1, UnleasedShape DEF SweepExpired, Status
  <2>3. /\ now <= job[i].expires /\ job[i].expires \in Nat
        /\ job[i].token.exp \in Nat
    BY <2>1, <2>2 DEF Expired, LeaseColumns, Job, Token
  <2>4. job[i].expires <= job[i].token.exp * TicksPerSecond + LeaseSlack
    BY <2>2 DEF LeaseBounded
  <2>5. job[i].token.exp * TicksPerSecond \in Nat /\ LeaseSlack \in Nat
    BY <2>3, NumberAssumption DEF LeaseSlack
  <2>. QED BY <2>1, <2>2, <2>3, <2>4, <2>5
<1>. QED BY <1>1, <1>2, <1>3, TaskTyping, BoundedTaskLeases, PTL DEF Spec, SweepsReclaim

-----------------------------------------------------------------------------
(***************************************************************************)
(* Settled tasks.  No one else runs the row that the pipeline works on.    *)
(***************************************************************************)

PipelineRow == working.stage # "idle" => job[working.id].status \in {"queued", "running"}

\* An answer in flight only ever matches a lease, hence no settled row and no
\* row of the pipeline.
LEMMA AnswersMatchLeases ==
  ASSUME TypeOK, LeaseShape, NEW i \in Id, JobExtended(i) \/ JobCompleted(i) \/ JobFailed(i)
  PROVE  job[i].status = "running" /\ job[i].kind \notin Internal /\ job[i].token # None
<1>1. PICK c \in answering : job[i].token = c.token
  BY DEF JobExtended, JobCompleted, JobFailed, Holds
<1>2. c.token # None
  BY NullAssumption DEF TypeOK, AnswerCall
<1>. QED BY <1>1, <1>2 DEF LeaseShape

LEMMA PipelineRowStep ==
  ASSUME TypeOK, Known, LeaseShape, PipelineRow, [Next]_vars
  PROVE  PipelineRow'
<1>1. CASE working' = Idle
  BY <1>1 DEF PipelineRow, Idle
<1>2. ASSUME working' # Idle, working.stage # "idle",
             working' = working \/ working'.id = working.id
      PROVE  PipelineRow'
  <2>. DEFINE i == working.id
  <2>1. /\ i \in Id /\ JobStep(i) /\ job[i] \in Job
        /\ job[i].kind \in Internal /\ job[i].status \in {"queued", "running"}
    BY <1>2, JobStepLemma DEF Known, PipelineRow, TypeOK
  <2>2. ~ JobExtended(i) /\ ~ JobCompleted(i) /\ ~ JobFailed(i)
    BY <2>1, AnswersMatchLeases
  <2>3. ~ JobInserted(i) /\ ~ JobClosed(i)
    BY <1>2, <2>1 DEF JobInserted, JobClosed
  <2>4. CASE JobGranted(i)
    <3>1. PICK c \in reserving : job'[i] = Leased(job[i], i, c)
      BY <2>4 DEF JobGranted
    <3>2. job'[i].status = "running"
      BY <2>1, <3>1, LeasedShape DEF TypeOK
    <3>. QED BY <1>2, <3>2 DEF PipelineRow
  <2>5. CASE JobClaimed(i)
    BY <1>2, <2>1, <2>5 DEF JobClaimed, PipelineRow, Job
  <2>6. CASE JobSwept(i) \/ JobRequeued(i)
    BY <1>2, <2>1, <2>6, UnleasedShape DEF JobSwept, JobRequeued, PipelineRow, Status
  <2>. QED BY <1>2, <2>1, <2>2, <2>3, <2>4, <2>5, <2>6 DEF JobStep, PipelineRow
<1>3. ASSUME working'.id \in Id, job'[working'.id].status = "running" PROVE PipelineRow'
  BY <1>3 DEF PipelineRow
<1>4. CASE working' = working /\ working.stage = "idle"
  BY <1>4 DEF PipelineRow
<1>. QED BY <1>1, <1>2, <1>3, <1>4, WorkingStep

\* As long as every reserve names kinds, and none of the pipeline's, neither a
\* late answer, a sweep nor the pipeline reopens a task that is done or failed:
\* only the operator does.
THEOREM SettledStayWithExternalRequests ==
  ASSUME ExternalRequests PROVE Spec => SettledIsFinal
<1>1. Init => PipelineRow
  BY DEF Init, PipelineRow, Idle
<1>2. TypeOK /\ Known /\ LeaseShape /\ PipelineRow /\ [Next]_vars => PipelineRow'
  BY PipelineRowStep
<1>3. TypeOK /\ Known /\ LeaseShape /\ PipelineRow /\ [Next]_vars =>
        \/ \A i \in Id : job[i].status \in Settled => job'[i].status = job[i].status
        \/ Requeue
  <2>. SUFFICES ASSUME TypeOK, Known, LeaseShape, PipelineRow, [Next]_vars, ~ Requeue,
                       NEW i \in Id, job[i].status \in {"done", "failed"}
                PROVE  job'[i].status = job[i].status
    BY DEF Settled
  <2>1. JobStep(i)
    BY JobStepLemma
  <2>2. ~ JobExtended(i) /\ ~ JobCompleted(i) /\ ~ JobFailed(i)
    BY AnswersMatchLeases
  <2>3. ~ JobGranted(i) /\ ~ JobInserted(i) /\ ~ JobClaimed(i) /\ ~ JobSwept(i)
    BY DEF JobGranted, JobInserted, JobClaimed, JobSwept, Expired
  <2>4. ~ JobClosed(i) /\ ~ JobRequeued(i)
    BY DEF JobClosed, JobRequeued, PipelineRow
  <2>. QED BY <2>1, <2>2, <2>3, <2>4 DEF JobStep
<1>. QED BY <1>1, <1>2, <1>3, TaskTyping, WholeTaskLeases, PTL DEF Spec, SettledIsFinal

\* Without that assumption, which the registry does not enforce: a row of an
\* external kind still has a token only while it runs, for the pipeline, which
\* settles a row and leaves its token, never takes such a row.
OuterLeased == \A i \in Id :
  job[i].token # None /\ job[i].kind \notin Internal => job[i].status = "running"

LEMMA OuterLeasedStep ==
  ASSUME TypeOK, Known, OuterLeased, [Next]_vars
  PROVE  OuterLeased'
<1>. SUFFICES ASSUME NEW i \in Id, job'[i].token # None, job'[i].kind \notin Internal
              PROVE  job'[i].status = "running"
  BY DEF OuterLeased
<1>1. JobStep(i) /\ job[i] \in Job
  BY JobStepLemma DEF TypeOK
<1>2. CASE job'[i] = job[i]
  BY <1>2 DEF OuterLeased
<1>3. CASE JobGranted(i)
  BY <1>1, <1>3, LeasedShape DEF JobGranted, TypeOK
<1>4. CASE JobExtended(i)
  BY <1>1, <1>4 DEF JobExtended, Holds, Job
<1>5. ~ JobCompleted(i)
  <2>1. ASSUME NEW o, job'[i] = [Unleased(job[i], "done") EXCEPT !.output = o] PROVE FALSE
    BY <1>1, <2>1 DEF Unleased, Job
  <2>. QED BY <2>1 DEF JobCompleted
<1>6. ~ JobFailed(i) /\ ~ JobSwept(i) /\ ~ JobRequeued(i)
  BY <1>1, UnleasedShape DEF JobFailed, JobSwept, JobRequeued, Status
<1>7. ~ JobInserted(i)
  BY NewJobShape DEF JobInserted
<1>8. ~ JobClaimed(i)
  BY <1>1 DEF JobClaimed, Job
<1>9. ~ JobClosed(i)
  BY <1>1 DEF JobClosed, Known, Job
<1>. QED BY <1>1, <1>2, <1>3, <1>4, <1>5, <1>6, <1>7, <1>8, <1>9 DEF JobStep

\* Whatever kinds the reserves name, a settled task of an external kind is
\* reopened by the operator alone, and one of the pipeline's kinds besides by a
\* fail that carries the token still on it, or by the pipeline working on it.
THEOREM SettledTasksStay == Spec => ReopenedOnlyIfShared
<1>1. Init => OuterLeased
  BY DEF Init, OuterLeased, NoJob
<1>2. TypeOK /\ Known /\ OuterLeased /\ [Next]_vars => OuterLeased'
  BY OuterLeasedStep
<1>3. TypeOK /\ Known /\ OuterLeased /\ [Next]_vars =>
        \A i \in Id : job[i].status \in Settled /\ job'[i].status # job[i].status =>
          \/ Requeue
          \/ /\ job[i].kind \in Internal
             /\ \/ \E c \in answering : c.token = job[i].token
                \/ working.id = i
  <2>. SUFFICES ASSUME TypeOK, Known, OuterLeased, [Next]_vars, NEW i \in Id,
                       job[i].status \in {"done", "failed"},
                       job'[i].status # job[i].status, ~ Requeue
                PROVE  /\ job[i].kind \in Internal
                       /\ \/ \E c \in answering : c.token = job[i].token
                          \/ working.id = i
    BY DEF Settled
  <2>1. JobStep(i)
    BY JobStepLemma
  <2>2. ~ JobGranted(i) /\ ~ JobExtended(i) /\ ~ JobCompleted(i) /\ ~ JobInserted(i)
    BY DEF JobGranted, JobExtended, JobCompleted, JobInserted, Holds
  <2>3. ~ JobClaimed(i) /\ ~ JobSwept(i) /\ ~ JobRequeued(i)
    BY DEF JobClaimed, JobSwept, JobRequeued, Expired
  <2>4. CASE JobFailed(i)
    <3>1. PICK c \in answering : job[i].token = c.token
      BY <2>4 DEF JobFailed
    <3>2. c.token # None
      BY NullAssumption DEF TypeOK, AnswerCall
    <3>. QED BY <3>1, <3>2 DEF OuterLeased
  <2>5. CASE JobClosed(i)
    BY <2>5 DEF JobClosed, Known
  <2>. QED BY <2>1, <2>2, <2>3, <2>4, <2>5 DEF JobStep
<1>. QED BY <1>1, <1>2, <1>3, TaskTyping, PTL DEF Spec, ReopenedOnlyIfShared

-----------------------------------------------------------------------------
(***************************************************************************)
(* What is done is stored.  An answer in flight has written all that comes *)
(* before the stage it is in.                                              *)
(***************************************************************************)

StoredSoFar ==
  \A c \in answering :
    /\ c.stage \in {"verified", "chunks"} => ~ c.stored
    /\ c.stage = "chunks" => document[ObjectOf(c)] # None
    /\ c.stage = "complete" => IF c.stored THEN OutputOf[ObjectOf(c)] \in lake
                                           ELSE document[ObjectOf(c)] # None

\* The lake only grows, and a document once kept is replaced but not lost.
LEMMA NothingIsLost ==
  ASSUME TypeOK, Known, [Next]_vars
  PROVE  /\ lake \subseteq lake'
         /\ \A o \in Object : document[o] # None => document'[o] # None
<1>0. None \notin Text
  BY NullAssumption
<1>1. ASSUME lake' = lake, document' = document
      PROVE  lake \subseteq lake' /\ \A o \in Object : document[o] # None => document'[o] # None
  BY <1>1
<1>2. ASSUME NEW c \in answering, NEW x \in Text, UpsertText(c, x)
      PROVE  lake \subseteq lake' /\ \A o \in Object : document[o] # None => document'[o] # None
  BY <1>0, <1>2 DEF UpsertText, TypeOK
<1>3. ASSUME NEW c \in answering, StoreOutput(c)
      PROVE  lake \subseteq lake' /\ \A o \in Object : document[o] # None => document'[o] # None
  BY <1>3 DEF StoreOutput
<1>4. ASSUME NEW x \in Text, Extract(x)
      PROVE  lake \subseteq lake' /\ \A o \in Object : document[o] # None => document'[o] # None
  BY <1>0, <1>4 DEF Extract, TypeOK
<1>5. CASE UNCHANGED vars
  BY <1>1, <1>5 DEF vars
<1>6. ASSUME NEW c \in answering, NEW retryable \in BOOLEAN,
             Heartbeat(c) \/ InsertChunks(c) \/ Complete(c) \/ Fail(c, retryable)
      PROVE  lake' = lake /\ document' = document
  BY <1>6 DEF Heartbeat, InsertChunks, Complete, Fail
<1>7. ASSUME NEW w \in Worker, NEW K \in Requests, NEW n \in Batches, ReserveBegin(w, K, n)
      PROVE  lake' = lake /\ document' = document
  BY <1>7 DEF ReserveBegin
<1>8. ASSUME NEW c \in reserving, ReserveBatch(c) PROVE lake' = lake /\ document' = document
  BY <1>8 DEF ReserveBatch
<1>9. ASSUME NEW t \in issued, AnswerBegin(t) PROVE lake' = lake /\ document' = document
  BY <1>9 DEF AnswerBegin
<1>10. CASE FollowUp
  BY <1>1, <1>10 DEF FollowUp, EnqueueNext, FireTrigger
<1>11. ASSUME NEW k \in Kind, ClaimNext(k) PROVE lake' = lake /\ document' = document
  BY <1>11 DEF ClaimNext
<1>12. CASE WriteChunks \/ MarkDone \/ MarkFailed
  BY <1>1, <1>12 DEF WriteChunks, MarkDone, MarkFailed
<1>13. CASE SweepExpired \/ Requeue \/ CallFails \/ Crash \/ Tick
  BY <1>1, <1>13 DEF SweepExpired, Requeue, RequeueByFilter, CallFails, Crash, Tick
<1>14. ASSUME NEW o \in Object, NEW k \in Kind, Enqueue(o, k)
       PROVE  lake' = lake /\ document' = document
  BY <1>14 DEF Enqueue
<1>. QED
  BY <1>1, <1>2, <1>3, <1>4, <1>5, <1>6, <1>7, <1>8, <1>9, <1>10, <1>11, <1>12, <1>13, <1>14
     DEF Next, Answer, Pipeline

LEMMA StoredSoFarStep ==
  ASSUME TypeOK, Known, StoredSoFar, [Next]_vars
  PROVE  StoredSoFar'
<1>1. /\ lake \subseteq lake'
      /\ \A o \in Object : document[o] # None => document'[o] # None
  BY NothingIsLost
<1>2. ASSUME NEW c \in answering
      PROVE  c.token.id \in Id /\ ObjectOf(c) \in Object
             /\ job'[c.token.id].object = ObjectOf(c)
  <2>1. c.token.id \in Id /\ job[c.token.id].status # "absent"
    BY DEF Known, TypeOK, AnswerCall, Token
  <2>. QED BY <2>1, KnownRows DEF Known, JobKept, ObjectOf
<1>. DEFINE Good(c) ==
       /\ c.stage \in {"verified", "chunks"} => ~ c.stored
       /\ c.stage = "chunks" => document[ObjectOf(c)] # None
       /\ c.stage = "complete" => IF c.stored THEN OutputOf[ObjectOf(c)] \in lake
                                              ELSE document[ObjectOf(c)] # None
<1>3. ASSUME NEW c \in answering PROVE Good(c)'
  BY <1>1, <1>2 DEF StoredSoFar, ObjectOf
<1>4. ASSUME NEW c \in answering' PROVE Good(c)'
  <2>1. CASE c \in answering
    BY <1>3, <2>1
  <2>2. ASSUME NEW t \in issued, AnswerBegin(t), c \notin answering PROVE Good(c)'
    BY <1>4, <2>2 DEF AnswerBegin
  <2>3. ASSUME NEW d \in answering, NEW x \in Text, UpsertText(d, x), c \notin answering
        PROVE  Good(c)'
    <3>1. c = [d EXCEPT !.stage = "chunks", !.text = x] /\ d.stage = "verified" /\ d \in AnswerCall
      BY <1>4, <2>3 DEF UpsertText, Goes, TypeOK
    <3>2. c.stage = "chunks" /\ c.stored = d.stored /\ c.token = d.token
      BY <3>1 DEF AnswerCall
    <3>3. document'[ObjectOf(d)] # None
      BY <1>2, <2>3, NullAssumption DEF UpsertText, TypeOK
    <3>. QED BY <1>2, <3>1, <3>2, <3>3 DEF StoredSoFar, ObjectOf
  <2>4. ASSUME NEW d \in answering, InsertChunks(d), c \notin answering PROVE Good(c)'
    <3>1. c = [d EXCEPT !.stage = "complete"] /\ d.stage = "chunks" /\ d \in AnswerCall
      BY <1>4, <2>4 DEF InsertChunks, Goes, Ends, TypeOK
    <3>2. c.stage = "complete" /\ c.stored = d.stored /\ c.token = d.token
      BY <3>1 DEF AnswerCall
    <3>. QED BY <1>1, <1>2, <3>1, <3>2 DEF StoredSoFar, ObjectOf
  <2>5. ASSUME NEW d \in answering, StoreOutput(d), c \notin answering PROVE Good(c)'
    <3>1. c = [d EXCEPT !.stage = "complete", !.stored = TRUE] /\ d \in AnswerCall
      BY <1>4, <2>5 DEF StoreOutput, Goes, TypeOK
    <3>2. c.stage = "complete" /\ c.stored /\ c.token = d.token
      BY <3>1 DEF AnswerCall
    <3>3. OutputOf[ObjectOf(d)] \in lake'
      BY <2>5 DEF StoreOutput
    <3>. QED BY <1>2, <3>2, <3>3 DEF ObjectOf
  <2>6. ASSUME ~ (\E t \in issued : AnswerBegin(t)),
               ~ (\E d \in answering : \/ InsertChunks(d) \/ StoreOutput(d)
                                        \/ \E x \in Text : UpsertText(d, x))
        PROVE  c \in answering
    BY <1>4, <2>6, AnswersOnlyEnd
  <2>. QED BY <2>1, <2>2, <2>3, <2>4, <2>5, <2>6
<1>. QED BY <1>4 DEF StoredSoFar

\* Whatever dies, repeats or loses its lease, and whoever settles the row, an
\* external task is done only when its text or its output is stored.
THEOREM DoneTasksAreStored == Spec => []DoneIsStored
<1>1. Init => StoredSoFar /\ DoneIsStored
  BY DEF Init, StoredSoFar, DoneIsStored, NoJob
<1>2. TypeOK /\ Known /\ StoredSoFar /\ DoneIsStored /\ [Next]_vars
        => (StoredSoFar /\ DoneIsStored)'
  <2>. SUFFICES ASSUME TypeOK, Known, StoredSoFar, DoneIsStored, [Next]_vars,
                       NEW i \in Id, job'[i].status = "done", job'[i].kind \notin Internal
                PROVE  IF job'[i].output = None THEN document'[job'[i].object] # None
                                                ELSE job'[i].output \in lake'
    BY StoredSoFarStep DEF DoneIsStored
  <2>1. JobStep(i) /\ job[i] \in Job
    BY JobStepLemma DEF TypeOK
  <2>2. /\ lake \subseteq lake'
        /\ \A o \in Object : document[o] # None => document'[o] # None
    BY NothingIsLost
  <2>3. CASE job'[i] = job[i]
    <3>1. job[i].object \in Object
      BY <2>3 DEF Known
    <3>. QED BY <2>2, <2>3, <3>1 DEF DoneIsStored
  <2>4. CASE JobCompleted(i)
    <3>1. PICK c \in answering :
            /\ c.token.id = i /\ Holds(c.token) /\ c.stage = "complete"
            /\ job'[i] = [Unleased(job[i], "done") EXCEPT !.output = OutputOfCall(c)]
      BY <2>4 DEF JobCompleted
    <3>2. job'[i].object = ObjectOf(c) /\ job'[i].output = OutputOfCall(c)
      BY <2>1, <3>1 DEF Unleased, Job, ObjectOf
    <3>3. ObjectOf(c) \in Object
      BY <3>1 DEF Holds, Known, ObjectOf
    <3>4. CASE c.stored
      <4>1. OutputOfCall(c) \in lake /\ OutputOfCall(c) # None
        BY <3>1, <3>3, <3>4, ObjectAssumption, NullAssumption DEF StoredSoFar, OutputOfCall
      <4>. QED BY <2>2, <3>2, <4>1
    <3>5. CASE ~ c.stored
      <4>1. OutputOfCall(c) = None /\ document[ObjectOf(c)] # None
        BY <3>1, <3>5 DEF StoredSoFar, OutputOfCall
      <4>. QED BY <2>2, <3>2, <3>3, <4>1
    <3>. QED BY <3>4, <3>5
  <2>5. ~ JobGranted(i)
    BY <2>1, LeasedShape DEF JobGranted, TypeOK
  <2>6. CASE JobExtended(i)
    <3>1. job[i].status = "running" /\ job'[i].status = job[i].status
      BY <2>1, <2>6 DEF JobExtended, Holds, Job
    <3>. QED BY <3>1
  <2>7. ~ JobFailed(i) /\ ~ JobSwept(i) /\ ~ JobRequeued(i)
    BY <2>1, UnleasedShape DEF JobFailed, JobSwept, JobRequeued, Status
  <2>8. ~ JobInserted(i)
    BY NewJobShape DEF JobInserted
  <2>9. ~ JobClaimed(i)
    BY <2>1 DEF JobClaimed, Job
  <2>10. ~ JobClosed(i)
    <3>1. JobClosed(i) => job[i].kind \in Internal /\ job[i].status # "absent"
      BY DEF JobClosed, Known
    <3>2. JobKept(i)
      BY KnownRows
    <3>. QED BY <3>1, <3>2 DEF JobKept
  <2>. QED BY <2>1, <2>3, <2>4, <2>5, <2>6, <2>7, <2>8, <2>9, <2>10 DEF JobStep
<1>. QED BY <1>1, <1>2, TaskTyping, PTL DEF Spec

-----------------------------------------------------------------------------
(***************************************************************************)
(* The rows of external kinds are a leased work queue.                     *)
(***************************************************************************)

ItemStep(i) ==
  \/ Queue!Add(i) \/ Queue!Grant(i) \/ Queue!Finish(i)
  \/ Queue!Release(i) \/ Queue!Revive(i) \/ Queue!Keep(i)

LEMMA ItemStates ==
  ASSUME NEW r \in Job
  PROVE  /\ r.kind \in Internal => ItemState(r) = "absent"
         /\ r.kind \notin Internal =>
              /\ r.status = "absent" => ItemState(r) = "absent"
              /\ r.status = "queued" => ItemState(r) = "idle"
              /\ r.status = "running" => ItemState(r) = "held"
              /\ r.status \in {"done", "failed"} => ItemState(r) = "finished"
BY DEF ItemState, Settled

LEMMA ItemStateType ==
  ASSUME NEW r \in Job
  PROVE  ItemState(r) \in {"absent", "idle", "held", "finished"}
BY ItemStates DEF Job, Status

\* A row of the pipeline is no item, before and after every step.
LEMMA InternalIsNoItem ==
  ASSUME TypeOK, TypeOK', LeaseShape, LeaseShape', NEW i \in Id,
         job[i].kind \in Internal, job'[i].kind \in Internal
  PROVE  ItemStep(i)
<1>1. job[i].token = None /\ job'[i].token = None
  BY DEF LeaseShape
<1>2. job[i] \in Job /\ job'[i] \in Job
  BY DEF TypeOK
<1>. QED BY <1>1, <1>2, ItemStates DEF ItemStep, Queue!Keep, Queue!Becomes

LEMMA TaskIsItem ==
  ASSUME TypeOK, TypeOK', Known, LeaseShape, LeaseShape', [Next]_vars, NEW i \in Id
  PROVE  ItemStep(i)
<1>1. /\ JobStep(i) /\ JobKept(i) /\ job[i] \in Job /\ job'[i] \in Job
  BY JobStepLemma, KnownRows DEF TypeOK
<1>2. CASE job[i].status # "absent" /\ job[i].kind \in Internal
  BY <1>1, <1>2, InternalIsNoItem DEF JobKept
<1>3. CASE job[i].status # "absent" /\ job[i].kind \notin Internal
  <2>1. job'[i].kind \notin Internal
    BY <1>1, <1>3 DEF JobKept
  <2>2. CASE job'[i] = job[i]
    BY <2>2 DEF ItemStep, Queue!Keep, Queue!Becomes
  <2>3. CASE JobGranted(i)
    <3>1. PICK c \in reserving : job[i].status = "queued" /\ job'[i] = Leased(job[i], i, c)
      BY <2>3 DEF JobGranted
    <3>2. job'[i].status = "running" /\ job'[i].token = TokenOf(i, c) /\ TokenOf(i, c) \in Token
      BY <1>1, <3>1, LeasedShape, TokenOfType DEF TypeOK
    <3>. QED BY <1>1, <1>3, <2>1, <3>1, <3>2, ItemStates DEF ItemStep, Queue!Grant
  <2>4. CASE JobExtended(i)
    <3>1. /\ job'[i].status = job[i].status /\ job'[i].token = job[i].token
          /\ job[i].status = "running"
      BY <1>1, <2>4 DEF JobExtended, Holds, Job
    <3>. QED BY <1>1, <1>3, <2>1, <3>1, ItemStates DEF ItemStep, Queue!Keep, Queue!Becomes
  <2>5. CASE JobCompleted(i)
    <3>0. PICK c \in answering : /\ Holds(c.token) /\ c.token.id = i
                                 /\ \E o : job'[i] = [Unleased(job[i], "done") EXCEPT !.output = o]
      BY <2>5 DEF JobCompleted
    <3>1. PICK o : /\ Holds(c.token) /\ c.token.id = i
                   /\ job'[i] = [Unleased(job[i], "done") EXCEPT !.output = o]
      BY <3>0
    <3>2. job'[i].status = "done" /\ job'[i].token = None
      BY <1>1, <3>1 DEF Unleased, Job
    <3>3. job[i].status = "running" /\ job[i].token \in {d.token : d \in answering}
      BY <3>1 DEF Holds
    <3>. QED BY <1>1, <1>3, <2>1, <3>2, <3>3, ItemStates
             DEF ItemStep, Queue!Finish, Queue!Becomes
  <2>6. CASE JobFailed(i)
    <3>1. PICK c \in answering, s \in {"queued", "failed"} :
            job[i].token = c.token /\ job'[i] = Unleased(job[i], s)
      BY <2>6 DEF JobFailed
    <3>2. job'[i].status = s /\ job'[i].token = None
      BY <1>1, <3>1, UnleasedShape DEF Status
    <3>3. job[i].status = "running" /\ job[i].token \in {d.token : d \in answering}
      BY <2>6, <3>1, AnswersMatchLeases
    <3>4. CASE s = "queued"
      BY <1>1, <1>3, <2>1, <3>2, <3>3, <3>4, ItemStates
         DEF ItemStep, Queue!Release, Queue!Becomes
    <3>5. CASE s = "failed"
      BY <1>1, <1>3, <2>1, <3>2, <3>3, <3>5, ItemStates
         DEF ItemStep, Queue!Finish, Queue!Becomes
    <3>. QED BY <3>4, <3>5
  <2>7. ~ JobInserted(i) /\ ~ JobClaimed(i) /\ ~ JobClosed(i)
    BY <1>3 DEF JobInserted, JobClaimed, JobClosed, Known
  <2>8. CASE JobSwept(i)
    <3>1. job[i].status = "running" /\ job'[i].status = "queued" /\ job'[i].token = None
      BY <1>1, <2>8, UnleasedShape DEF JobSwept, Expired, Status
    <3>. QED BY <1>1, <1>3, <2>1, <3>1, ItemStates DEF ItemStep, Queue!Release, Queue!Becomes
  <2>9. CASE JobRequeued(i)
    <3>1. job'[i].status = "queued" /\ job'[i].token = None
      BY <1>1, <2>9, UnleasedShape DEF JobRequeued, Status
    <3>2. CASE job[i].status = "queued"
      <4>1. job[i].token = None
        BY <3>2 DEF LeaseShape
      <4>. QED BY <1>1, <1>3, <2>1, <3>1, <3>2, <4>1, ItemStates
               DEF ItemStep, Queue!Keep, Queue!Becomes
    <3>3. CASE job[i].status = "running"
      BY <1>1, <1>3, <2>1, <3>1, <3>3, ItemStates DEF ItemStep, Queue!Release, Queue!Becomes
    <3>4. CASE job[i].status \in {"done", "failed"}
      BY <1>1, <1>3, <2>1, <3>1, <3>4, ItemStates DEF ItemStep, Queue!Revive, Queue!Becomes
    <3>. QED BY <1>1, <1>3, <3>2, <3>3, <3>4 DEF Job, Status
  <2>. QED BY <1>1, <2>2, <2>3, <2>4, <2>5, <2>6, <2>7, <2>8, <2>9 DEF JobStep
<1>4. CASE job[i].status = "absent"
  <2>1. job[i].token = None /\ ItemState(job[i]) = "absent"
    BY <1>1, <1>4, ItemStates DEF LeaseShape
  <2>2. CASE job'[i] = job[i]
    BY <2>2 DEF ItemStep, Queue!Keep, Queue!Becomes
  <2>3. CASE JobInserted(i)
    <3>1. job'[i].status = "queued" /\ job'[i].token = None
      BY <2>3, NewJobShape DEF JobInserted
    <3>2. CASE job'[i].kind \in Internal
      BY <1>1, <2>1, <3>1, <3>2, ItemStates DEF ItemStep, Queue!Keep, Queue!Becomes
    <3>3. CASE job'[i].kind \notin Internal
      BY <1>1, <2>1, <3>1, <3>3, ItemStates DEF ItemStep, Queue!Add, Queue!Becomes
    <3>. QED BY <3>2, <3>3
  <2>4. ~ JobGranted(i) /\ ~ JobExtended(i) /\ ~ JobCompleted(i) /\ ~ JobFailed(i)
    BY <1>4, AnswersMatchLeases DEF JobGranted
  <2>5. ~ JobClaimed(i) /\ ~ JobClosed(i) /\ ~ JobSwept(i) /\ ~ JobRequeued(i)
    BY <1>4 DEF JobClaimed, JobClosed, JobSwept, JobRequeued, Known, Expired
  <2>. QED BY <1>1, <2>2, <2>3, <2>4, <2>5 DEF JobStep
<1>. QED BY <1>2, <1>3, <1>4

\* An external task is worked on under one token at a time and settled only by
\* an answer that carries it, whatever the pipeline does in the same table.
THEOREM TasksAreALeaseQueue ==
  ASSUME ExternalRequests PROVE Spec => ImplementsLeaseQueue
<1>1. Init => Queue!Init
  <2>. SUFFICES ASSUME Init PROVE Queue!Init
    OBVIOUS
  <2>1. \A i \in Id : job[i] = NoJob
    BY DEF Init
  <2>2. ItemState(NoJob) = "absent" /\ NoJob.token = None
    BY NoJobType, ItemStates DEF NoJob
  <2>3. answering = {}
    BY DEF Init
  <2>. QED BY <2>1, <2>2, <2>3 DEF Queue!Init
<1>2. TypeOK /\ TypeOK' /\ Known /\ LeaseShape /\ LeaseShape' /\ [Next]_vars
        => [Queue!Next]_Queue!vars
  <2>. SUFFICES ASSUME TypeOK, TypeOK', Known, LeaseShape, LeaseShape', [Next]_vars
                PROVE  Queue!Next
    OBVIOUS
  <2>1. \A i \in Id : ItemStep(i)
    BY TaskIsItem
  <2>2. \A i \in Id : /\ ItemState(job'[i]) \in {"absent", "idle", "held", "finished"}
                      /\ job'[i].token \in Token \cup {None}
    BY ItemStateType DEF TypeOK, Job
  <2>3. \A c \in answering' : c.token \in Token
    BY DEF TypeOK, AnswerCall
  <2>. QED BY <2>1, <2>2, <2>3 DEF Queue!Next, ItemStep
<1>. QED BY <1>1, <1>2, TaskTyping, WholeTaskLeases, PTL
         DEF Spec, ImplementsLeaseQueue, Queue!Spec
=============================================================================
