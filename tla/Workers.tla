------------------------------ MODULE Workers -------------------------------
(***************************************************************************)
(* The client programs, each with the registry as it meets it.  All of     *)
(* them reserve a batch, work on its jobs, post what came of each and      *)
(* begin again; they differ in how many jobs run at once, whether the next *)
(* batch is reserved before the last one is done, whether heartbeats are   *)
(* sent, what is posted together, and what a signal does.                  *)
(***************************************************************************)
EXTENDS WorkerPool, Sequences

CONSTANTS Conc, Programs    \* --concurrency; the programs that may run

VARIABLES program, stop     \* the one that runs; its context is cancelled

vars == <<poolVars, program, stop>>

-----------------------------------------------------------------------------
(***************************************************************************)
(* What each program does with one job: the steps of the work, each with   *)
(* the failures it may end the job with.                                   *)
(***************************************************************************)

\* bad_url, too_large; fetch_error, read_error
CrawlOne == <<{"final", "retry"}>>
HandleJob == <<{"final", "retry"}>>
\* fetch_error; then a walk over the pages, which if it breaks off posts what it has
LitekoJob == <<{"retry"}, {}>>
\* navigation_error, page_source; then as above
UnicrawlerJob == <<{"retry"}, {}>>
\* scratch_mkdir, download; then extract_cmd, no_output
TaskOne == <<{"retry"}, {"retry", "final"}>>
\* the same, and outdir; bad_mode
WorkOne == <<{"retry"}, {"retry", "final"}>>
\* scratch_mkdir, download; then page_count, ocr_pipeline, empty_pdf
OcrOne == <<{"retry"}, {"retry", "final"}>>
\* a vector, or a failure that stands in its place
EmbedOne == <<{"retry"}>>
\* sub-batches, then the texts of one that failed, one by one
EmbedFleet == <<{}, {"retry"}>>

(***************************************************************************)
(* The run loops.  width: jobs worked on at once; ahead: a channel and a   *)
(* pool of goroutines, and the loop reserves again once the batch is in    *)
(* the channel; together: one post for the batch; beats: the step          *)
(* heartbeats begin with; exits: a signal ends the process on the spot;    *)
(* deadline: --max-runtime; hangs: steps that no timeout and no context    *)
(* ends.                                                                   *)
(***************************************************************************)

OneByOne(steps) == [steps |-> steps, width |-> 1, ahead |-> FALSE, together |-> FALSE,
                    beats |-> 0, exits |-> FALSE, deadline |-> FALSE, hangs |-> {}]
Pooled(steps) == [OneByOne(steps) EXCEPT !.width = Conc, !.ahead = TRUE]
FannedOut(steps) == [OneByOne(steps) EXCEPT !.width = Conc, !.beats = 2, !.exits = TRUE,
                                            !.deadline = TRUE]

CrawlLoop == OneByOne(CrawlOne)
\* exec-timeout kills the shell, and Run waits on for whoever holds its pipes.
TaskLoop == [OneByOne(TaskOne) EXCEPT !.hangs = {2}]
EmbedLoop == [OneByOne(EmbedOne) EXCEPT !.together = TRUE]
CrawlWorker == Pooled(HandleJob)
LitekoWorker == Pooled(LitekoJob)
\* Calls of the browser know neither the context nor a timeout of the client.
Unicrawler == [Pooled(UnicrawlerJob) EXCEPT !.hangs = {1, 2}]
TaskWorker == [FannedOut(WorkOne) EXCEPT !.hangs = {2}]
OcrWorker == FannedOut(OcrOne)
EmbedWorker == [OneByOne(EmbedFleet) EXCEPT !.width = Conc, !.together = TRUE,
                                            !.deadline = TRUE]

AllPrograms == {CrawlLoop, TaskLoop, EmbedLoop, CrawlWorker, LitekoWorker, Unicrawler,
                TaskWorker, OcrWorker, EmbedWorker}

ASSUME WorkersAssumption == Conc \in Nat \ {0} /\ Programs \subseteq AllPrograms

TypeOK == PoolTypeOK /\ program \in Programs /\ stop \in BOOLEAN

Init == PoolInit /\ program \in Programs /\ stop = FALSE

-----------------------------------------------------------------------------
(***************************************************************************)
(* The loop.                                                               *)
(***************************************************************************)

At(place) == {t \in Token : hand[t] = place}
StepOf(t) == IF hand[t] = "first" THEN 1 ELSE 2
Working == {t \in Token : hand[t] \in Step \cup {"post"}}

Request(verb, t) == [verb |-> verb, token |-> t, admitted |-> FALSE,
                     waited |-> verb # "heartbeat"]

\* Requests that are given up may be with the registry still; beyond the bound they
\* are ones that never got there.
Stale(C) == {c \in C : ~c.waited}
Abandoned(S) ==
  LET kept == (calls \ S) \cup {[c EXCEPT !.waited = FALSE] : c \in S}
  IN  IF Cardinality(Stale(kept)) <= StaleBound THEN kept ELSE calls \ S
Moves(t, place) == hand' = [hand EXCEPT ![t] = place]

SeesNoStop == FALSE
SeesStop == stop

Ask ==
  /\ loop = "top" /\ ~SeesStop
  /\ loop' = "asked"
  /\ calls' = calls \cup {Request("reserve", None)}
  /\ UNCHANGED <<banned, row, hand, program, stop>>

Asking == {c \in calls : c.verb = "reserve" /\ c.waited}

\* A timeout, or the context is cancelled.
GiveUpReserve ==
  /\ loop = "asked"
  /\ loop' = "top"
  /\ calls' = Abandoned(Asking)
  /\ UNCHANGED <<banned, row, hand, program, stop>>

\* The loop goes on when the batch is in the channel, or when all of it is done.
HandedOutAtOnce == TRUE
HandedOutAhead == program.ahead \/ InHand = {}
HandedOut == IF program.ahead THEN At("batch") = {} ELSE InHand = {}

NextBatch ==
  /\ loop = "handing" /\ HandedOut
  /\ loop' = "top"
  /\ UNCHANGED <<banned, row, calls, hand, program, stop>>

\* close(jobs) and Wait, or a plain return.
Stops ==
  /\ loop = "top" /\ SeesStop
  /\ loop' = IF program.ahead THEN "draining" ELSE "exited"
  /\ UNCHANGED <<banned, row, calls, hand, program, stop>>

Drained ==
  /\ loop = "draining" /\ InHand = {}
  /\ loop' = "exited"
  /\ UNCHANGED <<banned, row, calls, hand, program, stop>>

ReserveEnds == \E c \in Asking : CallEnds(c) /\ UNCHANGED <<program, stop>>

LoopStep == \/ Ask \/ GiveUpReserve \/ ReserveEnds \/ NextBatch \/ Stops \/ Drained

-----------------------------------------------------------------------------
(***************************************************************************)
(* One job.                                                                *)
(***************************************************************************)

JobUnchanged == UNCHANGED <<banned, row, loop, program, stop>>

\* jobs <- j
Put(t) ==
  /\ program.ahead /\ loop = "handing" /\ hand[t] = "batch"
  /\ Cardinality(At("channel")) < Conc
  /\ Moves(t, "channel") /\ UNCHANGED calls /\ JobUnchanged

\* <-ctx.Done()
Discard(t) ==
  /\ program.ahead /\ stop /\ hand[t] = "batch"
  /\ Moves(t, "none") /\ UNCHANGED calls /\ JobUnchanged

\* A goroutine of the pool takes the job, or the semaphore lets it begin.
Take(t) ==
  /\ hand[t] = IF program.ahead THEN "channel" ELSE "batch"
  /\ Cardinality(Working) < program.width
  /\ Moves(t, "first") /\ UNCHANGED calls /\ JobUnchanged

Send(t, verb) == calls' = calls \cup {Request(verb, t)} /\ Moves(t, "post")

\* What may come of a job at step k; the last step ends in a result.
Outcomes(k) == program.steps[k] \cup (IF k = Len(program.steps) THEN {"result"} ELSE {})

\* The next step, or the end of the work.  A cancelled context sends nothing.
Advance(t) ==
  /\ hand[t] \in Step
  /\ \/ StepOf(t) < Len(program.steps) /\ Moves(t, "second") /\ UNCHANGED calls
     \/ program.together /\ Outcomes(StepOf(t)) # {} /\ Moves(t, "done") /\ UNCHANGED calls
     \/ \E verb \in Outcomes(StepOf(t)) : ~program.together /\ ~stop /\ Send(t, verb)
  /\ JobUnchanged

\* The work and its post end with the context.
Cancelled(t) ==
  /\ stop /\ hand[t] \in Step \cup {"done", "post"}
  /\ Moves(t, "none")
  /\ calls' = Abandoned({c \in calls : c.token = t})
  /\ JobUnchanged

\* The batch is posted; a failed item is one that may be tried again.  Its items
\* are served one by one.
PostBatch ==
  /\ program.together /\ ~stop /\ InHand # {} /\ InHand = At("done")
  /\ \E verb \in [InHand -> {"result", "retry"}] :
       calls' = calls \cup {Request(verb[t], t) : t \in InHand}
  /\ hand' = [t \in Token |-> IF t \in InHand THEN "post" ELSE hand[t]]
  /\ JobUnchanged

NoTimeout(t) == FALSE
TimesOut(t) == hand[t] = "post"

\* A post times out, or its connection breaks.
GiveUpPost(t) ==
  /\ TimesOut(t)
  /\ Moves(t, "none")
  /\ calls' = Abandoned({c \in calls : c.token = t})
  /\ JobUnchanged

\* heartbeatLoop, until the work and its post have returned.
Beat(t) ==
  /\ program.beats > 0
  /\ hand[t] = "post" \/ (hand[t] \in Step /\ StepOf(t) >= program.beats)
  /\ Cardinality(Stale(calls)) < StaleBound
  /\ calls' = calls \cup {Request("heartbeat", t)}
  /\ UNCHANGED hand /\ JobUnchanged

JobStep(t) == \/ Put(t) \/ Discard(t) \/ Take(t) \/ Advance(t) \/ Cancelled(t)
              \/ GiveUpPost(t)
WorkStep == PostBatch \/ \E t \in Token : JobStep(t)

-----------------------------------------------------------------------------
(***************************************************************************)
(* The process.                                                            *)
(***************************************************************************)

\* Everything in memory is lost.
Dies ==
  /\ loop' = "exited" /\ hand' = [t \in Token |-> "none"]
  /\ calls' = Abandoned(calls)
  /\ UNCHANGED <<banned, row, program>>

Signal ==
  /\ loop # "exited" /\ ~stop
  /\ \/ program.exits /\ Dies /\ UNCHANGED stop
     \/ /\ ~program.exits /\ stop' = TRUE
        /\ UNCHANGED <<poolVars, program>>

Crash == loop # "exited" /\ Dies /\ UNCHANGED stop

\* --max-runtime is looked at before a batch is reserved.
Deadline ==
  /\ program.deadline /\ loop = "top"
  /\ loop' = "exited"
  /\ UNCHANGED <<banned, row, calls, hand, program, stop>>

Start ==
  /\ loop = "exited"
  /\ loop' = "top" /\ stop' = FALSE
  /\ UNCHANGED <<banned, row, calls, hand, program>>

Registry == (Tick \/ Sweep \/ Operator \/ \E c \in calls : Serve(c))
            /\ UNCHANGED <<program, stop>>

Next ==
  \/ Registry \/ LoopStep \/ WorkStep
  \/ \E t \in Token : Beat(t)
  \/ Signal \/ Crash \/ Deadline \/ Start

\* The clock and the sweeper go on, and so do the program's loop and its goroutines,
\* whose calls end with their clients' timeouts; only a step that may hang may not end.
Hanging(t) == hand[t] \in Step /\ StepOf(t) \in program.hangs
EndingStep == PostBatch \/ \E t \in Token : ~Hanging(t) /\ JobStep(t)

Fairness ==
  /\ WF_vars((Tick \/ Sweep) /\ UNCHANGED <<program, stop>>)
  /\ WF_vars(LoopStep) /\ WF_vars(EndingStep)

Spec == Init /\ [][Next]_vars /\ Fairness

-----------------------------------------------------------------------------
(***************************************************************************)
(* Properties.                                                             *)
(***************************************************************************)

\* The run loops: a program that reserves has done with all it had, or, when a pool
\* works ahead, has no more than the channel and the goroutines hold, whatever
\* answers got lost, came late or were for jobs it has lost meanwhile.
InHandIsBounded ==
  loop = "asked" => IF program.ahead THEN Cardinality(InHand) <= 2 * Conc ELSE InHand = {}

\* The run loops and heartbeatLoop: whoever waits for the registry waits for a
\* request it made and has not given up, and for one only.  Neither a reserve nor a
\* post is awaited twice or for ever, whatever is cancelled, times out or dies.
Posting(t) == {c \in calls : c.verb \in Post /\ c.waited /\ c.token = t}
WaitsAreForCalls ==
  /\ loop = "asked" <=> Asking # {}
  /\ \A c, d \in Asking : c = d
  /\ \A t \in Token : /\ hand[t] = "post" <=> Posting(t) # {}
                      /\ \A c, d \in Posting(t) : c = d

\* From a ban on a worker's leases only run down: what still leases or prolongs is a
\* request that was let in before, no other is let in, and each is used up by it.
Prolonged(j) == row[j].status = "leased" /\ row'[j].left > row[j].left
NewlyLeased(j) == row[j].status # "leased" /\ row'[j].status = "leased"
BanRunsDown ==
  [][banned /\ banned' =>
       /\ Cardinality(Admitted') <= Cardinality(Admitted)
       /\ (\E j \in Job : Prolonged(j) \/ NewlyLeased(j)) =>
             Cardinality(Admitted') < Cardinality(Admitted)]_vars

\* A job in hand goes forward only, from the batch to the end of its post; it comes
\* to hand once, with a batch, under a token that nobody else knows.
Rank == [place \in Place |->
  CASE place = "batch" -> 1 [] place = "channel" -> 2 [] place = "first" -> 3
    [] place = "second" -> 4 [] place = "done" -> 5 [] place = "post" -> 6
    [] place = "none" -> 7]
JobsGoForward ==
  [][\A t \in Token :
       \/ hand'[t] = hand[t]
       \/ hand[t] # "none" /\ Rank[hand'[t]] > Rank[hand[t]]
       \/ /\ hand[t] = "none" /\ hand'[t] = "batch" /\ loop = "asked"
          /\ \A j \in Job : row[j].token # t
          /\ \A c \in calls : c.token # t]_vars

\* README, line 261: a worker that stays banned ends up without leases even when
\* the operator does not release them, although its program goes on reserving and
\* sending heartbeats, and requests were let in before the ban.
BanEndsLeases == <>[]banned => <>[](Held = {})

\* A job that a program was given leaves its hands, posted or dropped: no pool,
\* semaphore or batch holds it for ever, as long as no command and no call of the
\* browser does.  For the programs without such steps that is no condition.
NothingHangs == \A t \in Token : []<>~Hanging(t)
EveryJobIsDropped ==
  NothingHangs => \A t \in Token : hand[t] # "none" ~> hand[t] = "none"

\* The run loops' signal handlers: a program that is told to stop exits, whatever
\* call it was waiting for; under the same condition.
StopsInTheEnd == NothingHangs => (stop ~> loop = "exited")
=============================================================================
