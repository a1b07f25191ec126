--------------------------- MODULE WorkersProofs ----------------------------
(***************************************************************************)
(* Proofs about the loops of the client programs: their types, what a      *)
(* program may have in hand when it reserves, what it waits for, what a    *)
(* ban stops and which way a job takes, for any number of jobs, any batch  *)
(* and any width of the pool.                                              *)
(***************************************************************************)
EXTENDS Workers, FiniteSetTheorems, TLAPS

-----------------------------------------------------------------------------
\* The nine programs.

Steps == {<<R>> : R \in SUBSET Post} \cup {<<R, S>> : R, S \in SUBSET Post}
Loops == [steps : Steps, width : {1, Conc}, ahead : BOOLEAN, together : BOOLEAN,
          beats : {0, 2}, exits : BOOLEAN, deadline : BOOLEAN, hangs : SUBSET {1, 2}]

LEMMA OneByOneType ==
  ASSUME NEW steps \in Steps
  PROVE  OneByOne(steps) \in Loops
BY DEF OneByOne, Loops

LEMMA StepsOfPrograms ==
  /\ CrawlOne \in Steps /\ HandleJob \in Steps /\ LitekoJob \in Steps
  /\ UnicrawlerJob \in Steps /\ TaskOne \in Steps /\ WorkOne \in Steps
  /\ OcrOne \in Steps /\ EmbedOne \in Steps /\ EmbedFleet \in Steps
<1>1. \A R \in SUBSET Post : <<R>> \in Steps
  BY DEF Steps
<1>2. \A R, S \in SUBSET Post : <<R, S>> \in Steps
  BY DEF Steps
<1>3. /\ {} \subseteq Post /\ {"final", "retry"} \subseteq Post
      /\ {"retry"} \subseteq Post /\ {"retry", "final"} \subseteq Post
  BY DEF Post
<1>. QED
  BY <1>1, <1>2, <1>3 DEF CrawlOne, HandleJob, LitekoJob, UnicrawlerJob, TaskOne, WorkOne,
     OcrOne, EmbedOne, EmbedFleet

LEMMA StepsShape ==
  ASSUME NEW steps \in Steps
  PROVE  /\ Len(steps) \in {1, 2}
         /\ \A k \in 1..Len(steps) : steps[k] \subseteq Post
<1>1. CASE \E R \in SUBSET Post : steps = <<R>>
  BY <1>1
<1>2. CASE \E R, S \in SUBSET Post : steps = <<R, S>>
  BY <1>2
<1>. QED BY <1>1, <1>2 DEF Steps

\* What the proofs need to know of a program: its steps end in what may be posted,
\* and one that works ahead has a pool as wide as its channel and posts each job alone.
LEMMA ProgramShape ==
  ASSUME NEW p \in AllPrograms
  PROVE  p \in Loops /\ (p.ahead => p.width = Conc /\ ~p.together)
<1>. DEFINE Fits(q) == q \in Loops /\ (q.ahead => q.width = Conc /\ ~q.together)
<1>1. ASSUME NEW q \in Loops, Fits(q), NEW S \in SUBSET {1, 2}
      PROVE  Fits([q EXCEPT !.hangs = S])
  BY <1>1 DEF Loops
<1>2. ASSUME NEW steps \in Steps
      PROVE  /\ Fits(OneByOne(steps)) /\ Fits([OneByOne(steps) EXCEPT !.together = TRUE])
             /\ Fits(Pooled(steps)) /\ Fits(FannedOut(steps))
             /\ Fits([OneByOne(steps) EXCEPT !.width = Conc, !.together = TRUE,
                                             !.deadline = TRUE])
  <2>1. OneByOne(steps) \in Loops /\ ~OneByOne(steps).ahead
    BY OneByOneType DEF OneByOne
  <2>2. Pooled(steps) \in Loops /\ Pooled(steps).width = Conc /\ ~Pooled(steps).together
    BY DEF Pooled, OneByOne, Loops
  <2>3. FannedOut(steps) \in Loops /\ ~FannedOut(steps).ahead
    BY DEF FannedOut, OneByOne, Loops
  <2>4. /\ [OneByOne(steps) EXCEPT !.together = TRUE] \in Loops
        /\ ~[OneByOne(steps) EXCEPT !.together = TRUE].ahead
    BY DEF OneByOne, Loops
  <2>5. /\ [OneByOne(steps) EXCEPT !.width = Conc, !.together = TRUE, !.deadline = TRUE]
             \in Loops
        /\ ~[OneByOne(steps) EXCEPT !.width = Conc, !.together = TRUE,
                                    !.deadline = TRUE].ahead
    BY DEF OneByOne, Loops
  <2>. QED BY <2>1, <2>2, <2>3, <2>4, <2>5
<1>3. /\ Fits(OneByOne(TaskOne)) /\ OneByOne(TaskOne) \in Loops
      /\ Fits(Pooled(UnicrawlerJob)) /\ Pooled(UnicrawlerJob) \in Loops
      /\ Fits(FannedOut(WorkOne)) /\ FannedOut(WorkOne) \in Loops
  BY <1>2, StepsOfPrograms
<1>4. Fits(TaskLoop) /\ Fits(Unicrawler) /\ Fits(TaskWorker)
  <2>. HIDE DEF Fits
  <2>. QED BY <1>1, <1>3 DEF TaskLoop, Unicrawler, TaskWorker
<1>. HIDE DEF Fits
<1>5. Fits(CrawlLoop) /\ Fits(EmbedLoop) /\ Fits(EmbedWorker)
  BY <1>2, StepsOfPrograms, Zenon DEF CrawlLoop, EmbedLoop, EmbedWorker
<1>6. Fits(CrawlWorker) /\ Fits(LitekoWorker) /\ Fits(OcrWorker)
  BY <1>2, StepsOfPrograms, Zenon DEF CrawlWorker, LitekoWorker, OcrWorker
<1>7. Fits(p)
  BY <1>4, <1>5, <1>6, Zenon DEF AllPrograms
<1>. QED BY <1>7 DEF Fits

LEMMA OutcomesPosted ==
  ASSUME program \in AllPrograms, NEW k \in 1..Len(program.steps)
  PROVE  Outcomes(k) \subseteq Post
<1>1. program.steps \in Steps
  BY ProgramShape DEF Loops
<1>. QED BY <1>1, StepsShape DEF Outcomes, Post

-----------------------------------------------------------------------------
\* Types.

\* A job is at the second step of a program that has two.
StepIsKnown == \A t \in Token : hand[t] = "second" => Len(program.steps) = 2
Typed == TypeOK /\ StepIsKnown

LEMMA StepOfType ==
  ASSUME Typed, NEW t \in Token, hand[t] \in Step
  PROVE  StepOf(t) \in 1..Len(program.steps)
<1>1. Len(program.steps) \in {1, 2}
  BY ProgramShape, StepsShape, WorkersAssumption DEF Typed, TypeOK, Loops
<1>2. CASE hand[t] = "first"
  <2>1. StepOf(t) = 1
    BY <1>2 DEF StepOf
  <2>. QED BY <1>1, <2>1
<1>3. CASE hand[t] = "second"
  <2>1. StepOf(t) = 2 /\ Len(program.steps) = 2
    BY <1>3 DEF StepOf, Typed, StepIsKnown
  <2>. QED BY <2>1
<1>. QED BY <1>2, <1>3 DEF Step

LEMMA RequestType ==
  ASSUME NEW verb \in {"reserve", "heartbeat"} \cup Post, NEW t \in Token \cup {None}
  PROVE  Request(verb, t) \in Call
BY DEF Request, Call

LEMMA AbandonedType ==
  ASSUME calls \subseteq Call, NEW S, S \subseteq calls
  PROVE  Abandoned(S) \subseteq Call
<1>1. \A c \in Call : [c EXCEPT !.waited = FALSE] \in Call
  BY DEF Call
<1>2. /\ calls \ S \subseteq Call
      /\ (calls \ S) \cup {[c EXCEPT !.waited = FALSE] : c \in S} \subseteq Call
  BY <1>1
<1>. QED BY <1>2 DEF Abandoned

LEMMA NewTokenType ==
  ASSUME NEW j \in Job, FreshFor(j) # {}
  PROVE  NewToken(j) \in Token /\ NewToken(j)[1] = j
BY DEF NewToken, FreshFor

LEMMA FreeRowType == FreeRow \in Row /\ Settled \in Row
BY DEF FreeRow, Settled, Row

LEMMA VerdictType ==
  ASSUME NEW verb \in {"heartbeat"} \cup Post, NEW r \in Row, NEW s \in Verdict(verb, r)
  PROVE  s \in Row
<1>1. CASE verb = "heartbeat"
  BY <1>1, PoolAssumption DEF Verdict, Row
<1>2. CASE verb \in {"result", "final"}
  BY <1>2, FreeRowType DEF Verdict
<1>3. CASE verb = "retry"
  BY <1>3, FreeRowType DEF Verdict
<1>. QED BY <1>1, <1>2, <1>3 DEF Post

\* A move of one job.
LEMMA MoveType ==
  ASSUME Typed, NEW t \in Token, NEW place \in Place, Moves(t, place),
         program' = program, place = "second" => Len(program.steps) = 2
  PROVE  hand' \in [Token -> Place] /\ StepIsKnown'
BY DEF Moves, Typed, TypeOK, PoolTypeOK, StepIsKnown

LEMMA LoopHearsType ==
  ASSUME Typed, NEW c \in calls, NEW tokens, LoopHears(c, tokens), program' = program
  PROVE  hand' \in [Token -> Place] /\ loop' \in Loop /\ StepIsKnown'
<1>1. CASE ~c.waited
  BY <1>1 DEF LoopHears, Typed, TypeOK, PoolTypeOK, StepIsKnown
<1>2. CASE c.waited
  BY <1>2 DEF LoopHears, Typed, TypeOK, PoolTypeOK, StepIsKnown, Place, Loop
<1>. QED BY <1>1, <1>2

LEMMA PostHeardType ==
  ASSUME Typed, NEW c \in calls, PostHeard(c), program' = program
  PROVE  hand' \in [Token -> Place] /\ StepIsKnown'
<1>1. CASE c.waited /\ c.verb \in Post
  BY <1>1 DEF PostHeard, Typed, TypeOK, PoolTypeOK, StepIsKnown, Place
<1>2. CASE ~(c.waited /\ c.verb \in Post)
  BY <1>2 DEF PostHeard, Typed, TypeOK, PoolTypeOK, StepIsKnown
<1>. QED BY <1>1, <1>2

LEMMA ServeType ==
  ASSUME Typed, NEW c \in calls, Serve(c), UNCHANGED <<program, stop>>
  PROVE  Typed'
<1>0. /\ calls \subseteq Call /\ c \in Call /\ calls \ {c} \subseteq Call
      /\ row \in [Job -> Row]
  BY DEF Typed, TypeOK, PoolTypeOK
<1>1. CASE Admit(c)
  <2>1. [c EXCEPT !.admitted = TRUE] \in Call
    BY <1>0 DEF Call
  <2>. QED BY <1>0, <1>1, <2>1 DEF Admit, Typed, TypeOK, PoolTypeOK, StepIsKnown
<1>2. CASE Answer(c)
  <2>1. c.verb \in {"heartbeat"} \cup Post
    BY <1>0, <1>2 DEF Answer, Call
  <2>2. row' \in [Job -> Row]
    <3>1. CASE Holds(c.token)
      <4>1. PICK r \in Verdict(c.verb, row[c.token[1]]) :
                   row' = [row EXCEPT ![c.token[1]] = r]
        BY <1>2, <3>1 DEF Answer
      <4>2. CASE c.token[1] \in Job
        BY <1>0, <2>1, <4>1, <4>2, VerdictType
      <4>3. CASE c.token[1] \notin Job
        BY <1>0, <4>1, <4>3
      <4>. QED BY <4>2, <4>3
    <3>2. CASE ~Holds(c.token)
      BY <1>0, <1>2, <3>2 DEF Answer
    <3>. QED BY <3>1, <3>2
  <2>3. hand' \in [Token -> Place] /\ StepIsKnown'
    BY <1>2, PostHeardType DEF Answer
  <2>. QED BY <1>0, <1>2, <2>2, <2>3 DEF Answer, Typed, TypeOK, PoolTypeOK
<1>3. CASE CallEnds(c)
  <2>1. hand' \in [Token -> Place] /\ loop' \in Loop /\ StepIsKnown'
    BY <1>3, LoopHearsType, PostHeardType DEF CallEnds, Typed, TypeOK, PoolTypeOK
  <2>. QED BY <1>0, <1>3, <2>1 DEF CallEnds, Typed, TypeOK, PoolTypeOK
<1>4. ASSUME NEW J \in SUBSET Job, NEW told \in BOOLEAN, Grant(c, J, told) PROVE Typed'
  <2>1. \A j \in J : FreshFor(j) # {}
    BY <1>4 DEF Grant, Grants, MayLease
  <2>2. \A j \in J : Leased(NewToken(j)) \in Row
    BY <2>1, NewTokenType, PoolAssumption DEF Leased, Row
  <2>3. row' \in [Job -> Row]
    BY <1>0, <1>4, <2>2 DEF Grant
  <2>4. hand' \in [Token -> Place] /\ loop' \in Loop /\ StepIsKnown'
    BY <1>4, LoopHearsType DEF Grant
  <2>. QED BY <1>0, <1>4, <2>3, <2>4 DEF Grant, Typed, TypeOK, PoolTypeOK
<1>. QED BY <1>1, <1>2, <1>3, <1>4 DEF Serve

LEMMA RegistryType ==
  ASSUME Typed, Registry
  PROVE  Typed'
<1>0. row \in [Job -> Row]
  BY DEF Typed, TypeOK, PoolTypeOK
<1>1. CASE Tick
  <2>1. ASSUME NEW r \in Row PROVE [r EXCEPT !.left = Less(@), !.signed = Less(@)] \in Row
    <3>1. Less(r.left) \in Nat /\ Less(r.signed) \in Nat
      BY DEF Row, Less
    <3>. QED BY <3>1 DEF Row
  <2>2. row' \in [Job -> Row]
    BY <1>0, <1>1, <2>1 DEF Tick
  <2>. QED BY <1>1, <2>2 DEF Tick, Registry, Typed, TypeOK, PoolTypeOK, StepIsKnown
<1>2. CASE Sweep
  <2>1. row' \in [Job -> Row]
    BY <1>0, <1>2, FreeRowType DEF Sweep
  <2>. QED BY <1>2, <2>1 DEF Sweep, Registry, Typed, TypeOK, PoolTypeOK, StepIsKnown
<1>3. CASE Ban \/ Unban
  BY <1>3 DEF Ban, Unban, Registry, Typed, TypeOK, PoolTypeOK, StepIsKnown
<1>4. CASE Release
  <2>1. row' \in [Job -> Row]
    BY <1>0, <1>4, FreeRowType DEF Release
  <2>. QED BY <1>4, <2>1 DEF Release, Registry, Typed, TypeOK, PoolTypeOK, StepIsKnown
<1>5. CASE \E c \in calls : Serve(c)
  BY <1>5, ServeType DEF Registry
<1>. QED BY <1>1, <1>2, <1>3, <1>4, <1>5 DEF Registry, Operator

LEMMA LoopStepType ==
  ASSUME Typed, LoopStep
  PROVE  Typed'
<1>0. calls \subseteq Call
  BY DEF Typed, TypeOK, PoolTypeOK
<1>1. CASE Ask
  <2>1. Request("reserve", None) \in Call
    BY RequestType
  <2>. QED BY <1>0, <1>1, <2>1 DEF Ask, Typed, TypeOK, PoolTypeOK, StepIsKnown, Loop
<1>2. CASE GiveUpReserve
  <2>1. Abandoned(Asking) \subseteq Call
    BY <1>0, AbandonedType DEF Asking
  <2>. QED BY <1>2, <2>1 DEF GiveUpReserve, Typed, TypeOK, PoolTypeOK, StepIsKnown, Loop
<1>3. CASE ReserveEnds
  BY <1>3, ServeType DEF ReserveEnds, Asking, Serve
<1>4. CASE NextBatch \/ Stops \/ Drained
  BY <1>4 DEF NextBatch, Stops, Drained, Typed, TypeOK, PoolTypeOK, StepIsKnown, Loop
<1>. QED BY <1>1, <1>2, <1>3, <1>4 DEF LoopStep

LEMMA JobStepType ==
  ASSUME Typed, NEW t \in Token, JobStep(t)
  PROVE  Typed'
<1>0. calls \subseteq Call /\ \A c \in calls : c \in Call
  BY DEF Typed, TypeOK, PoolTypeOK
<1>1. ASSUME NEW place \in Place, Moves(t, place), calls' \subseteq Call, JobUnchanged,
             place = "second" => Len(program.steps) = 2
      PROVE  Typed'
  <2>1. hand' \in [Token -> Place] /\ StepIsKnown'
    BY <1>1, MoveType DEF JobUnchanged
  <2>. QED BY <1>1, <2>1 DEF JobUnchanged, Typed, TypeOK, PoolTypeOK
<1>2. CASE Put(t)
  BY <1>0, <1>1, <1>2 DEF Put, Place
<1>3. CASE Discard(t)
  BY <1>0, <1>1, <1>3 DEF Discard, Place
<1>4. CASE Take(t)
  BY <1>0, <1>1, <1>4 DEF Take, Place, Step
<1>5. CASE Advance(t)
  <2>0. StepOf(t) \in 1..Len(program.steps) /\ Len(program.steps) \in {1, 2}
    BY <1>5, StepOfType, ProgramShape, StepsShape, WorkersAssumption
    DEF Advance, Typed, TypeOK, Loops
  <2>1. CASE StepOf(t) < Len(program.steps) /\ Moves(t, "second") /\ UNCHANGED calls
    <3>. DEFINE n == Len(program.steps)
    <3>1. n \in {1, 2} /\ StepOf(t) \in {1, 2} /\ StepOf(t) < n
      BY <2>0, <2>1 DEF StepOf
    <3>. HIDE DEF n
    <3>2. n = 2
      BY <3>1
    <3>3. "second" \in Place /\ calls' \subseteq Call /\ JobUnchanged
      BY <1>0, <1>5, <2>1 DEF Advance, Place, Step
    <3>. QED BY <1>1, <2>1, <3>2, <3>3 DEF n
  <2>2. CASE Moves(t, "done") /\ UNCHANGED calls
    BY <1>0, <1>1, <1>5, <2>2 DEF Advance, Place
  <2>3. ASSUME NEW verb \in Outcomes(StepOf(t)), Send(t, verb) PROVE Typed'
    <3>1. verb \in Post
      BY <2>0, <2>3, OutcomesPosted, WorkersAssumption DEF Typed, TypeOK
    <3>2. Request(verb, t) \in Call
      BY <3>1, RequestType
    <3>. QED BY <1>0, <1>1, <1>5, <2>3, <3>2 DEF Advance, Send, Place
  <2>. QED BY <1>5, <2>1, <2>2, <2>3 DEF Advance
<1>6. CASE Cancelled(t) \/ GiveUpPost(t)
  <2>1. Abandoned({c \in calls : c.token = t}) \subseteq Call
    BY <1>0, AbandonedType
  <2>. QED BY <1>1, <1>6, <2>1 DEF Cancelled, GiveUpPost, Place
<1>. QED BY <1>2, <1>3, <1>4, <1>5, <1>6 DEF JobStep

LEMMA TypeStep ==
  ASSUME Typed, [Next]_vars
  PROVE  Typed'
<1>0. /\ calls \subseteq Call /\ hand \in [Token -> Place] /\ loop \in Loop
      /\ row \in [Job -> Row] /\ banned \in BOOLEAN /\ stop \in BOOLEAN
      /\ program \in Programs
  BY DEF Typed, TypeOK, PoolTypeOK
<1>1. CASE UNCHANGED vars
  BY <1>1 DEF vars, poolVars, Typed, TypeOK, PoolTypeOK, StepIsKnown
<1>2. CASE PostBatch
  <2>1. PICK verb \in [InHand -> {"result", "retry"}] :
              calls' = calls \cup {Request(verb[t], t) : t \in InHand}
    BY <1>2 DEF PostBatch
  <2>2. \A t \in InHand : t \in Token /\ verb[t] \in Post
    BY DEF InHand, Post
  <2>3. \A t \in InHand : Request(verb[t], t) \in Call
    BY <2>2, RequestType
  <2>4. calls' \subseteq Call
    BY <1>0, <2>1, <2>3
  <2>5. hand' \in [Token -> Place] /\ StepIsKnown'
    BY <1>0, <1>2 DEF PostBatch, JobUnchanged, Place, Typed, StepIsKnown
  <2>. QED BY <1>0, <1>2, <2>4, <2>5 DEF PostBatch, JobUnchanged, Typed, TypeOK, PoolTypeOK
<1>3. ASSUME NEW t \in Token, Beat(t) PROVE Typed'
  <2>1. Request("heartbeat", t) \in Call
    BY RequestType
  <2>. QED BY <1>0, <1>3, <2>1 DEF Beat, JobUnchanged, Typed, TypeOK, PoolTypeOK, StepIsKnown
<1>4. ASSUME Dies, stop' = stop PROVE Typed'
  <2>1. Abandoned(calls) \subseteq Call
    BY <1>0, AbandonedType
  <2>2. hand' \in [Token -> Place] /\ StepIsKnown'
    BY <1>4 DEF Dies, Place, StepIsKnown
  <2>. QED BY <1>0, <1>4, <2>1, <2>2 DEF Dies, Typed, TypeOK, PoolTypeOK, Loop
<1>5. CASE Signal
  BY <1>0, <1>4, <1>5 DEF Signal, poolVars, Typed, TypeOK, PoolTypeOK, StepIsKnown
<1>6. CASE Crash
  BY <1>4, <1>6 DEF Crash
<1>7. CASE Deadline \/ Start
  BY <1>0, <1>7 DEF Deadline, Start, Typed, TypeOK, PoolTypeOK, StepIsKnown, Loop
<1>. QED
  BY <1>1, <1>2, <1>3, <1>5, <1>6, <1>7, RegistryType, LoopStepType, JobStepType
  DEF Next, WorkStep

\* Whatever the registry answers, loses or answers late: every job is at a place that
\* its program has, and every request is one of the protocol's.
THEOREM WorkersTyping == Spec => [](TypeOK /\ StepIsKnown)
<1>1. Init => Typed
  BY FreeRowType DEF Init, PoolInit, Typed, TypeOK, PoolTypeOK, StepIsKnown, Place, Loop
<1>. QED BY <1>1, TypeStep, PTL DEF Spec, Typed

-----------------------------------------------------------------------------
\* What a program has in hand.

\* The loop waits for one reserve, and only where it asked; it takes a batch to pieces
\* in one place, where a program that does not work ahead has all its jobs; a pool has
\* the jobs of its channel and of its goroutines.
OneReserve == \A c, d \in Asking : c = d
LoopAsks == Asking # {} => loop = "asked"
BatchIsHandedOut == loop # "handing" => At("batch") = {}
RoundIsDone == ~program.ahead /\ loop # "handing" => InHand = {}
PoolIsBounded ==
  program.ahead => /\ Cardinality(At("channel")) <= Conc
                   /\ Cardinality(Working) <= Conc
                   /\ At("done") = {}
HandsKept == OneReserve /\ LoopAsks /\ BatchIsHandedOut /\ RoundIsDone /\ PoolIsBounded

LEMMA TokensFinite ==
  ASSUME NEW S \in SUBSET Token
  PROVE  IsFiniteSet(S) /\ Cardinality(S) \in Nat
<1>1. IsFiniteSet(Job) /\ IsFiniteSet(1..Names)
  BY PoolAssumption, FS_Interval
<1>2. IsFiniteSet(Job \X (1..Names))
  BY <1>1, FS_Product
<1>. QED BY <1>2, FS_Subset, FS_CardinalityType DEF Token

LEMMA Fewer ==
  ASSUME NEW S \in SUBSET Token, NEW T \in SUBSET S
  PROVE  Cardinality(T) <= Cardinality(S)
BY TokensFinite, FS_Subset

LEMMA OneMore ==
  ASSUME NEW S \in SUBSET Token, NEW T \in SUBSET Token, NEW t \in Token, T \subseteq S \cup {t}
  PROVE  Cardinality(T) <= Cardinality(S) + 1
<1>1. IsFiniteSet(S) /\ Cardinality(S) \in Nat
  BY TokensFinite
<1>2. IsFiniteSet(S \cup {t}) /\ Cardinality(S \cup {t}) <= Cardinality(S) + 1
  BY <1>1, FS_AddElement
<1>3. Cardinality(T) <= Cardinality(S \cup {t}) /\ Cardinality(T) \in Nat
      /\ Cardinality(S \cup {t}) \in Nat
  BY <1>2, FS_Subset, TokensFinite, FS_CardinalityType
<1>. QED BY <1>1, <1>2, <1>3

LEMMA AskingShrinks ==
  ASSUME Typed, NEW S, S \subseteq calls, calls' = Abandoned(S)
  PROVE  Asking' \subseteq Asking
<1>1. \A c \in calls : ~[c EXCEPT !.waited = FALSE].waited
  BY DEF Typed, TypeOK, PoolTypeOK, Call
<1>. QED BY <1>1 DEF Asking, Abandoned

\* Steps that at most take jobs out of hand and answers off the program's mind.
LEMMA NothingMore ==
  ASSUME Typed, HandsKept, program' = program, loop' = loop, Asking' \subseteq Asking,
         \A t \in Token : hand'[t] \in {hand[t], "none"}
  PROVE  HandsKept'
<1>1. OneReserve' /\ LoopAsks'
  BY DEF HandsKept, OneReserve, LoopAsks
<1>2. /\ At("batch")' \subseteq At("batch") /\ At("channel")' \subseteq At("channel")
      /\ At("done")' \subseteq At("done") /\ Working' \subseteq Working
      /\ InHand' \subseteq InHand
  BY DEF At, Working, InHand, Step
<1>3. BatchIsHandedOut' /\ RoundIsDone'
  BY <1>2 DEF HandsKept, BatchIsHandedOut, RoundIsDone
<1>4. /\ At("channel") \subseteq Token /\ Working \subseteq Token
      /\ At("channel")' \subseteq Token /\ Working' \subseteq Token
  BY DEF At, Working
<1>5. /\ Cardinality(At("channel")') <= Cardinality(At("channel"))
      /\ Cardinality(Working') <= Cardinality(Working)
  BY <1>2, <1>4, Fewer
<1>6. /\ Cardinality(At("channel")) \in Nat /\ Cardinality(Working) \in Nat
      /\ Cardinality(At("channel")') \in Nat /\ Cardinality(Working') \in Nat
  BY <1>4, TokensFinite
<1>7. PoolIsBounded'
  BY <1>2, <1>5, <1>6, WorkersAssumption DEF HandsKept, PoolIsBounded
<1>. QED BY <1>1, <1>3, <1>7 DEF HandsKept

\* Steps of the loop between two batches.
LEMMA BetweenBatches ==
  ASSUME HandsKept, program' = program, hand' = hand,
         At("batch") = {}, ~program.ahead => InHand = {},
         \A c, d \in Asking' : c = d, Asking' # {} => loop' = "asked"
  PROVE  HandsKept'
BY DEF HandsKept, OneReserve, LoopAsks, BatchIsHandedOut, RoundIsDone, PoolIsBounded,
   At, InHand, Working

\* A batch arrives at a loop that asked for it.
LEMMA BatchArrives ==
  ASSUME Typed, HandsKept, NEW c \in calls, c \in Asking, calls' = calls \ {c},
         NEW tokens, LoopHears(c, tokens), program' = program
  PROVE  HandsKept'
<1>0. c.waited /\ loop = "asked" /\ Asking' = {}
  BY DEF HandsKept, OneReserve, LoopAsks, Asking
<1>1. At("batch") = {} /\ (~program.ahead => InHand = {})
  BY <1>0 DEF HandsKept, BatchIsHandedOut, RoundIsDone
<1>2. CASE tokens = {}
  <2>1. hand' = hand /\ loop' = "top"
    BY <1>0, <1>2 DEF LoopHears, Typed, TypeOK, PoolTypeOK
  <2>. QED BY <1>0, <1>1, <2>1, BetweenBatches
<1>3. CASE tokens # {}
  <2>1. /\ loop' = "handing"
        /\ \A t \in Token : hand'[t] \in {hand[t], "batch"}
    BY <1>0, <1>3 DEF LoopHears
  <2>2. OneReserve' /\ LoopAsks' /\ BatchIsHandedOut' /\ RoundIsDone'
    BY <1>0, <2>1 DEF OneReserve, LoopAsks, BatchIsHandedOut, RoundIsDone
  <2>3. /\ At("channel")' \subseteq At("channel") /\ At("done")' \subseteq At("done")
        /\ Working' \subseteq Working
    BY <2>1 DEF At, Working, Step
  <2>4. At("channel") \subseteq Token /\ Working \subseteq Token
    BY DEF At, Working
  <2>5. /\ Cardinality(At("channel")') <= Cardinality(At("channel"))
        /\ Cardinality(Working') <= Cardinality(Working)
        /\ Cardinality(At("channel")) \in Nat /\ Cardinality(Working) \in Nat
        /\ Cardinality(At("channel")') \in Nat /\ Cardinality(Working') \in Nat
    BY <2>3, <2>4, Fewer, TokensFinite
  <2>6. PoolIsBounded'
    BY <2>3, <2>5, WorkersAssumption DEF HandsKept, PoolIsBounded
  <2>. QED BY <2>2, <2>6 DEF HandsKept
<1>. QED BY <1>2, <1>3

LEMMA ServeHands ==
  ASSUME Typed, HandsKept, NEW c \in calls, Serve(c), UNCHANGED <<program, stop>>
  PROVE  HandsKept'
<1>0. hand \in [Token -> Place]
  BY DEF Typed, TypeOK, PoolTypeOK
<1>1. CASE Admit(c)
  <2>1. /\ [c EXCEPT !.admitted = TRUE].verb = c.verb
        /\ [c EXCEPT !.admitted = TRUE].waited = c.waited
    BY DEF Typed, TypeOK, PoolTypeOK, Call
  <2>2. CASE c.waited /\ c.verb = "reserve"
    <3>1. Asking = {c}
      BY <2>2 DEF Asking, HandsKept, OneReserve
    <3>2. Asking' = {[c EXCEPT !.admitted = TRUE]} /\ loop = "asked"
      BY <1>1, <2>1, <2>2, <3>1 DEF Admit, Asking, HandsKept, LoopAsks
    <3>. QED
      BY <1>1, <3>2, BetweenBatches DEF Admit, HandsKept, BatchIsHandedOut, RoundIsDone
  <2>3. CASE ~(c.waited /\ c.verb = "reserve")
    <3>1. Asking' \subseteq Asking
      BY <1>1, <2>1, <2>3 DEF Admit, Asking
    <3>. QED BY <1>1, <3>1, NothingMore DEF Admit
  <2>. QED BY <2>2, <2>3
<1>2. CASE Answer(c)
  <2>1. Asking' \subseteq Asking
    BY <1>2 DEF Answer, Asking
  <2>2. \A t \in Token : hand'[t] \in {hand[t], "none"}
    BY <1>0, <1>2 DEF Answer, PostHeard
  <2>. QED BY <1>2, <2>1, <2>2, NothingMore DEF Answer
<1>3. CASE CallEnds(c) /\ c.verb # "reserve"
  <2>1. Asking' \subseteq Asking
    BY <1>3 DEF CallEnds, Asking
  <2>2. \A t \in Token : hand'[t] \in {hand[t], "none"}
    BY <1>0, <1>3 DEF CallEnds, PostHeard
  <2>. QED BY <1>3, <2>1, <2>2, NothingMore DEF CallEnds
<1>4. ASSUME NEW tokens, LoopHears(c, tokens), calls' = calls \ {c}, c.verb = "reserve"
      PROVE  HandsKept'
  <2>1. CASE c.waited
    BY <1>4, <2>1, BatchArrives DEF Asking
  <2>2. CASE ~c.waited
    <3>1. Asking' \subseteq Asking
      BY <1>4 DEF Asking
    <3>. QED BY <1>4, <2>2, <3>1, NothingMore DEF LoopHears
  <2>. QED BY <2>1, <2>2
<1>5. CASE CallEnds(c) /\ c.verb = "reserve"
  BY <1>4, <1>5 DEF CallEnds
<1>6. ASSUME NEW J \in SUBSET Job, NEW told \in BOOLEAN, Grant(c, J, told) PROVE HandsKept'
  BY <1>4, <1>6 DEF Grant
<1>. QED BY <1>1, <1>2, <1>3, <1>5, <1>6 DEF Serve

LEMMA LoopStepHands ==
  ASSUME Typed, HandsKept, LoopStep
  PROVE  HandsKept'
<1>0. loop # "handing" => At("batch") = {} /\ (~program.ahead => InHand = {})
  BY DEF HandsKept, BatchIsHandedOut, RoundIsDone
<1>1. CASE Ask
  <2>1. Asking = {}
    BY <1>1 DEF Ask, HandsKept, LoopAsks
  <2>2. Asking' \subseteq {Request("reserve", None)}
    BY <1>1, <2>1 DEF Ask, Asking
  <2>. QED BY <1>0, <1>1, <2>2, BetweenBatches DEF Ask
<1>2. CASE GiveUpReserve
  <2>1. Asking' = {}
    BY <1>2 DEF GiveUpReserve, Abandoned, Asking, Typed, TypeOK, PoolTypeOK, Call
  <2>. QED BY <1>0, <1>2, <2>1, BetweenBatches DEF GiveUpReserve
<1>3. CASE ReserveEnds
  BY <1>3, ServeHands DEF ReserveEnds, Asking, Serve
<1>4. CASE NextBatch \/ Stops \/ Drained
  <2>1. loop # "asked" /\ calls' = calls
    BY <1>4 DEF NextBatch, Stops, Drained
  <2>2. Asking' = {}
    BY <2>1 DEF HandsKept, LoopAsks, Asking
  <2>3. At("batch") = {} /\ (~program.ahead => InHand = {})
    BY <1>0, <1>4 DEF NextBatch, Stops, Drained, HandedOut, At, InHand
  <2>. QED BY <1>4, <2>2, <2>3, BetweenBatches DEF NextBatch, Stops, Drained
<1>. QED BY <1>1, <1>2, <1>3, <1>4 DEF LoopStep

\* A job goes from one place to the next.
LEMMA MovedHands ==
  ASSUME Typed, HandsKept, NEW t \in Token, hand[t] # "none", NEW place \in Place,
         place # "batch", Moves(t, place), loop' = loop, program' = program,
         Asking' \subseteq Asking, program.ahead => place # "done",
         place = "channel" => Cardinality(At("channel")) < Conc,
         place \in Step \cup {"post"} =>
           t \in Working \/ (program.ahead => Cardinality(Working) < Conc)
  PROVE  HandsKept'
<1>0. hand' = [hand EXCEPT ![t] = place] /\ hand \in [Token -> Place]
  BY DEF Moves, Typed, TypeOK, PoolTypeOK
<1>1. OneReserve' /\ LoopAsks'
  BY DEF HandsKept, OneReserve, LoopAsks
<1>2. At("batch")' \subseteq At("batch") /\ InHand' \subseteq InHand
  BY <1>0 DEF At, InHand
<1>3. BatchIsHandedOut' /\ RoundIsDone'
  BY <1>2 DEF HandsKept, BatchIsHandedOut, RoundIsDone
<1>4. ASSUME program.ahead PROVE At("done")' = {}
  BY <1>0, <1>4 DEF At, HandsKept, PoolIsBounded
<1>5. /\ At("channel") \subseteq Token /\ Working \subseteq Token
      /\ At("channel")' \subseteq Token /\ Working' \subseteq Token
  BY DEF At, Working
<1>6. /\ Cardinality(At("channel")) \in Nat /\ Cardinality(Working) \in Nat
      /\ Cardinality(At("channel")') \in Nat /\ Cardinality(Working') \in Nat
  BY <1>5, TokensFinite
<1>7. ASSUME program.ahead PROVE Cardinality(At("channel")') <= Conc
  <2>1. CASE place = "channel"
    <3>1. At("channel")' \subseteq At("channel") \cup {t}
      BY <1>0 DEF At
    <3>. QED BY <1>5, <1>6, <2>1, <3>1, OneMore, WorkersAssumption
  <2>2. CASE place # "channel"
    <3>1. At("channel")' \subseteq At("channel")
      BY <1>0, <2>2 DEF At
    <3>. QED BY <1>5, <1>6, <1>7, <3>1, Fewer, WorkersAssumption DEF HandsKept, PoolIsBounded
  <2>. QED BY <2>1, <2>2
<1>8. ASSUME program.ahead PROVE Cardinality(Working') <= Conc
  <2>1. CASE place \in Step \cup {"post"} /\ t \notin Working
    <3>1. Working' \subseteq Working \cup {t}
      BY <1>0 DEF Working
    <3>. QED BY <1>5, <1>6, <1>8, <2>1, <3>1, OneMore, WorkersAssumption
  <2>2. CASE ~(place \in Step \cup {"post"} /\ t \notin Working)
    <3>1. Working' \subseteq Working
      BY <1>0, <2>2 DEF Working
    <3>. QED BY <1>5, <1>6, <1>8, <3>1, Fewer, WorkersAssumption DEF HandsKept, PoolIsBounded
  <2>. QED BY <2>1, <2>2
<1>9. PoolIsBounded'
  BY <1>4, <1>7, <1>8 DEF PoolIsBounded
<1>. QED BY <1>1, <1>3, <1>9 DEF HandsKept

LEMMA JobStepHands ==
  ASSUME Typed, HandsKept, NEW t \in Token, JobStep(t)
  PROVE  HandsKept'
<1>0. program \in Loops /\ (program.ahead => program.width = Conc /\ ~program.together)
  BY ProgramShape, WorkersAssumption DEF Typed, TypeOK
<1>1. CASE Put(t)
  <2>1. Asking' = Asking
    BY <1>1 DEF Put, Asking
  <2>. QED BY <1>1, <2>1, MovedHands DEF Put, JobUnchanged, Place, Step
<1>2. CASE Discard(t) \/ Cancelled(t) \/ GiveUpPost(t)
  <2>1. Asking' \subseteq Asking
    <3>1. CASE Discard(t)
      BY <3>1 DEF Discard, Asking
    <3>2. CASE Cancelled(t) \/ GiveUpPost(t)
      BY <3>2, AskingShrinks DEF Cancelled, GiveUpPost
    <3>. QED BY <1>2, <3>1, <3>2
  <2>2. \A u \in Token : hand'[u] \in {hand[u], "none"}
    BY <1>2 DEF Discard, Cancelled, GiveUpPost, Moves, Typed, TypeOK, PoolTypeOK
  <2>. QED BY <1>2, <2>1, <2>2, NothingMore DEF Discard, Cancelled, GiveUpPost, JobUnchanged
<1>3. CASE Take(t)
  <2>1. Asking' = Asking
    BY <1>3 DEF Take, Asking
  <2>. QED BY <1>0, <1>3, <2>1, MovedHands DEF Take, JobUnchanged, Place, Step
<1>4. CASE Advance(t)
  <2>0. t \in Working /\ hand[t] # "none"
    BY <1>4 DEF Advance, Working, Step
  <2>1. CASE Moves(t, "second") /\ UNCHANGED calls
    <3>1. Asking' = Asking
      BY <2>1 DEF Asking
    <3>. QED BY <1>4, <2>0, <2>1, <3>1, MovedHands DEF Advance, JobUnchanged, Place, Step
  <2>2. CASE program.together /\ Moves(t, "done") /\ UNCHANGED calls
    <3>1. Asking' = Asking
      BY <2>2 DEF Asking
    <3>. QED BY <1>0, <1>4, <2>0, <2>2, <3>1, MovedHands DEF Advance, JobUnchanged, Place, Step
  <2>3. ASSUME NEW verb \in Outcomes(StepOf(t)), Send(t, verb) PROVE HandsKept'
    <3>1. verb # "reserve"
      <4>1. StepOf(t) \in 1..Len(program.steps)
        BY <1>4, StepOfType DEF Advance
      <4>2. verb \in Post
        BY <2>3, <4>1, OutcomesPosted, WorkersAssumption DEF Typed, TypeOK
      <4>. QED BY <4>2 DEF Post
    <3>2. Asking' \subseteq Asking
      BY <2>3, <3>1 DEF Send, Request, Asking
    <3>. QED BY <1>4, <2>0, <2>3, <3>2, MovedHands DEF Advance, Send, JobUnchanged, Place, Step
  <2>. QED BY <1>4, <2>1, <2>2, <2>3 DEF Advance
<1>. QED BY <1>1, <1>2, <1>3, <1>4 DEF JobStep

LEMMA HandsStep ==
  ASSUME Typed, HandsKept, [Next]_vars
  PROVE  HandsKept'
<1>0. program \in Loops /\ (program.ahead => program.width = Conc /\ ~program.together)
  BY ProgramShape, WorkersAssumption DEF Typed, TypeOK
<1>1. ASSUME program' = program, loop' = loop, hand' = hand, Asking' \subseteq Asking
      PROVE  HandsKept'
  BY <1>1, NothingMore
<1>2. CASE UNCHANGED vars
  BY <1>1, <1>2 DEF vars, poolVars, Asking
<1>3. CASE Registry
  <2>1. CASE Tick \/ Sweep \/ Operator
    BY <1>1, <1>3, <2>1 DEF Registry, Tick, Sweep, Operator, Ban, Unban, Release, Asking
  <2>. QED BY <1>3, <2>1, ServeHands DEF Registry
<1>4. CASE PostBatch
  <2>1. ~program.ahead /\ InHand # {} /\ program' = program /\ loop' = loop
    BY <1>0, <1>4 DEF PostBatch, JobUnchanged
  <2>2. Asking' \subseteq Asking
    <3>1. PICK verb \in [InHand -> {"result", "retry"}] :
                calls' = calls \cup {Request(verb[t], t) : t \in InHand}
      BY <1>4 DEF PostBatch
    <3>. QED BY <3>1 DEF Asking, Request
  <2>3. \A t \in Token : hand'[t] \in {hand[t], "post"}
    BY <1>4 DEF PostBatch
  <2>4. At("batch")' \subseteq At("batch")
    BY <2>3 DEF At
  <2>. QED
    BY <2>1, <2>2, <2>4
    DEF HandsKept, OneReserve, LoopAsks, BatchIsHandedOut, RoundIsDone, PoolIsBounded
<1>5. ASSUME NEW t \in Token, Beat(t) PROVE HandsKept'
  <2>1. Asking' \subseteq Asking
    BY <1>5 DEF Beat, Asking, Request
  <2>. QED BY <1>1, <1>5, <2>1 DEF Beat, JobUnchanged
<1>6. CASE Dies
  <2>1. Asking' = {}
    <3>1. \A c \in calls : ~[c EXCEPT !.waited = FALSE].waited
      BY DEF Typed, TypeOK, PoolTypeOK, Call
    <3>. QED BY <1>6, <3>1 DEF Dies, Abandoned, Asking
  <2>2. /\ At("batch")' = {} /\ At("channel")' = {} /\ At("done")' = {}
        /\ Working' = {} /\ InHand' = {}
    BY <1>6 DEF Dies, At, Working, InHand, Step
  <2>. QED
    BY <2>1, <2>2, FS_EmptySet, WorkersAssumption
    DEF HandsKept, OneReserve, LoopAsks, BatchIsHandedOut, RoundIsDone, PoolIsBounded
<1>7. CASE Signal
  BY <1>1, <1>6, <1>7 DEF Signal, poolVars, Asking
<1>8. CASE Deadline \/ Start
  <2>1. Asking' = {} /\ At("batch") = {} /\ (~program.ahead => InHand = {})
    BY <1>8
    DEF Deadline, Start, HandsKept, LoopAsks, Asking, BatchIsHandedOut, RoundIsDone
  <2>. QED BY <1>8, <2>1, BetweenBatches DEF Deadline, Start
<1>. QED
  BY <1>2, <1>3, <1>4, <1>5, <1>6, <1>7, <1>8, LoopStepHands, JobStepHands
  DEF Next, WorkStep, Crash

\* Whatever answers get lost, come late or are for jobs it has lost meanwhile: a program
\* that reserves has nothing in hand, or at most a full channel and a full pool.
THEOREM HandsAreBounded == Spec => []InHandIsBounded
<1>1. Init => Typed /\ HandsKept
  <2>. SUFFICES ASSUME Init PROVE Typed /\ HandsKept
    OBVIOUS
  <2>1. Typed
    BY FreeRowType DEF Init, PoolInit, Typed, TypeOK, PoolTypeOK, StepIsKnown, Place, Loop
  <2>2. /\ Asking = {} /\ InHand = {} /\ Working = {}
        /\ At("batch") = {} /\ At("channel") = {} /\ At("done") = {}
    BY DEF Init, PoolInit, Asking, InHand, Working, At, Step
  <2>. QED
    BY <2>1, <2>2, FS_EmptySet, WorkersAssumption
    DEF HandsKept, OneReserve, LoopAsks, BatchIsHandedOut, RoundIsDone, PoolIsBounded
<1>2. Typed /\ HandsKept => InHandIsBounded
  <2>. SUFFICES ASSUME Typed, HandsKept, loop = "asked", program.ahead
                PROVE  Cardinality(InHand) <= 2 * Conc
    BY DEF InHandIsBounded, HandsKept, RoundIsDone
  <2>1. InHand \subseteq At("channel") \cup Working
    BY DEF HandsKept, BatchIsHandedOut, PoolIsBounded, InHand, At, Working,
           Typed, TypeOK, PoolTypeOK, Place, Step
  <2>2. At("channel") \subseteq Token /\ Working \subseteq Token
    BY DEF At, Working
  <2>3. /\ IsFiniteSet(At("channel") \cup Working)
        /\ Cardinality(At("channel") \cup Working)
             <= Cardinality(At("channel")) + Cardinality(Working)
    <3>1. /\ IsFiniteSet(At("channel")) /\ Cardinality(At("channel")) \in Nat
          /\ IsFiniteSet(Working) /\ Cardinality(Working) \in Nat
          /\ Cardinality(At("channel") \cap Working) \in Nat
      BY <2>2, TokensFinite
    <3>2. /\ IsFiniteSet(At("channel") \cup Working)
          /\ Cardinality(At("channel") \cup Working)
               = Cardinality(At("channel")) + Cardinality(Working)
                 - Cardinality(At("channel") \cap Working)
      BY <3>1, FS_Union, Zenon
    <3>. QED BY <3>1, <3>2
  <2>4. /\ Cardinality(InHand) <= Cardinality(At("channel") \cup Working)
        /\ Cardinality(InHand) \in Nat /\ Cardinality(At("channel") \cup Working) \in Nat
        /\ Cardinality(At("channel")) \in Nat /\ Cardinality(Working) \in Nat
    BY <2>1, <2>2, <2>3, FS_Subset, TokensFinite
  <2>. QED BY <2>3, <2>4, WorkersAssumption DEF HandsKept, PoolIsBounded
<1>. QED BY <1>1, <1>2, TypeStep, HandsStep, PTL DEF Spec

-----------------------------------------------------------------------------
(***************************************************************************)
(* What the program waits for.                                             *)
(***************************************************************************)

\* A reserve names no token.
ReservesAreBlank == \A c \in calls : c.verb = "reserve" => c.token = None

Waited == {c \in calls : c.waited}

LEMMA WaitedOnes ==
  /\ Asking = {c \in Waited : c.verb = "reserve"}
  /\ \A t : Posting(t) = {c \in Waited : c.verb \in Post /\ c.token = t}
  /\ Asking' = {c \in Waited' : c.verb = "reserve"}
  /\ \A t : Posting(t)' = {c \in Waited' : c.verb \in Post /\ c.token = t}
BY DEF Waited, Asking, Posting

LEMMA AbandonedStep ==
  ASSUME Typed, NEW S, S \subseteq calls, calls' = Abandoned(S)
  PROVE  /\ Waited' = Waited \ S
         /\ ReservesAreBlank => ReservesAreBlank'
<1>1. \A c \in calls : /\ [c EXCEPT !.waited = FALSE].waited = FALSE
                       /\ [c EXCEPT !.waited = FALSE].verb = c.verb
                       /\ [c EXCEPT !.waited = FALSE].token = c.token
  BY DEF Typed, TypeOK, PoolTypeOK, Call
<1>2. Waited' = Waited \ S
  <2>1. ASSUME NEW c \in Waited' PROVE c \in Waited \ S
    BY <1>1, <2>1 DEF Abandoned, Waited
  <2>2. ASSUME NEW c \in Waited \ S PROVE c \in Waited'
    BY <2>2 DEF Abandoned, Waited
  <2>. QED BY <2>1, <2>2
<1>3. ASSUME ReservesAreBlank PROVE ReservesAreBlank'
  <2>1. ASSUME NEW d \in calls' PROVE \E c \in calls : d.verb = c.verb /\ d.token = c.token
    BY <1>1 DEF Abandoned
  <2>. QED BY <1>3, <2>1 DEF ReservesAreBlank
<1>. QED BY <1>2, <1>3

\* A step that changes nothing that anybody waits for.
LEMMA WaitsKept ==
  ASSUME WaitsAreForCalls, Waited' = Waited, loop' = "asked" <=> loop = "asked",
         \A t \in Token : hand'[t] = "post" <=> hand[t] = "post"
  PROVE  WaitsAreForCalls'
<1>1. Asking' = Asking /\ \A t : Posting(t)' = Posting(t)
  BY WaitedOnes
<1>. QED BY <1>1 DEF WaitsAreForCalls

\* The loop's reserve is answered, or it has given the reserve up.
LEMMA LoopHearsWaits ==
  ASSUME Typed, WaitsAreForCalls, NEW c \in calls, c.verb = "reserve",
         calls' = calls \ {c}, NEW tokens, LoopHears(c, tokens),
         \A t \in tokens : hand[t] = "none"
  PROVE  WaitsAreForCalls'
<1>1. CASE ~ c.waited
  <2>1. Waited' = Waited
    BY <1>1 DEF Waited
  <2>. QED BY <1>1, <2>1, WaitsKept DEF LoopHears
<1>2. CASE c.waited
  <2>1. Asking = {c} /\ Waited' = Waited \ {c}
    BY <1>2 DEF WaitsAreForCalls, Asking, Waited
  <2>2. Asking' = {} /\ \A t : Posting(t)' = Posting(t)
    BY <2>1, WaitedOnes DEF Post
  <2>3. loop' # "asked" /\ \A t \in Token : hand'[t] = "post" <=> hand[t] = "post"
    BY <1>2 DEF LoopHears
  <2>. QED BY <2>2, <2>3 DEF WaitsAreForCalls
<1>. QED BY <1>1, <1>2

\* A post is answered or lost, and its job dropped, or it had been given up.
LEMMA PostHeardWaits ==
  ASSUME Typed, WaitsAreForCalls, NEW c \in calls, c.verb # "reserve",
         calls' = calls \ {c}, PostHeard(c), loop' = loop
  PROVE  WaitsAreForCalls'
<1>1. CASE ~ (c.waited /\ c.verb \in Post)
  <2>1. Asking' = Asking /\ \A t : Posting(t)' = Posting(t)
    BY <1>1 DEF Asking, Posting
  <2>2. hand' = hand
    BY <1>1 DEF PostHeard
  <2>. QED BY <2>1, <2>2 DEF WaitsAreForCalls
<1>2. CASE c.waited /\ c.verb \in Post
  <2>1. Waited' = Waited \ {c}
    BY <1>2 DEF Waited
  <2>2. Asking' = Asking /\ \A t : t # c.token => Posting(t)' = Posting(t)
    <3>1. \A d : d \in Waited' <=> d \in Waited /\ d # c
      BY <2>1
    <3>2. ASSUME NEW t, t # c.token PROVE Posting(t)' = Posting(t)
      BY <3>1, <3>2, WaitedOnes
    <3>3. Asking' = Asking
      BY <3>1, WaitedOnes
    <3>. QED BY <3>2, <3>3
  <2>3. ASSUME c.token \in Token PROVE Posting(c.token)' = {}
    <3>1. Posting(c.token) = {c}
      BY <1>2, <2>3 DEF WaitsAreForCalls, Posting
    <3>. QED BY <2>1, <3>1, WaitedOnes
  <2>4. hand' = [hand EXCEPT ![c.token] = "none"] /\ hand \in [Token -> Place]
    BY <1>2 DEF PostHeard, Typed, TypeOK, PoolTypeOK
  <2>. QED BY <2>2, <2>3, <2>4 DEF WaitsAreForCalls
<1>. QED BY <1>1, <1>2

LEMMA ServeWaits ==
  ASSUME Typed, WaitsAreForCalls, ReservesAreBlank, NEW c \in calls, Serve(c)
  PROVE  (WaitsAreForCalls /\ ReservesAreBlank)'
<1>0. c \in Call
  BY DEF Typed, TypeOK, PoolTypeOK
<1>1. CASE Admit(c)
  <2>. DEFINE new == [c EXCEPT !.admitted = TRUE]
  <2>1. /\ new.verb = c.verb /\ new.waited = c.waited /\ new.token = c.token
        /\ calls' = (calls \ {c}) \cup {new}
    BY <1>0, <1>1 DEF Admit, Call
  <2>. HIDE DEF new
  <2>2. ReservesAreBlank'
    BY <2>1 DEF ReservesAreBlank
  <2>3. ASSUME NEW S, NEW S2, S \subseteq calls,
               S2 = IF c \in S THEN (S \ {c}) \cup {new} ELSE S
        PROVE  /\ S = {} <=> S2 = {}
               /\ (\A d, e \in S : d = e) => \A d, e \in S2 : d = e
    BY <2>3
  <2>4. Asking' = IF c \in Asking THEN (Asking \ {c}) \cup {new} ELSE Asking
    BY <2>1 DEF Asking
  <2>5. \A t : Posting(t)' = IF c \in Posting(t) THEN (Posting(t) \ {c}) \cup {new} ELSE Posting(t)
    BY <2>1 DEF Posting
  <2>6. /\ Asking = {} <=> Asking' = {}
        /\ (\A d, e \in Asking : d = e) => \A d, e \in Asking' : d = e
    BY <2>3, <2>4 DEF Asking
  <2>7. ASSUME NEW t
        PROVE  /\ Posting(t) = {} <=> Posting(t)' = {}
               /\ (\A d, e \in Posting(t) : d = e) => \A d, e \in Posting(t)' : d = e
    <3>1. Posting(t) \subseteq calls
      BY DEF Posting
    <3>2. Posting(t)' = IF c \in Posting(t) THEN (Posting(t) \ {c}) \cup {new} ELSE Posting(t)
      BY <2>5
    <3>. QED BY <2>3, <3>1, <3>2
  <2>8. hand' = hand /\ loop' = loop
    BY <1>1 DEF Admit
  <2>9. WaitsAreForCalls'
    BY <2>6, <2>7, <2>8 DEF WaitsAreForCalls
  <2>. QED BY <2>2, <2>9
<1>2. CASE Answer(c)
  BY <1>2, PostHeardWaits DEF Answer, ReservesAreBlank
<1>3. CASE CallEnds(c) /\ c.verb # "reserve"
  BY <1>3, PostHeardWaits DEF CallEnds, ReservesAreBlank
<1>4. CASE CallEnds(c) /\ c.verb = "reserve"
  BY <1>4, LoopHearsWaits DEF CallEnds, ReservesAreBlank
<1>5. ASSUME NEW J \in SUBSET Job, NEW told \in BOOLEAN, Grant(c, J, told)
      PROVE  (WaitsAreForCalls /\ ReservesAreBlank)'
  <2>. DEFINE tokens == IF told THEN {NewToken(j) : j \in J} ELSE {}
  <2>1. \A j \in J : NewToken(j) \in FreshFor(j)
    BY <1>5 DEF Grant, Grants, MayLease, NewToken
  <2>2. \A t \in tokens : hand[t] = "none"
    BY <2>1 DEF FreshFor, Used, InHand
  <2>3. LoopHears(c, tokens) /\ c.verb = "reserve" /\ calls' = calls \ {c}
    BY <1>5 DEF Grant
  <2>. HIDE DEF tokens
  <2>. QED BY <2>2, <2>3, LoopHearsWaits DEF ReservesAreBlank
<1>. QED BY <1>1, <1>2, <1>3, <1>4, <1>5 DEF Serve

LEMMA LoopStepWaits ==
  ASSUME Typed, WaitsAreForCalls, ReservesAreBlank, LoopStep
  PROVE  (WaitsAreForCalls /\ ReservesAreBlank)'
<1>1. CASE Ask
  <2>. DEFINE new == Request("reserve", None)
  <2>1. new.verb = "reserve" /\ new.waited /\ new.token = None
    BY DEF Request
  <2>2. calls' = calls \cup {new} /\ loop = "top" /\ loop' = "asked" /\ hand' = hand
    BY <1>1 DEF Ask
  <2>. HIDE DEF new
  <2>3. Asking' = {new} /\ \A t : Posting(t)' = Posting(t)
    BY <2>1, <2>2 DEF Asking, Posting, Post, WaitsAreForCalls
  <2>. QED BY <2>1, <2>2, <2>3 DEF WaitsAreForCalls, ReservesAreBlank
<1>2. CASE GiveUpReserve
  <2>1. Waited' = Waited \ Asking /\ ReservesAreBlank'
    <3>1. Asking \subseteq calls /\ calls' = Abandoned(Asking)
      BY <1>2 DEF GiveUpReserve, Asking
    <3>. QED BY <3>1, AbandonedStep
  <2>2. Asking' = {} /\ \A t : Posting(t)' = Posting(t)
    BY <2>1, WaitedOnes DEF Post
  <2>. QED BY <1>2, <2>1, <2>2 DEF GiveUpReserve, WaitsAreForCalls
<1>3. CASE ReserveEnds
  BY <1>3, ServeWaits DEF ReserveEnds, Asking, Serve
<1>4. CASE NextBatch \/ Stops \/ Drained
  <2>1. Waited' = Waited /\ loop # "asked" /\ loop' # "asked" /\ hand' = hand
    BY <1>4 DEF NextBatch, Stops, Drained, Waited
  <2>2. ReservesAreBlank'
    BY <1>4 DEF NextBatch, Stops, Drained, ReservesAreBlank
  <2>. QED BY <2>1, <2>2, WaitsKept
<1>. QED BY <1>1, <1>2, <1>3, <1>4 DEF LoopStep

LEMMA JobStepWaits ==
  ASSUME Typed, WaitsAreForCalls, ReservesAreBlank, NEW t \in Token, JobStep(t)
  PROVE  (WaitsAreForCalls /\ ReservesAreBlank)'
<1>0. hand \in [Token -> Place]
  BY DEF Typed, TypeOK, PoolTypeOK
<1>1. ASSUME NEW place, Moves(t, place), place # "post", hand[t] # "post",
             UNCHANGED calls, JobUnchanged
      PROVE  (WaitsAreForCalls /\ ReservesAreBlank)'
  <2>1. Waited' = Waited /\ ReservesAreBlank'
    BY <1>1 DEF Waited, ReservesAreBlank
  <2>2. \A u \in Token : hand'[u] = "post" <=> hand[u] = "post"
    BY <1>0, <1>1 DEF Moves
  <2>. QED BY <1>1, <2>1, <2>2, WaitsKept DEF JobUnchanged
<1>2. CASE Put(t) \/ Discard(t) \/ Take(t)
  BY <1>1, <1>2 DEF Put, Discard, Take
<1>3. CASE Advance(t)
  <2>0. hand[t] # "post" /\ JobUnchanged
    BY <1>3 DEF Advance, Step
  <2>1. CASE UNCHANGED calls /\ (Moves(t, "second") \/ Moves(t, "done"))
    BY <1>1, <2>0, <2>1
  <2>2. ASSUME NEW verb \in Outcomes(StepOf(t)), Send(t, verb)
        PROVE  (WaitsAreForCalls /\ ReservesAreBlank)'
    <3>. DEFINE new == Request(verb, t)
    <3>1. verb \in Post
      BY <1>3, StepOfType, OutcomesPosted, WorkersAssumption DEF Advance, Typed, TypeOK
    <3>2. new.verb = verb /\ new.token = t /\ new.waited
      BY <3>1 DEF Request, Post
    <3>3. calls' = calls \cup {new} /\ hand' = [hand EXCEPT ![t] = "post"] /\ loop' = loop
      BY <2>0, <2>2 DEF Send, Moves, JobUnchanged
    <3>. HIDE DEF new
    <3>4. Posting(t) = {} /\ verb # "reserve"
      BY <2>0, <3>1 DEF WaitsAreForCalls, Post
    <3>5. /\ Asking' = Asking /\ Posting(t)' = {new}
          /\ \A u : u # t => Posting(u)' = Posting(u)
      BY <3>1, <3>2, <3>3, <3>4 DEF Asking, Posting
    <3>6. WaitsAreForCalls'
      BY <1>0, <3>3, <3>5 DEF WaitsAreForCalls
    <3>. QED BY <3>2, <3>3, <3>4, <3>6 DEF ReservesAreBlank
  <2>. QED BY <1>3, <2>1, <2>2 DEF Advance
<1>4. CASE Cancelled(t) \/ GiveUpPost(t)
  <2>. DEFINE S == {c \in calls : c.token = t}
  <2>1. /\ calls' = Abandoned(S) /\ hand' = [hand EXCEPT ![t] = "none"] /\ loop' = loop
    BY <1>4 DEF Cancelled, GiveUpPost, Moves, JobUnchanged
  <2>2. Waited' = Waited \ S /\ ReservesAreBlank'
    BY <2>1, AbandonedStep
  <2>3. Asking' = Asking
    <3>1. \A c \in Waited : c.verb = "reserve" => c \notin S
      BY PoolAssumption DEF ReservesAreBlank, Waited
    <3>. HIDE DEF S
    <3>. QED BY <2>2, <3>1, WaitedOnes
  <2>4. Posting(t)' = {} /\ \A u : u # t => Posting(u)' = Posting(u)
    BY <2>2, WaitedOnes DEF Waited
  <2>. QED BY <1>0, <2>1, <2>2, <2>3, <2>4 DEF WaitsAreForCalls
<1>. QED BY <1>2, <1>3, <1>4 DEF JobStep

LEMMA PostBatchWaits ==
  ASSUME Typed, WaitsAreForCalls, ReservesAreBlank, PostBatch
  PROVE  (WaitsAreForCalls /\ ReservesAreBlank)'
<1>1. PICK verb \in [InHand -> {"result", "retry"}] :
             calls' = calls \cup {Request(verb[t], t) : t \in InHand}
  BY DEF PostBatch
<1>. DEFINE new(t) == Request(verb[t], t)
<1>2. \A t \in InHand : verb[t] \in Post /\ verb[t] # "reserve"
  BY DEF Post
<1>3. \A t \in InHand : new(t).verb \in Post /\ new(t).verb # "reserve"
                        /\ new(t).token = t /\ new(t).waited
  BY <1>2 DEF Request, Post
<1>4. calls' = calls \cup {new(t) : t \in InHand}
  BY <1>1
<1>. HIDE DEF new
<1>5. Asking' = Asking
  BY <1>3, <1>4 DEF Asking
<1>6. \A t \in InHand : Posting(t) = {}
  <2>1. \A t \in InHand : t \in Token /\ hand[t] = "done"
    BY DEF PostBatch, At
  <2>. QED BY <2>1 DEF WaitsAreForCalls
<1>7. \A t \in InHand : Posting(t)' = {new(t)}
  BY <1>3, <1>4, <1>6 DEF Posting
<1>8. \A t : t \notin InHand => Posting(t)' = Posting(t)
  BY <1>3, <1>4 DEF Posting
<1>9. \A t \in Token : hand'[t] = IF t \in InHand THEN "post" ELSE hand[t]
  BY DEF PostBatch
<1>10. WaitsAreForCalls'
  BY <1>5, <1>7, <1>8, <1>9 DEF WaitsAreForCalls, PostBatch, JobUnchanged
<1>. QED BY <1>3, <1>4, <1>10 DEF ReservesAreBlank

LEMMA WaitsStep ==
  ASSUME Typed, WaitsAreForCalls, ReservesAreBlank, [Next]_vars
  PROVE  (WaitsAreForCalls /\ ReservesAreBlank)'
<1>1. ASSUME Waited' = Waited, loop' = loop \/ (loop # "asked" /\ loop' # "asked"),
             hand' = hand, ReservesAreBlank'
      PROVE  (WaitsAreForCalls /\ ReservesAreBlank)'
  BY <1>1, WaitsKept
<1>2. CASE UNCHANGED vars
  BY <1>1, <1>2 DEF vars, poolVars, Waited, ReservesAreBlank
<1>3. CASE Registry
  <2>1. CASE Tick \/ Sweep \/ Operator
    BY <1>1, <2>1 DEF Tick, Sweep, Operator, Ban, Unban, Release, Waited, ReservesAreBlank
  <2>. QED BY <1>3, <2>1, ServeWaits DEF Registry
<1>4. ASSUME NEW t \in Token, Beat(t) PROVE (WaitsAreForCalls /\ ReservesAreBlank)'
  <2>1. /\ Request("heartbeat", t).verb = "heartbeat"
        /\ ~ Request("heartbeat", t).waited
    BY DEF Request
  <2>. QED BY <1>1, <1>4, <2>1 DEF Beat, JobUnchanged, Waited, ReservesAreBlank
<1>5. CASE Dies
  <2>1. Waited' = {} /\ ReservesAreBlank'
    BY <1>5, AbandonedStep DEF Dies, Waited
  <2>2. Asking' = {} /\ \A t : Posting(t)' = {}
    BY <2>1, WaitedOnes
  <2>. QED BY <1>5, <2>1, <2>2 DEF Dies, WaitsAreForCalls
<1>6. CASE Signal
  BY <1>1, <1>5, <1>6 DEF Signal, poolVars, Waited, ReservesAreBlank
<1>7. CASE Deadline \/ Start
  BY <1>1, <1>7 DEF Deadline, Start, Waited, ReservesAreBlank
<1>. QED
  BY <1>2, <1>3, <1>4, <1>5, <1>6, <1>7, LoopStepWaits, JobStepWaits, PostBatchWaits
  DEF Next, WorkStep, Crash

\* No loop and no goroutine waits for a request that nobody will answer: the one it
\* waits for is there, whatever was cancelled, timed out, refused or lost before.
THEOREM NobodyWaitsForNothing == Spec => [](WaitsAreForCalls /\ ReservesAreBlank)
<1>1. Init => WaitsAreForCalls /\ ReservesAreBlank
  BY DEF Init, PoolInit, WaitsAreForCalls, ReservesAreBlank, Asking, Posting
<1>2. Typed /\ WaitsAreForCalls /\ ReservesAreBlank /\ [Next]_vars
        => (WaitsAreForCalls /\ ReservesAreBlank)'
  BY WaitsStep
<1>. QED BY <1>1, <1>2, WorkersTyping, PTL DEF Spec, Typed

-----------------------------------------------------------------------------
(***************************************************************************)
(* What a ban stops.                                                       *)
(***************************************************************************)

LEMMA CallFinite == IsFiniteSet(Call)
<1>. DEFINE V == {"reserve", "heartbeat"} \cup Post
            T == Token \cup {None}
            P == (V \X T) \X (BOOLEAN \X BOOLEAN)
            f == [x \in P |-> [verb |-> x[1][1], token |-> x[1][2],
                              admitted |-> x[2][1], waited |-> x[2][2]]]
<1>1. IsFiniteSet(T)
  BY TokensFinite, FS_AddElement
<1>2. IsFiniteSet({TRUE, FALSE}) /\ BOOLEAN = {TRUE, FALSE}
  <2>1. IsFiniteSet({TRUE} \cup {FALSE})
    BY FS_Singleton, FS_AddElement
  <2>2. {TRUE} \cup {FALSE} = {TRUE, FALSE}
    OBVIOUS
  <2>. QED BY <2>1, <2>2
<1>3. IsFiniteSet(V)
  <2>1. IsFiniteSet({"reserve"} \cup {"heartbeat"})
    BY FS_Singleton, FS_AddElement
  <2>2. IsFiniteSet(({"reserve"} \cup {"heartbeat"}) \cup {"result"})
    BY <2>1, FS_AddElement
  <2>3. IsFiniteSet((({"reserve"} \cup {"heartbeat"}) \cup {"result"}) \cup {"retry"})
    BY <2>2, FS_AddElement
  <2>4. IsFiniteSet(((({"reserve"} \cup {"heartbeat"}) \cup {"result"}) \cup {"retry"})
                     \cup {"final"})
    BY <2>3, FS_AddElement
  <2>5. V = ((({"reserve"} \cup {"heartbeat"}) \cup {"result"}) \cup {"retry"}) \cup {"final"}
    BY DEF Post
  <2>. QED BY <2>4, <2>5
<1>4. IsFiniteSet(P)
  <2>1. IsFiniteSet(V \X T)
    BY <1>1, <1>3, FS_Product
  <2>2. IsFiniteSet(BOOLEAN \X BOOLEAN)
    BY <1>2, FS_Product
  <2>. QED BY <2>1, <2>2, FS_Product
<1>5. f \in Surjection(P, Call)
  <2>1. ASSUME NEW x \in P PROVE f[x] \in Call
    BY DEF Call
  <2>2. ASSUME NEW c \in Call PROVE \E x \in P : f[x] = c
    <3>1. <<<<c.verb, c.token>>, <<c.admitted, c.waited>>>> \in P
      BY DEF Call
    <3>2. f[<<<<c.verb, c.token>>, <<c.admitted, c.waited>>>>] = c
      BY <3>1 DEF Call
    <3>. QED BY <3>1, <3>2
  <2>3. f \in [P -> Call]
    BY <2>1
  <2>. HIDE DEF f, P
  <2>. QED BY <2>2, <2>3 DEF Surjection
<1>. HIDE DEF P, f
<1>. QED BY <1>4, <1>5, FS_Surjection

LEMMA AdmittedOnes ==
  ASSUME Typed
  PROVE  IsFiniteSet(Admitted) /\ Cardinality(Admitted) \in Nat
<1>1. Admitted \subseteq Call
  BY DEF Admitted, Typed, TypeOK, PoolTypeOK
<1>. QED BY <1>1, CallFinite, FS_Subset, FS_CardinalityType

LEMMA FewerAdmitted ==
  ASSUME Typed, Admitted' \subseteq Admitted
  PROVE  /\ Cardinality(Admitted') <= Cardinality(Admitted)
         /\ Admitted' # Admitted => Cardinality(Admitted') < Cardinality(Admitted)
<1>1. IsFiniteSet(Admitted) /\ Cardinality(Admitted) \in Nat
  BY AdmittedOnes
<1>2. /\ IsFiniteSet(Admitted') /\ Cardinality(Admitted') <= Cardinality(Admitted)
      /\ Cardinality(Admitted) = Cardinality(Admitted') => Admitted = Admitted'
  BY <1>1, FS_Subset
<1>3. Cardinality(Admitted') \in Nat
  BY <1>2, FS_CardinalityType
<1>. QED BY <1>1, <1>2, <1>3

\* Requests are given up: those of them that were let in stay let in, or are dropped.
LEMMA AdmittedGivenUp ==
  ASSUME Typed, NEW S, S \subseteq calls, calls' = Abandoned(S)
  PROVE  Cardinality(Admitted') <= Cardinality(Admitted)
<1>. DEFINE g == [c \in Admitted |-> IF c \in S THEN [c EXCEPT !.waited = FALSE] ELSE c]
            kept == {g[c] : c \in Admitted}
<1>1. IsFiniteSet(Admitted) /\ Cardinality(Admitted) \in Nat
  BY AdmittedOnes
<1>2. ASSUME NEW d \in Admitted' PROVE d \in kept
  <2>1. d \in Abandoned(S) /\ d.admitted
    BY DEF Admitted
  <2>2. CASE d \in calls \ S
    <3>1. d \in Admitted
      BY <2>1, <2>2 DEF Admitted
    <3>2. g[d] = d
      BY <2>2, <3>1
    <3>. QED BY <3>1, <3>2
  <2>3. CASE d \notin calls \ S
    <3>1. PICK c \in S : d = [c EXCEPT !.waited = FALSE]
      BY <2>1, <2>3 DEF Abandoned
    <3>2. c \in calls /\ c \in Call
      BY DEF Typed, TypeOK, PoolTypeOK
    <3>3. c.admitted = d.admitted
      BY <3>1, <3>2 DEF Call
    <3>4. c \in Admitted
      BY <2>1, <3>2, <3>3 DEF Admitted
    <3>5. g[c] = d
      BY <3>1, <3>4
    <3>. QED BY <3>4, <3>5
  <2>. QED BY <2>2, <2>3
<1>3. g \in Surjection(Admitted, kept)
  <2>1. g \in [Admitted -> kept]
    OBVIOUS
  <2>2. \A d \in kept : \E c \in Admitted : g[c] = d
    OBVIOUS
  <2>. HIDE DEF g, kept
  <2>. QED BY <2>1, <2>2 DEF Surjection
<1>. HIDE DEF g, kept
<1>4. IsFiniteSet(kept) /\ Cardinality(kept) <= Cardinality(Admitted)
  BY <1>1, <1>3, FS_Surjection
<1>5. Admitted' \subseteq kept
  BY <1>2
<1>6. Cardinality(Admitted') <= Cardinality(kept) /\ IsFiniteSet(Admitted')
  BY <1>4, <1>5, FS_Subset
<1>7. Cardinality(Admitted') \in Nat /\ Cardinality(kept) \in Nat
  BY <1>4, <1>6, FS_CardinalityType
<1>. QED BY <1>1, <1>4, <1>6, <1>7

\* A step that leases nothing and prolongs nothing.
RowsRunDown == \A j \in Job : ~ Prolonged(j) /\ ~ NewlyLeased(j)

LEMMA RowsKept ==
  ASSUME Typed, row' = row
  PROVE  RowsRunDown
BY DEF RowsRunDown, Prolonged, NewlyLeased, Typed, TypeOK, PoolTypeOK, Row

\* Requests come and go, but none that was let in is new.
LEMMA NoneLetIn ==
  ASSUME Typed, \A c \in calls' : c \in calls \/ c.admitted = FALSE
  PROVE  Cardinality(Admitted') <= Cardinality(Admitted)
<1>1. Admitted' \subseteq Admitted
  BY DEF Admitted
<1>. QED BY <1>1, FewerAdmitted

LEMMA RegistryRunsDown ==
  ASSUME Typed, banned, Registry
  PROVE  /\ Cardinality(Admitted') <= Cardinality(Admitted)
         /\ (\E j \in Job : Prolonged(j) \/ NewlyLeased(j)) =>
               Cardinality(Admitted') < Cardinality(Admitted)
<1>0. row \in [Job -> Row]
  BY DEF Typed, TypeOK, PoolTypeOK
<1>1. CASE Tick \/ Sweep \/ Operator
  <2>1. calls' = calls
    BY <1>1 DEF Tick, Sweep, Operator, Ban, Unban, Release
  <2>2. CASE Tick
    <3>1. ASSUME NEW j \in Job
          PROVE  row'[j].status = row[j].status /\ row'[j].left = Less(row[j].left)
      BY <1>0, <2>2 DEF Tick, Row
    <3>2. \A j \in Job : row[j].left \in Nat
      BY <1>0 DEF Row
    <3>3. \A j \in Job : Less(row[j].left) <= row[j].left
      BY <3>2 DEF Less
    <3>4. RowsRunDown
      BY <3>1, <3>2, <3>3 DEF RowsRunDown, Prolonged, NewlyLeased, Less
    <3>. QED BY <2>1, <3>4, NoneLetIn DEF RowsRunDown
  <2>3. CASE Sweep \/ Release \/ row' = row
    <3>1. ASSUME NEW j \in Job PROVE row'[j] \in {row[j], FreeRow}
      BY <1>0, <2>3 DEF Sweep, Release
    <3>2. \A j \in Job : row[j].left \in Nat
      BY <1>0 DEF Row
    <3>3. RowsRunDown
      BY <3>1, <3>2 DEF RowsRunDown, Prolonged, NewlyLeased, FreeRow
    <3>. QED BY <2>1, <3>3, NoneLetIn DEF RowsRunDown
  <2>. QED BY <1>1, <2>2, <2>3 DEF Operator, Ban, Unban
<1>2. ASSUME NEW c \in calls, Admit(c) PROVE FALSE
  BY <1>2 DEF Admit, Refuses
<1>3. ASSUME NEW c \in calls, CallEnds(c)
      PROVE  RowsRunDown /\ Cardinality(Admitted') <= Cardinality(Admitted)
  BY <1>3, RowsKept, NoneLetIn DEF CallEnds
<1>4. ASSUME NEW c \in calls,
             Answer(c) \/ \E J \in SUBSET Job, told \in BOOLEAN : Grant(c, J, told)
      PROVE  /\ Cardinality(Admitted') < Cardinality(Admitted)
             /\ Cardinality(Admitted') <= Cardinality(Admitted)
  <2>1. Admitted' = Admitted \ {c} /\ c \in Admitted
    BY <1>4 DEF Answer, Grant, Admitted
  <2>2. Admitted' \subseteq Admitted /\ Admitted' # Admitted
    BY <2>1
  <2>. QED BY <2>2, FewerAdmitted
<1>. QED BY <1>1, <1>2, <1>3, <1>4 DEF Registry, Serve, RowsRunDown

LEMMA ProgramRunsDown ==
  ASSUME Typed, [Next]_vars, ~ Registry
  PROVE  RowsRunDown /\ Cardinality(Admitted') <= Cardinality(Admitted)
<1>1. CASE UNCHANGED vars
  BY <1>1, RowsKept, NoneLetIn DEF vars, poolVars
<1>2. CASE LoopStep
  <2>1. row' = row
    BY <1>2
    DEF LoopStep, Ask, GiveUpReserve, ReserveEnds, CallEnds, NextBatch, Stops, Drained
  <2>2. CASE GiveUpReserve
    <3>1. Asking \subseteq calls /\ calls' = Abandoned(Asking)
      BY <2>2 DEF GiveUpReserve, Asking
    <3>. QED BY <2>1, <3>1, RowsKept, AdmittedGivenUp
  <2>3. CASE ~ GiveUpReserve
    <3>1. \A c \in calls' : c \in calls \/ c.admitted = FALSE
      BY <1>2, <2>3
      DEF LoopStep, Ask, Request, ReserveEnds, CallEnds, NextBatch, Stops, Drained
    <3>. QED BY <2>1, <3>1, RowsKept, NoneLetIn
  <2>. QED BY <2>2, <2>3
<1>3. CASE PostBatch
  <2>1. PICK verb \in [InHand -> {"result", "retry"}] :
               calls' = calls \cup {Request(verb[t], t) : t \in InHand}
    BY <1>3 DEF PostBatch
  <2>2. \A t \in InHand : Request(verb[t], t).admitted = FALSE
    BY DEF Request
  <2>. QED BY <1>3, <2>1, <2>2, RowsKept, NoneLetIn DEF PostBatch, JobUnchanged
<1>4. ASSUME NEW t \in Token, JobStep(t)
      PROVE  RowsRunDown /\ Cardinality(Admitted') <= Cardinality(Admitted)
  <2>1. row' = row
    BY <1>4 DEF JobStep, Put, Discard, Take, Advance, Cancelled, GiveUpPost, JobUnchanged
  <2>2. CASE Cancelled(t) \/ GiveUpPost(t)
    <3>. DEFINE S == {c \in calls : c.token = t}
    <3>1. calls' = Abandoned(S)
      BY <2>2 DEF Cancelled, GiveUpPost
    <3>. QED BY <2>1, <3>1, RowsKept, AdmittedGivenUp
  <2>3. CASE ~ (Cancelled(t) \/ GiveUpPost(t))
    <3>1. \A verb : Request(verb, t).admitted = FALSE
      BY DEF Request
    <3>2. \A c \in calls' : c \in calls \/ c.admitted = FALSE
      BY <1>4, <2>3, <3>1 DEF JobStep, Put, Discard, Take, Advance, Send
    <3>. QED BY <2>1, <3>2, RowsKept, NoneLetIn
  <2>. QED BY <2>2, <2>3
<1>5. ASSUME NEW t \in Token, Beat(t)
      PROVE  RowsRunDown /\ Cardinality(Admitted') <= Cardinality(Admitted)
  <2>1. Request("heartbeat", t).admitted = FALSE
    BY DEF Request
  <2>. QED BY <1>5, <2>1, RowsKept, NoneLetIn DEF Beat, JobUnchanged
<1>6. CASE Dies
  BY <1>6, RowsKept, AdmittedGivenUp DEF Dies
<1>7. CASE Signal
  BY <1>6, <1>7, RowsKept, NoneLetIn DEF Signal, poolVars
<1>8. CASE Deadline \/ Start
  BY <1>8, RowsKept, NoneLetIn DEF Deadline, Start
<1>. QED
  BY <1>1, <1>2, <1>3, <1>4, <1>5, <1>6, <1>7, <1>8 DEF Next, WorkStep, Crash

\* The ban of a worker: its leases only run out from then on, but for what the requests
\* that had been let in before still do, each once, and no other is let in.
THEOREM BansRunDown == Spec => BanRunsDown
<1>1. Typed /\ [Next]_vars =>
        [banned /\ banned' =>
           /\ Cardinality(Admitted') <= Cardinality(Admitted)
           /\ (\E j \in Job : Prolonged(j) \/ NewlyLeased(j)) =>
                 Cardinality(Admitted') < Cardinality(Admitted)]_vars
  BY RegistryRunsDown, ProgramRunsDown DEF RowsRunDown
<1>. QED BY <1>1, WorkersTyping, PTL DEF Spec, Typed, BanRunsDown

-----------------------------------------------------------------------------
(***************************************************************************)
(* The way of a job through the program.                                   *)
(***************************************************************************)

LEMMA RankOrder ==
  /\ Rank["batch"] = 1 /\ Rank["channel"] = 2 /\ Rank["first"] = 3
  /\ Rank["second"] = 4 /\ Rank["done"] = 5 /\ Rank["post"] = 6 /\ Rank["none"] = 7
<1>1. /\ "batch" \in Place /\ "channel" \in Place /\ "first" \in Place
      /\ "second" \in Place /\ "done" \in Place /\ "post" \in Place /\ "none" \in Place
  BY DEF Place, Step
<1>. QED BY <1>1 DEF Rank

Forward(t) == hand[t] # "none" /\ Rank[hand'[t]] > Rank[hand[t]]
Arrives(t) ==
  /\ hand[t] = "none" /\ hand'[t] = "batch" /\ loop = "asked"
  /\ \A j \in Job : row[j].token # t
  /\ \A c \in calls : c.token # t
OnItsWay(t) == hand'[t] = hand[t] \/ Forward(t) \/ Arrives(t)

LEMMA DropIsForward ==
  ASSUME Typed, NEW t \in Token, hand[t] # "none", hand'[t] = "none"
  PROVE  Forward(t)
<1>1. hand[t] \in {"batch", "channel", "done", "post", "first", "second"}
  BY DEF Typed, TypeOK, PoolTypeOK, Place, Step
<1>. QED BY <1>1, RankOrder DEF Forward

\* The batch that arrives is under tokens that nobody else knows.
LEMMA HeardArrives ==
  ASSUME Typed, WaitsAreForCalls, NEW c \in calls, c.verb = "reserve",
         NEW tokens, LoopHears(c, tokens), NEW t \in Token,
         t \in tokens => t \notin Used
  PROVE  OnItsWay(t)
<1>1. CASE ~ c.waited \/ t \notin tokens
  BY <1>1 DEF LoopHears, OnItsWay
<1>2. CASE c.waited /\ t \in tokens
  <2>1. loop = "asked"
    BY <1>2 DEF WaitsAreForCalls, Asking
  <2>2. hand[t] = "none" /\ hand'[t] = "batch"
    BY <1>2 DEF LoopHears, Used, InHand
  <2>3. (\A j \in Job : row[j].token # t) /\ \A d \in calls : d.token # t
    BY <1>2 DEF Used
  <2>. QED BY <2>1, <2>2, <2>3 DEF OnItsWay, Arrives
<1>. QED BY <1>1, <1>2

LEMMA HeardDrops ==
  ASSUME Typed, WaitsAreForCalls, NEW c \in calls, PostHeard(c), NEW t \in Token
  PROVE  OnItsWay(t)
<1>0. hand \in [Token -> Place]
  BY DEF Typed, TypeOK, PoolTypeOK
<1>1. CASE c.waited /\ c.verb \in Post /\ c.token = t
  <2>1. hand[t] = "post"
    BY <1>1 DEF WaitsAreForCalls, Posting
  <2>2. hand'[t] = "none"
    BY <1>0, <1>1 DEF PostHeard
  <2>. QED BY <2>1, <2>2, DropIsForward DEF OnItsWay
<1>2. CASE ~ (c.waited /\ c.verb \in Post /\ c.token = t)
  BY <1>0, <1>2 DEF PostHeard, OnItsWay
<1>. QED BY <1>1, <1>2

LEMMA RegistryOnItsWay ==
  ASSUME Typed, WaitsAreForCalls, Registry, NEW t \in Token
  PROVE  OnItsWay(t)
<1>1. CASE Tick \/ Sweep \/ Operator
  BY <1>1 DEF Tick, Sweep, Operator, Ban, Unban, Release, OnItsWay
<1>2. ASSUME NEW c \in calls, Admit(c) PROVE OnItsWay(t)
  BY <1>2 DEF Admit, OnItsWay
<1>3. ASSUME NEW c \in calls, Answer(c) PROVE OnItsWay(t)
  BY <1>3, HeardDrops DEF Answer
<1>4. ASSUME NEW c \in calls, CallEnds(c) PROVE OnItsWay(t)
  BY <1>4, HeardDrops, HeardArrives DEF CallEnds
<1>5. ASSUME NEW c \in calls, NEW J \in SUBSET Job, NEW told \in BOOLEAN, Grant(c, J, told)
      PROVE  OnItsWay(t)
  <2>. DEFINE tokens == IF told THEN {NewToken(j) : j \in J} ELSE {}
  <2>1. \A j \in J : NewToken(j) \in FreshFor(j)
    BY <1>5 DEF Grant, Grants, MayLease, NewToken
  <2>2. t \in tokens => t \notin Used
    BY <2>1 DEF FreshFor
  <2>3. LoopHears(c, tokens) /\ c.verb = "reserve"
    BY <1>5 DEF Grant
  <2>. HIDE DEF tokens
  <2>. QED BY <2>2, <2>3, HeardArrives
<1>. QED BY <1>1, <1>2, <1>3, <1>4, <1>5 DEF Registry, Serve

LEMMA WorkOnItsWay ==
  ASSUME Typed, WorkStep, NEW t \in Token
  PROVE  OnItsWay(t)
<1>0. hand \in [Token -> Place]
  BY DEF Typed, TypeOK, PoolTypeOK
<1>1. CASE PostBatch
  <2>1. CASE t \in InHand
    <3>1. hand[t] = "done" /\ hand'[t] = "post"
      BY <1>1, <2>1 DEF PostBatch, At
    <3>. QED BY <3>1, RankOrder DEF OnItsWay, Forward
  <2>2. CASE t \notin InHand
    BY <1>1, <2>2 DEF PostBatch, OnItsWay
  <2>. QED BY <2>1, <2>2
<1>2. ASSUME NEW u \in Token, JobStep(u), u # t PROVE OnItsWay(t)
  <2>1. \E place : Moves(u, place)
    BY <1>2 DEF JobStep, Put, Discard, Take, Advance, Send, Cancelled, GiveUpPost
  <2>. QED BY <1>0, <1>2, <2>1 DEF Moves, OnItsWay
<1>3. CASE JobStep(t)
  <2>1. CASE Put(t)
    <3>1. hand[t] = "batch" /\ hand'[t] = "channel"
      BY <1>0, <2>1 DEF Put, Moves
    <3>. QED BY <3>1, RankOrder DEF OnItsWay, Forward
  <2>2. CASE Take(t)
    <3>1. hand[t] \in {"batch", "channel"} /\ hand'[t] = "first"
      BY <1>0, <2>2 DEF Take, Moves
    <3>. QED BY <3>1, RankOrder DEF OnItsWay, Forward
  <2>3. CASE Advance(t)
    <3>1. hand[t] \in {"first", "second"}
      BY <2>3 DEF Advance, Step
    <3>2. StepOf(t) < Len(program.steps) => hand[t] = "first"
      <4>1. Len(program.steps) \in {1, 2}
        BY ProgramShape, StepsShape, WorkersAssumption DEF Typed, TypeOK, Loops
      <4>2. hand[t] # "first" => StepOf(t) = 2
        BY DEF StepOf
      <4>. DEFINE n == Len(program.steps)
      <4>. HIDE DEF n
      <4>3. n \in {1, 2} => ~ (2 < n)
        OBVIOUS
      <4>. QED BY <4>1, <4>2, <4>3 DEF n
    <3>3. \/ hand[t] = "first" /\ hand'[t] = "second"
          \/ hand'[t] \in {"done", "post"}
      BY <1>0, <2>3, <3>2 DEF Advance, Moves, Send
    <3>. QED BY <3>1, <3>3, RankOrder DEF OnItsWay, Forward
  <2>4. CASE Discard(t) \/ Cancelled(t) \/ GiveUpPost(t)
    <3>1. hand[t] # "none" /\ hand'[t] = "none"
      BY <1>0, <2>4 DEF Discard, Cancelled, GiveUpPost, TimesOut, Moves, Step
    <3>. QED BY <3>1, DropIsForward DEF OnItsWay
  <2>. QED BY <1>3, <2>1, <2>2, <2>3, <2>4 DEF JobStep
<1>. QED BY <1>1, <1>2, <1>3 DEF WorkStep

LEMMA StepOnItsWay ==
  ASSUME Typed, WaitsAreForCalls, [Next]_vars, NEW t \in Token
  PROVE  OnItsWay(t)
<1>1. CASE hand' = hand
  BY <1>1 DEF OnItsWay
<1>2. CASE LoopStep
  <2>1. ASSUME NEW c \in Asking, CallEnds(c) PROVE OnItsWay(t)
    BY <2>1, HeardArrives DEF CallEnds, Asking
  <2>. QED
    BY <1>1, <1>2, <2>1 DEF LoopStep, Ask, GiveUpReserve, NextBatch, Stops, Drained, ReserveEnds
<1>3. CASE Dies
  <2>1. hand'[t] = "none"
    BY <1>3 DEF Dies
  <2>. QED BY <2>1, DropIsForward DEF OnItsWay
<1>4. CASE Signal \/ Crash
  BY <1>1, <1>3, <1>4 DEF Signal, Crash, poolVars
<1>5. CASE (\E u \in Token : Beat(u)) \/ Deadline \/ Start \/ UNCHANGED vars
  BY <1>1, <1>5 DEF Beat, Deadline, Start, vars, poolVars
<1>. QED BY <1>2, <1>4, <1>5, RegistryOnItsWay, WorkOnItsWay DEF Next

\* The run loops: every job goes one way through the program, whichever program it is,
\* and no late answer, no second delivery and no restart brings one back.
THEOREM EveryJobGoesForward == Spec => JobsGoForward
<1>1. Typed /\ WaitsAreForCalls /\ [Next]_vars =>
        [\A t \in Token :
           \/ hand'[t] = hand[t]
           \/ hand[t] # "none" /\ Rank[hand'[t]] > Rank[hand[t]]
           \/ /\ hand[t] = "none" /\ hand'[t] = "batch" /\ loop = "asked"
              /\ \A j \in Job : row[j].token # t
              /\ \A c \in calls : c.token # t]_vars
  BY StepOnItsWay DEF OnItsWay, Forward, Arrives
<1>. QED BY <1>1, WorkersTyping, NobodyWaitsForNothing, PTL DEF Spec, Typed, JobsGoForward
=============================================================================
