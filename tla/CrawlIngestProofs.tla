------------------------- MODULE CrawlIngestProofs --------------------------
(***************************************************************************)
(* Proofs about the ingest pipeline: types, what a done row, a lake row    *)
(* and a job promise, and that the pipeline implements the crawl queue.    *)
(***************************************************************************)
EXTENDS CrawlIngest, FrontierQueueProofs

-----------------------------------------------------------------------------
\* What the steps of the queue are, seen from the pipeline.

LEMMA QueueIsNext ==
  ASSUME QueueStep
  PROVE  Next
<1>1. CASE BeginCall
  BY <1>1 DEF BeginCall, Next
<1>2. CASE PlainAnswer
  BY <1>2 DEF PlainAnswer, Answer, Next
<1>3. CASE PlainFailure
  BY <1>3 DEF PlainFailure, Next
<1>4. CASE Reserve \/ Link \/ SweepExpired \/ Requeue \/ Operate \/ Tick
  BY <1>4 DEF Next
<1>5. CASE \E u \in URL, p \in Priorities : Enqueue(u, p)
  BY <1>5 DEF Next
<1>. QED BY <1>1, <1>2, <1>3, <1>4, <1>5 DEF QueueStep

LEMMA QueueKeepsPipeline ==
  ASSUME QueueStep
  PROVE  UNCHANGED ingestVars
BY DEF QueueStep

\* The mover leaves the queue alone.
LEMMA MoverKeepsQueue ==
  ASSUME MoverStep
  PROVE  UNCHANGED <<vars, ingesting, firing, jobs, accepted>>
BY DEF MoverStep, MoveGet, MovePut, MoveUpdate, MoveDelete, MoveFails, MoveTo

-----------------------------------------------------------------------------
\* Type correctness.

LEMMA ObjectType ==
  ASSUME NEW g \in Ingest
  PROVE  ObjectOf(g) \in Object
BY DEF Ingest, AnswerCall, Token, ObjectOf, Object

LEMMA KeyType ==
  ASSUME NEW o \in Object
  PROVE  KeyOf(o) \in Key
BY DEF Object, Key, KeyOf

LEMMA LinksOfType ==
  ASSUME NEW f \in Firing
  PROVE  LinksOf(f) \subseteq LinkCall
BY DEF Firing, Object, LinksOf, NewLinkCall, LinkCall

LEMMA PutBlobType ==
  ASSUME NEW b \in Backend, NEW k \in Key, NEW v \in Body \cup {None},
         blob \in [Backend -> [Key -> Body \cup {None}]]
  PROVE  [blob EXCEPT ![b][k] = v] \in [Backend -> [Key -> Body \cup {None}]]
OBVIOUS

LEMMA IngestStepType ==
  ASSUME IngestTypeOK, IngestStep
  PROVE  IngestTypeOK'
<1>1. ASSUME NEW c \in answering, NEW b \in Body, PutBlob(c, b)
      PROVE  IngestTypeOK'
  <2>. DEFINE g == [call |-> c, body |-> b, indexed |-> FALSE]
  <2>1. g \in Ingest
    BY DEF IngestTypeOK, TypeOK, Ingest
  <2>2. KeyOf(ObjectOf(g)) \in Key
    BY <2>1, ObjectType, KeyType
  <2>3. /\ blob' = [blob EXCEPT !["local"][KeyOf(ObjectOf(g))] = b]
        /\ ingesting' = ingesting \cup {g}
        /\ UNCHANGED <<vars, lake, firing, jobs, accepted, move>>
    BY <1>1 DEF PutBlob
  <2>4. blob' \in [Backend -> [Key -> Body \cup {None}]]
    BY <2>2, <2>3, PutBlobType DEF IngestTypeOK, Backend
  <2>. HIDE DEF g
  <2>. QED BY <2>1, <2>3, <2>4 DEF IngestTypeOK, TypeOK, vars
<1>2. ASSUME NEW g \in ingesting, InsertLake(g)
      PROVE  IngestTypeOK'
  <2>1. g \in Ingest /\ [g EXCEPT !.indexed = TRUE] \in Ingest
    BY DEF IngestTypeOK, Ingest
  <2>2. lake' \in [Object -> Backend \cup {None}]
    BY <1>2, <2>1, ObjectType DEF InsertLake, IngestTypeOK, Backend
  <2>. QED BY <1>2, <2>1, <2>2 DEF InsertLake, IngestTypeOK, TypeOK, vars
<1>3. ASSUME NEW g \in ingesting, CompleteResult(g)
      PROVE  IngestTypeOK'
  <2>1. /\ g \in Ingest /\ ObjectOf(g) \in Object /\ g.call \in AnswerCall
        /\ g.call.token.url \in URL
    BY ObjectType DEF IngestTypeOK, Ingest, AnswerCall, Token
  <2>2. row' \in [URL -> Row] /\ answering' \subseteq answering
    BY <1>3, UnleasedType
       DEF CompleteResult, CompleteRow, UpdateRows, IngestTypeOK, TypeOK, Status
  <2>3. TypeOK'
    BY <1>3, <2>2 DEF CompleteResult, IngestTypeOK, TypeOK
  <2>4. ASSUME NEW links \in LinkSets
        PROVE  [object |-> ObjectOf(g), attempt |-> row[g.call.token.url].attempts,
                todo |-> Matching(ObjectOf(g)), links |-> links] \in Firing
    BY <2>1, OperatorAssumption DEF Firing, Matching, IngestTypeOK, TypeOK, Row
  <2>5. firing' \subseteq Firing
    BY <1>3, <2>4 DEF CompleteResult, IngestTypeOK
  <2>6. accepted' \in [Object -> Nat]
    BY <1>3, <2>1 DEF CompleteResult, IngestTypeOK
  <2>. QED BY <1>3, <2>3, <2>5, <2>6 DEF CompleteResult, IngestTypeOK
<1>4. ASSUME NEW f \in firing, StartLinks(f)
      PROVE  IngestTypeOK'
  <2>1. LinksOf(f) \subseteq LinkCall
    BY LinksOfType DEF IngestTypeOK
  <2>. QED BY <1>4, <2>1 DEF StartLinks, IngestTypeOK, TypeOK
<1>5. ASSUME NEW f \in firing, NEW k \in Trigger, FireTrigger(f, k)
      PROVE  IngestTypeOK'
  <2>1. f \in Firing /\ f.object \in Object /\ [f EXCEPT !.todo = @ \ {k}] \in Firing
    BY DEF IngestTypeOK, Firing
  <2>2. [jobs EXCEPT ![f.object][k] = @ + 1] \in [Object -> [Trigger -> Nat]]
    <3>1. /\ jobs[f.object] \in [Trigger -> Nat] /\ jobs[f.object][k] + 1 \in Nat
      BY <2>1 DEF IngestTypeOK
    <3>2. [jobs[f.object] EXCEPT ![k] = @ + 1] \in [Trigger -> Nat]
      BY <3>1
    <3>. QED BY <2>1, <3>2 DEF IngestTypeOK
  <2>. QED BY <1>5, <2>1, <2>2 DEF FireTrigger, IngestTypeOK, TypeOK, vars
<1>6. CASE IngestFails
  BY <1>6 DEF IngestFails, IngestTypeOK, TypeOK, vars
<1>. QED BY <1>1, <1>2, <1>3, <1>4, <1>5, <1>6 DEF IngestStep

\* The mover works on an object it listed and on the bytes it read.
MoverAtWork == move.stage # "list" => move.object \in Object /\ move.bytes \in Body
Typed == IngestTypeOK /\ MoverAtWork

LEMMA MoverStepType ==
  ASSUME Typed, MoverStep
  PROVE  Typed'
<1>0. /\ TypeOK' /\ UNCHANGED <<ingesting, firing, jobs, accepted>>
      /\ AtRest \in Moving /\ AtRest.stage = "list"
  BY MoverKeepsQueue DEF Typed, IngestTypeOK, TypeOK, vars, AtRest, Moving
<1>1. ASSUME NEW o \in Object, MoveGet(o) PROVE Typed'
  <2>1. blob["local"][KeyOf(o)] \in Body \cup {None}
    BY KeyType DEF Typed, IngestTypeOK, Backend
  <2>. QED BY <1>0, <1>1, <2>1 DEF MoveGet, Typed, IngestTypeOK, Moving, MoverAtWork
<1>2. ASSUME MovePut PROVE Typed'
  <2>1. move.object \in Object /\ move.bytes \in Body /\ KeyOf(move.object) \in Key
    BY <1>2, KeyType DEF MovePut, Typed, MoverAtWork
  <2>2. blob' \in [Backend -> [Key -> Body \cup {None}]]
    BY <1>2, <2>1, PutBlobType DEF MovePut, Typed, IngestTypeOK, Backend
  <2>. QED BY <1>0, <1>2, <2>1, <2>2
           DEF MovePut, MoveTo, Typed, IngestTypeOK, Moving, MoverAtWork
<1>3. ASSUME MoveUpdate PROVE Typed'
  <2>1. move.object \in Object
    BY <1>3 DEF MoveUpdate, Copied, Typed, MoverAtWork
  <2>2. lake' \in [Object -> Backend \cup {None}]
    BY <1>3 DEF MoveUpdate, Typed, IngestTypeOK, Backend
  <2>3. move' \in Moving /\ MoverAtWork'
    BY <1>0, <1>3, <2>1
       DEF MoveUpdate, MoveTo, Copied, Typed, IngestTypeOK, Moving, MoverAtWork
  <2>. QED BY <1>0, <1>3, <2>2, <2>3 DEF MoveUpdate, Typed, IngestTypeOK
<1>4. ASSUME MoveDelete PROVE Typed'
  <2>1. KeyOf(move.object) \in Key
    BY <1>4, KeyType DEF MoveDelete, Switched, Typed, MoverAtWork
  <2>2. blob' \in [Backend -> [Key -> Body \cup {None}]]
    BY <1>4, <2>1, PutBlobType DEF MoveDelete, Typed, IngestTypeOK, Backend
  <2>. QED BY <1>0, <1>4, <2>2 DEF MoveDelete, Typed, IngestTypeOK, MoverAtWork
<1>5. ASSUME MoveFails PROVE Typed'
  BY <1>0, <1>5 DEF MoveFails, Typed, IngestTypeOK, MoverAtWork
<1>. QED BY <1>1, <1>2, <1>3, <1>4, <1>5 DEF MoverStep

LEMMA TypedStep ==
  ASSUME Typed, [IngestNext]_allVars
  PROVE  Typed'
<1>1. CASE QueueStep
  <2>1. TypeOK'
    BY <1>1, QueueIsNext, TypeStep DEF Typed, IngestTypeOK
  <2>. QED BY <1>1, <2>1, QueueKeepsPipeline DEF Typed, IngestTypeOK, MoverAtWork, ingestVars
<1>2. CASE IngestStep
  <2>1. UNCHANGED move
    BY <1>2 DEF IngestStep, PutBlob, InsertLake, CompleteResult, StartLinks, FireTrigger,
         IngestFails
  <2>. QED BY <1>2, <2>1, IngestStepType DEF Typed, MoverAtWork
<1>3. CASE MoverStep
  BY <1>3, MoverStepType
<1>4. CASE UNCHANGED allVars
  BY <1>4 DEF allVars, ingestVars, vars, Typed, IngestTypeOK, TypeOK, MoverAtWork
<1>. QED BY <1>1, <1>2, <1>3, <1>4 DEF IngestNext

\* Every variable of the pipeline keeps its type, whatever fails between two of
\* its steps, and the mover only ever works on an object and bytes it has read.
THEOREM IngestTyping == IngestSpec => [](IngestTypeOK /\ MoverAtWork)
<1>1. IngestInit => Typed
  <2>. SUFFICES ASSUME IngestInit PROVE Typed
    OBVIOUS
  <2>1. TypeOK
    <3>1. NoRow \in Row /\ NoDomain \in DomainRow
      BY DEF NoRow, Row, Status, NoDomain, DomainRow
    <3>. QED BY <3>1, TimeAssumption DEF IngestInit, Init, TypeOK
  <2>2. AtRest \in Moving /\ AtRest.stage = "list"
    BY DEF AtRest, Moving
  <2>. QED BY <2>1, <2>2 DEF IngestInit, Typed, IngestTypeOK, MoverAtWork
<1>. QED BY <1>1, TypedStep, PTL DEF IngestSpec, Typed

-----------------------------------------------------------------------------
\* What is done is stored.

\* Only a result makes a row done.
LEMMA QueueSettlesNothing ==
  ASSUME TypeOK, QueueStep, NEW u \in URL, row'[u].status = "done"
  PROVE  row[u].status = "done"
<1>0. row[u] \in Row
  BY DEF TypeOK
<1>1. ASSUME UNCHANGED row PROVE row[u].status = "done"
  BY <1>1
<1>2. CASE BeginCall
  BY <1>1, <1>2 DEF BeginCall, ReserveBegin, AnswerBegin
<1>3. CASE Reserve
  <2>1. ASSUME NEW c \in reserving, NEW P, LeaseRows(c, P)
        PROVE  row[u].status = "done"
    <3>1. row'[u] = Leased(row[u], u, c) \/ row'[u] = row[u]
      BY <2>1 DEF LeaseRows
    <3>. QED BY <1>0, <3>1, LeasedShape
  <2>. QED BY <1>1, <1>3, <2>1 DEF Reserve, ReserveCommit, ReservePick, ReserveLease
<1>4. CASE PlainAnswer
  <2>1. ASSUME NEW c \in answering, Heartbeat(c) PROVE row[u].status = "done"
    BY <1>0, <2>1 DEF Heartbeat, UpdateRows, Row
  <2>2. ASSUME NEW v \in {"queued", "dead"}, NEW at,
               row'[u] = row[u] \/ row'[u] = Failed(row[u], v, at)
        PROVE  row[u].status = "done"
    BY <1>0, <2>2, FailedShape
  <2>3. ASSUME NEW c \in answering, FailWrite(c) PROVE row[u].status = "done"
    <3>1. c.verdict \in {"queued", "dead"}
      BY <2>3 DEF FailWrite, TypeOK, AnswerCall
    <3>. QED BY <2>2, <2>3, <3>1 DEF FailWrite, UpdateRows
  <2>4. ASSUME NEW c \in answering, NEW retryable \in BOOLEAN, Fail(c, retryable)
        PROVE  row[u].status = "done"
    <3>1. Verdict(row[u], retryable) \in {"queued", "dead"}
      BY DEF Verdict
    <3>. QED BY <2>2, <2>4, <3>1 DEF Fail, UpdateRows
  <2>5. ASSUME NEW c \in answering, NEW retryable \in BOOLEAN, FailRead(c, retryable)
        PROVE  row[u].status = "done"
    BY <1>1, <2>5 DEF FailRead
  <2>. QED BY <1>4, <2>1, <2>3, <2>4, <2>5 DEF PlainAnswer
<1>5. CASE PlainFailure
  BY <1>1, <1>5 DEF PlainFailure, CallFails
<1>6. ASSUME NEW p, row'[u] = row[u] \/ row'[u] = NewRow(row[u], p)
      PROVE  row[u].status = "done"
  <2>1. NewRow(row[u], p).status = "queued" \/ NewRow(row[u], p) = row[u]
    BY DEF NewRow, NoRow
  <2>. QED BY <1>6, <2>1
<1>7. CASE Link
  BY <1>1, <1>6, <1>7 DEF Link, EnqueueMany, ScopeLink, UpdateRows
<1>8. CASE SweepExpired
  BY <1>0, <1>8, UnleasedShape DEF SweepExpired, UpdateRows, Status
<1>9. CASE Requeue
  BY <1>0, <1>9 DEF Requeue, RequeueByFilter, UpdateRows, Unleased, Row
<1>10. CASE Operate
  BY <1>1, <1>10 DEF Operate, SeedDomain, SetActive, UpdateCrawlDelay,
       UpdateParallelFetches, UpdateRequiredCapability, SetDomain
<1>11. CASE Tick
  BY <1>1, <1>11 DEF Tick
<1>12. ASSUME NEW v \in URL, NEW p \in Priorities, Enqueue(v, p)
       PROVE  row[u].status = "done"
  BY <1>6, <1>12 DEF Enqueue, UpdateRows
<1>. QED
  BY <1>2, <1>3, <1>4, <1>5, <1>7, <1>8, <1>9, <1>10, <1>11, <1>12 DEF QueueStep

\* A result past its insert finds its lake row, which nothing removes.
IndexedIsStored == \A g \in ingesting : g.indexed => lake[ObjectOf(g)] # None

LEMMA LakeOnlyGrows ==
  ASSUME Typed, [IngestNext]_allVars, NEW o \in Object, lake[o] # None
  PROVE  lake'[o] # None
<1>1. CASE QueueStep \/ UNCHANGED allVars
  BY <1>1, QueueKeepsPipeline DEF allVars, ingestVars
<1>2. CASE IngestStep
  <2>1. ASSUME NEW g \in ingesting, InsertLake(g) PROVE lake'[o] # None
    BY <2>1 DEF InsertLake, Typed, IngestTypeOK
  <2>. QED BY <1>2, <2>1 DEF IngestStep, PutBlob, CompleteResult, StartLinks, FireTrigger,
           IngestFails
<1>3. CASE MoverStep
  <2>1. ASSUME MoveUpdate PROVE lake'[o] # None
    BY <2>1, BodyAssumption DEF MoveUpdate, Typed, IngestTypeOK, Backend
  <2>. QED BY <1>3, <2>1 DEF MoverStep, MoveGet, MovePut, MoveDelete, MoveFails
<1>. QED BY <1>1, <1>2, <1>3 DEF IngestNext

LEMMA StoredStep ==
  ASSUME Typed, DoneIsStored, IndexedIsStored, [IngestNext]_allVars
  PROVE  DoneIsStored' /\ IndexedIsStored'
<1>0. /\ \A g \in ingesting : g \in Ingest /\ ObjectOf(g) \in Object
      /\ \A o \in Object : lake[o] # None => lake'[o] # None
  BY ObjectType, LakeOnlyGrows DEF Typed, IngestTypeOK
<1>1. ASSUME \A u \in URL : row'[u].status = "done" => row[u].status = "done"
      PROVE  DoneIsStored'
  BY <1>0, <1>1 DEF DoneIsStored
<1>2. ASSUME ingesting' \subseteq ingesting PROVE IndexedIsStored'
  BY <1>0, <1>2 DEF IndexedIsStored
<1>3. CASE QueueStep
  <2>1. \A u \in URL : row'[u].status = "done" => row[u].status = "done"
    BY <1>3, QueueSettlesNothing DEF Typed, IngestTypeOK
  <2>2. ingesting' \subseteq ingesting
    BY <1>3, QueueKeepsPipeline DEF ingestVars
  <2>. QED BY <1>1, <1>2, <2>1, <2>2
<1>4. CASE MoverStep \/ UNCHANGED allVars
  <2>1. UNCHANGED <<row, ingesting>>
    BY <1>4, MoverKeepsQueue DEF allVars, ingestVars, vars
  <2>. QED BY <1>1, <1>2, <2>1
<1>5. ASSUME NEW c \in answering, NEW b \in Body, PutBlob(c, b)
      PROVE  DoneIsStored' /\ IndexedIsStored'
  <2>. DEFINE g == [call |-> c, body |-> b, indexed |-> FALSE]
  <2>1. ingesting' = ingesting \cup {g} /\ ~ g.indexed /\ UNCHANGED row
    BY <1>5 DEF PutBlob, vars
  <2>. HIDE DEF g
  <2>2. IndexedIsStored'
    BY <1>0, <2>1 DEF IndexedIsStored
  <2>. QED BY <1>1, <2>1, <2>2
<1>6. ASSUME NEW g \in ingesting, InsertLake(g)
      PROVE  DoneIsStored' /\ IndexedIsStored'
  <2>. DEFINE h == [g EXCEPT !.indexed = TRUE]
  <2>1. ingesting' = (ingesting \ {g}) \cup {h} /\ UNCHANGED row
    BY <1>6 DEF InsertLake, vars
  <2>2. ObjectOf(h) = ObjectOf(g)
    BY <1>0 DEF ObjectOf, Ingest
  <2>3. lake'[ObjectOf(g)] # None
    BY <1>0, <1>6, BodyAssumption DEF InsertLake, Typed, IngestTypeOK, Backend
  <2>. HIDE DEF h
  <2>4. IndexedIsStored'
    BY <1>0, <2>1, <2>2, <2>3 DEF IndexedIsStored
  <2>. QED BY <1>1, <2>1, <2>4
<1>7. ASSUME NEW g \in ingesting, CompleteResult(g)
      PROVE  DoneIsStored' /\ IndexedIsStored'
  <2>1. IndexedIsStored'
    BY <1>2, <1>7 DEF CompleteResult
  <2>2. lake'[ObjectOf(g)] # None
    BY <1>0, <1>7 DEF CompleteResult, Ready, IndexedIsStored
  <2>3. ObjectOf(g).url = g.call.token.url
    BY DEF ObjectOf
  <2>4. \A u \in URL : u # g.call.token.url => row'[u] = row[u]
    BY <1>7 DEF CompleteResult, CompleteRow, UpdateRows
  <2>5. DoneIsStored'
    BY <1>0, <2>2, <2>3, <2>4 DEF DoneIsStored
  <2>. QED BY <2>1, <2>5
<1>8. ASSUME NEW f \in firing, StartLinks(f) \/ \E k \in Trigger : FireTrigger(f, k)
      PROVE  DoneIsStored' /\ IndexedIsStored'
  <2>1. UNCHANGED <<row, ingesting>>
    BY <1>8 DEF StartLinks, FireTrigger, vars
  <2>. QED BY <1>1, <1>2, <2>1
<1>9. CASE IngestFails
  <2>1. UNCHANGED row /\ ingesting' \subseteq ingesting
    BY <1>9 DEF IngestFails, vars
  <2>. QED BY <1>1, <1>2, <2>1
<1>. QED BY <1>3, <1>4, <1>5, <1>6, <1>7, <1>8, <1>9 DEF IngestNext, IngestStep

\* service.go 128-147: whatever crashes, lost leases and repeated results come
\* between its steps, AcceptResult leaves no row done whose page is not in the
\* lake.
THEOREM DoneRowsAreStored == IngestSpec => []DoneIsStored
<1>1. IngestInit => DoneIsStored /\ IndexedIsStored
  BY DEF IngestInit, Init, NoRow, DoneIsStored, IndexedIsStored
<1>2. Typed /\ DoneIsStored /\ IndexedIsStored /\ [IngestNext]_allVars
        => DoneIsStored' /\ IndexedIsStored'
  BY StoredStep
<1>. QED BY <1>1, <1>2, IngestTyping, PTL DEF IngestSpec, Typed

-----------------------------------------------------------------------------
\* A row finds its bytes unless a twin of it, a content with the same key, has come
\* in between.  What a call or the mover has put is accounted for in the same way
\* until the row that names it is written.
PutsAreAccounted ==
  \A g \in ingesting : lake[ObjectOf(g)] = "s3" \/ TellsOrShares(ObjectOf(g), "local")
CopiedRight == move.stage = "update" => blob["s3"][KeyOf(move.object)] = move.object.body
SwitchedRight == move.stage = "delete" => DeleteSrc /\ lake[move.object] = "s3"
Accounted == BytesAreLostToTwinsOnly /\ PutsAreAccounted /\ CopiedRight /\ SwitchedRight

\* A row on S3 stays there.
LEMMA SwitchedStays ==
  ASSUME Typed, [IngestNext]_allVars, NEW o \in Object, lake[o] = "s3"
  PROVE  lake'[o] = "s3"
<1>0. "s3" # None /\ lake \in [Object -> Backend \cup {None}]
  BY BodyAssumption DEF Backend, Typed, IngestTypeOK
<1>1. CASE QueueStep \/ UNCHANGED allVars
  BY <1>1, QueueKeepsPipeline DEF allVars, ingestVars
<1>2. CASE IngestStep
  <2>1. ASSUME NEW g \in ingesting, InsertLake(g) PROVE lake'[o] = "s3"
    BY <1>0, <2>1 DEF InsertLake
  <2>. QED BY <1>2, <2>1 DEF IngestStep, PutBlob, CompleteResult, StartLinks, FireTrigger,
           IngestFails
<1>3. CASE MoverStep
  <2>1. ASSUME MoveUpdate PROVE lake'[o] = "s3"
    BY <1>0, <2>1 DEF MoveUpdate
  <2>. QED BY <1>3, <2>1 DEF MoverStep, MoveGet, MovePut, MoveDelete, MoveFails
<1>. QED BY <1>1, <1>2, <1>3 DEF IngestNext

\* Bytes of some object put at its key are accounted for to all that share the key.
LEMMA PutIsAccounted ==
  ASSUME Typed, NEW x \in Object, NEW e \in Backend,
         blob' = [blob EXCEPT ![e][KeyOf(x)] = x.body],
         \A p \in Object : lake[p] = "s3" => lake'[p] = "s3",
         NEW o \in Object, NEW b \in Backend,
         TellsOrShares(o, b) \/ (KeyOf(o) = KeyOf(x) /\ b = e)
  PROVE  TellsOrShares(o, b)'
<1>0. KeyOf(o) \in Key /\ KeyOf(x) \in Key /\ blob \in [Backend -> [Key -> Body \cup {None}]]
  BY KeyType DEF Typed, IngestTypeOK
<1>1. CASE KeyOf(o) = KeyOf(x) /\ b = e
  <2>1. blob'[b][KeyOf(o)] = x.body
    BY <1>0, <1>1
  <2>2. o = x \/ x \in Twins(o)
    BY <1>1 DEF Twins
  <2>. QED BY <2>1, <2>2 DEF TellsOrShares, Twins
<1>2. CASE ~ (KeyOf(o) = KeyOf(x) /\ b = e)
  <2>1. blob'[b][KeyOf(o)] = blob[b][KeyOf(o)]
    BY <1>0, <1>2
  <2>. QED BY <1>2, <2>1 DEF TellsOrShares, Twins
<1>. QED BY <1>1, <1>2

\* Where no bytes change, what was accounted for stays so.
LEMMA NothingPut ==
  ASSUME UNCHANGED blob, \A p \in Object : lake[p] = "s3" => lake'[p] = "s3",
         NEW o \in Object, NEW b \in Backend, TellsOrShares(o, b)
  PROVE  TellsOrShares(o, b)'
BY DEF TellsOrShares, Twins

LEMMA AccountedStep ==
  ASSUME Typed, Accounted, [IngestNext]_allVars
  PROVE  Accounted'
<1>0. /\ \A g \in ingesting : g \in Ingest /\ ObjectOf(g) \in Object
      /\ lake \in [Object -> Backend \cup {None}]
      /\ \A p \in Object : lake[p] = "s3" => lake'[p] = "s3"
      /\ None \notin Backend /\ {"local", "s3"} = Backend
  BY ObjectType, SwitchedStays, BodyAssumption DEF Typed, IngestTypeOK, Backend
<1>1. ASSUME UNCHANGED <<blob, lake, move>>, ingesting' \subseteq ingesting
      PROVE  Accounted'
  BY <1>1 DEF Accounted, BytesAreLostToTwinsOnly, PutsAreAccounted, TellsOrShares, Twins,
     CopiedRight, SwitchedRight
<1>2. CASE QueueStep \/ UNCHANGED allVars
  BY <1>1, <1>2, QueueKeepsPipeline DEF allVars, ingestVars
<1>3. ASSUME NEW c \in answering, NEW b \in Body, PutBlob(c, b)
      PROVE  Accounted'
  <2>. DEFINE g == [call |-> c, body |-> b, indexed |-> FALSE]
              x == ObjectOf(g)
  <2>1. /\ ingesting' = ingesting \cup {g} /\ UNCHANGED <<lake, move>>
        /\ x \in Object /\ x.body = b
        /\ blob' = [blob EXCEPT !["local"][KeyOf(x)] = x.body]
    BY <1>3, ObjectType DEF PutBlob, Typed, IngestTypeOK, TypeOK, Ingest, ObjectOf
  <2>. HIDE DEF g
  <2>2. /\ \A o \in Object, e \in Backend : TellsOrShares(o, e) => TellsOrShares(o, e)'
        /\ TellsOrShares(x, "local")'
    BY <1>0, <2>1, PutIsAccounted
  <2>3. BytesAreLostToTwinsOnly'
    BY <1>0, <2>1, <2>2 DEF Accounted, BytesAreLostToTwinsOnly
  <2>4. PutsAreAccounted'
    BY <1>0, <2>1, <2>2 DEF Accounted, PutsAreAccounted
  <2>5. \A k \in Key : blob'["s3"][k] = blob["s3"][k]
    BY <2>1, KeyType DEF Typed, IngestTypeOK, Backend
  <2>6. CopiedRight' /\ SwitchedRight'
    BY <2>1, <2>5, KeyType DEF Accounted, CopiedRight, SwitchedRight, Typed, MoverAtWork
  <2>. QED BY <2>3, <2>4, <2>6 DEF Accounted
<1>4. ASSUME NEW g \in ingesting, InsertLake(g)
      PROVE  Accounted'
  <2>. DEFINE h == [g EXCEPT !.indexed = TRUE]
  <2>1. /\ ingesting' = (ingesting \ {g}) \cup {h} /\ UNCHANGED <<blob, move>>
        /\ lake' = [lake EXCEPT ![ObjectOf(g)] = IF @ = None THEN "local" ELSE @]
    BY <1>4 DEF InsertLake
  <2>2. ObjectOf(h) = ObjectOf(g)
    BY <1>0 DEF ObjectOf, Ingest
  <2>. HIDE DEF h
  <2>3. \A o \in Object, e \in Backend : TellsOrShares(o, e) => TellsOrShares(o, e)'
    BY <1>0, <2>1, NothingPut
  <2>4. BytesAreLostToTwinsOnly'
    <3>0. \A o \in Object : lake'[o] \in Backend \cup {None}
      BY <1>0, <2>1
    <3>. SUFFICES ASSUME NEW o \in Object, NEW b \in Backend, lake'[o] = b
                  PROVE  TellsOrShares(o, b)'
      BY <3>0 DEF BytesAreLostToTwinsOnly
    <3>1. CASE lake[o] = b
      BY <1>0, <2>3, <3>1 DEF Accounted, BytesAreLostToTwinsOnly
    <3>2. CASE lake[o] # b
      <4>1. o = ObjectOf(g) /\ lake[o] = None /\ b = "local"
        BY <1>0, <2>1, <3>2
      <4>2. TellsOrShares(o, "local")
        BY <1>0, <4>1 DEF Accounted, PutsAreAccounted
      <4>. QED BY <1>0, <2>3, <4>1, <4>2
    <3>. QED BY <3>1, <3>2
  <2>5. PutsAreAccounted'
    BY <1>0, <2>1, <2>2, <2>3 DEF Accounted, PutsAreAccounted
  <2>6. CopiedRight' /\ SwitchedRight'
    BY <1>0, <2>1 DEF Accounted, CopiedRight, SwitchedRight, Typed, MoverAtWork
  <2>. QED BY <2>4, <2>5, <2>6 DEF Accounted
<1>5. ASSUME NEW g \in ingesting, CompleteResult(g)
      PROVE  Accounted'
  BY <1>1, <1>5 DEF CompleteResult
<1>6. ASSUME NEW f \in firing, StartLinks(f) \/ \E k \in Trigger : FireTrigger(f, k)
      PROVE  Accounted'
  BY <1>1, <1>6 DEF StartLinks, FireTrigger
<1>7. CASE IngestFails
  <2>1. UNCHANGED <<blob, lake, move>> /\ ingesting' \subseteq ingesting
    BY <1>7 DEF IngestFails
  <2>. QED BY <1>1, <2>1
<1>8. CASE MoverStep
  <2>0. ingesting' = ingesting
    BY <1>8, MoverKeepsQueue
  <2>1. ASSUME UNCHANGED <<blob, lake>>, move'.stage \notin {"update", "delete"}
        PROVE  Accounted'
    BY <2>0, <2>1 DEF Accounted, BytesAreLostToTwinsOnly, PutsAreAccounted, TellsOrShares,
       Twins, CopiedRight, SwitchedRight
  <2>2. ASSUME NEW o \in Object, MoveGet(o) PROVE Accounted'
    BY <2>1, <2>2 DEF MoveGet
  <2>3. ASSUME MovePut PROVE Accounted'
    <3>. DEFINE x == move.object
    <3>1. x \in Object /\ move \in Moving /\ KeyOf(x) \in Key
      BY <2>3, KeyType DEF MovePut, Typed, MoverAtWork, IngestTypeOK
    <3>2. /\ blob' = [blob EXCEPT !["s3"][KeyOf(x)] = x.body]
          /\ move'.object = x /\ move'.stage = "update" /\ lake' = lake
      BY <2>3, <3>1 DEF MovePut, MoveTo, Moving
    <3>. HIDE DEF x
    <3>3. \A o \in Object, e \in Backend : TellsOrShares(o, e) => TellsOrShares(o, e)'
      BY <1>0, <3>1, <3>2, PutIsAccounted
    <3>4. BytesAreLostToTwinsOnly'
      BY <1>0, <3>2, <3>3 DEF Accounted, BytesAreLostToTwinsOnly
    <3>5. PutsAreAccounted'
      BY <1>0, <2>0, <3>2, <3>3 DEF Accounted, PutsAreAccounted
    <3>6. blob'["s3"][KeyOf(x)] = x.body
      BY <3>1, <3>2 DEF Typed, IngestTypeOK, Backend
    <3>. QED BY <3>2, <3>4, <3>5, <3>6 DEF Accounted, CopiedRight, SwitchedRight
  <2>4. ASSUME MoveUpdate PROVE Accounted'
    <3>. DEFINE x == move.object
    <3>1. /\ x \in Object /\ move \in Moving
          /\ blob["s3"][KeyOf(x)] = x.body
          /\ lake' = [lake EXCEPT ![x] = "s3"] /\ blob' = blob
      BY <2>4 DEF MoveUpdate, Copied, Typed, MoverAtWork, IngestTypeOK, Accounted,
         CopiedRight
    <3>2. \/ move'.stage = "list"
          \/ move'.stage = "delete" /\ move'.object = x /\ DeleteSrc
      BY <2>4, <3>1 DEF MoveUpdate, MoveTo, AtRest, Moving
    <3>. HIDE DEF x
    <3>3. \A o \in Object, e \in Backend : TellsOrShares(o, e) => TellsOrShares(o, e)'
      BY <1>0, <3>1, NothingPut
    <3>4. TellsOrShares(x, "s3")
      BY <3>1 DEF TellsOrShares
    <3>5. BytesAreLostToTwinsOnly'
      BY <1>0, <3>1, <3>3, <3>4 DEF Accounted, BytesAreLostToTwinsOnly
    <3>6. PutsAreAccounted'
      BY <1>0, <2>0, <3>1, <3>3 DEF Accounted, PutsAreAccounted
    <3>7. CopiedRight' /\ SwitchedRight'
      BY <1>0, <3>1, <3>2 DEF CopiedRight, SwitchedRight
    <3>. QED BY <3>5, <3>6, <3>7 DEF Accounted
  <2>5. ASSUME MoveDelete PROVE Accounted'
    <3>. DEFINE x == move.object
    <3>1. /\ x \in Object /\ KeyOf(x) \in Key /\ lake[x] = "s3" /\ DeleteSrc
          /\ blob' = [blob EXCEPT !["local"][KeyOf(x)] = None]
          /\ move' = AtRest /\ lake' = lake
      BY <2>5, KeyType DEF MoveDelete, Switched, Typed, MoverAtWork, Accounted,
         SwitchedRight
    <3>. HIDE DEF x
    <3>2. ASSUME NEW o \in Object, NEW e \in Backend, TellsOrShares(o, e),
                 ~ (o = x /\ e = "local")
          PROVE  TellsOrShares(o, e)'
      <4>0. KeyOf(o) \in Key /\ blob \in [Backend -> [Key -> Body \cup {None}]]
        BY KeyType DEF Typed, IngestTypeOK
      <4>1. CASE KeyOf(o) = KeyOf(x) /\ e = "local"
        <5>1. blob'[e][KeyOf(o)] = None /\ x \in Twins(o)
          BY <3>1, <3>2, <4>0, <4>1 DEF Twins
        <5>. QED BY <3>1, <5>1 DEF TellsOrShares, Twins
      <4>2. CASE ~ (KeyOf(o) = KeyOf(x) /\ e = "local")
        <5>1. blob'[e][KeyOf(o)] = blob[e][KeyOf(o)]
          BY <3>1, <4>0, <4>2
        <5>. QED BY <3>1, <3>2, <5>1 DEF TellsOrShares, Twins
      <4>. QED BY <4>1, <4>2
    <3>3. BytesAreLostToTwinsOnly'
      BY <1>0, <3>1, <3>2 DEF Accounted, BytesAreLostToTwinsOnly
    <3>4. PutsAreAccounted'
      BY <1>0, <2>0, <3>1, <3>2 DEF Accounted, PutsAreAccounted
    <3>. QED BY <3>1, <3>3, <3>4 DEF Accounted, CopiedRight, SwitchedRight, AtRest
  <2>6. ASSUME MoveFails PROVE Accounted'
    BY <2>1, <2>6 DEF MoveFails, AtRest
  <2>. QED BY <1>8, <2>2, <2>3, <2>4, <2>5, <2>6 DEF MoverStep
<1>. QED BY <1>2, <1>3, <1>4, <1>5, <1>6, <1>7, <1>8 DEF IngestNext, IngestStep

\* For any contents, types and extensions, and whether or not the mover deletes: a
\* lake row finds its own bytes unless another content of its page shares its key,
\* and then it finds that one's, or nothing once the mover deleted them.
THEOREM RowsTellTheirBytes == IngestSpec => []BytesAreLostToTwinsOnly
<1>1. IngestInit => Accounted
  BY DEF IngestInit, AtRest, Accounted, BytesAreLostToTwinsOnly, PutsAreAccounted,
     CopiedRight, SwitchedRight
<1>2. Typed /\ Accounted /\ [IngestNext]_allVars => Accounted'
  BY AccountedStep
<1>3. Accounted => BytesAreLostToTwinsOnly
  BY DEF Accounted
<1>. QED BY <1>1, <1>2, <1>3, IngestTyping, PTL DEF IngestSpec, Typed

\* The mover switches a row only after its copy, and AcceptResult inserts one
\* only after its put: at no moment does a lake row name a store without bytes
\* at its key, as long as the mover does not delete what it has moved.
THEOREM RowsHaveBytes ==
  ASSUME ~ DeleteSrc PROVE IngestSpec => []BlobBehindEveryRow
<1>1. ASSUME BytesAreLostToTwinsOnly PROVE BlobBehindEveryRow
  <2>. SUFFICES ASSUME NEW o \in Object, lake[o] # None
                PROVE  blob[lake[o]][KeyOf(o)] # None
    BY DEF BlobBehindEveryRow
  <2>1. PICK p \in Object : blob[lake[o]][KeyOf(o)] = p.body
    BY <1>1 DEF BytesAreLostToTwinsOnly, TellsOrShares, Twins
  <2>. QED BY <2>1, BodyAssumption DEF Object
<1>. QED BY <1>1, RowsTellTheirBytes, PTL

-----------------------------------------------------------------------------
\* A job is fired once per accepted result: what is still to be fired counts
\* as fired.
Pending(o, k) == {f \in firing : f.object = o /\ k \in f.todo}
FiredOrPending ==
  /\ IsFiniteSet(firing)
  /\ \A o \in Object, k \in Trigger : jobs[o][k] + Cardinality(Pending(o, k)) <= accepted[o]

LEMMA PendingFinite ==
  ASSUME IsFiniteSet(firing), NEW o, NEW k
  PROVE  IsFiniteSet(Pending(o, k)) /\ Cardinality(Pending(o, k)) \in Nat
BY FS_Subset, FS_CardinalityType DEF Pending

LEMMA PendingShrinks ==
  ASSUME IsFiniteSet(firing), NEW o, NEW k, Pending(o, k)' \subseteq Pending(o, k)
  PROVE  Cardinality(Pending(o, k)') \in Nat
         /\ Cardinality(Pending(o, k)') <= Cardinality(Pending(o, k))
BY PendingFinite, FS_Subset, FS_CardinalityType

LEMMA AddedIsOneMore ==
  ASSUME NEW S, IsFiniteSet(S), NEW x
  PROVE  /\ IsFiniteSet(S \cup {x}) /\ Cardinality(S) \in Nat
         /\ Cardinality(S \cup {x}) \in Nat /\ Cardinality(S \cup {x}) <= Cardinality(S) + 1
<1>1. IsFiniteSet(S \cup {x}) /\ Cardinality(S) \in Nat
  BY FS_AddElement, FS_CardinalityType
<1>2. Cardinality(S \cup {x}) = IF x \in S THEN Cardinality(S) ELSE Cardinality(S) + 1
  BY FS_AddElement
<1>. QED BY <1>1, <1>2

\* A record replaced by another costs nothing.
LEMMA ReplacedIsNoMore ==
  ASSUME NEW S, IsFiniteSet(S), NEW x \in S, NEW y, NEW R, R \subseteq (S \ {x}) \cup {y}
  PROVE  IsFiniteSet(R) /\ Cardinality(R) \in Nat /\ Cardinality(R) <= Cardinality(S)
<1>. DEFINE Q == (S \ {x}) \cup {y}
<1>1. /\ IsFiniteSet(S \ {x}) /\ Cardinality(S \ {x}) = Cardinality(S) - 1
      /\ Cardinality(S) \in Nat /\ Cardinality(S \ {x}) \in Nat
  BY FS_RemoveElement, FS_CardinalityType
<1>2. IsFiniteSet(Q) /\ Cardinality(Q) \in {Cardinality(S), Cardinality(S) - 1}
  BY <1>1, FS_AddElement
<1>. HIDE DEF Q
<1>3. R \subseteq Q
  BY DEF Q
<1>. QED BY <1>1, <1>2, <1>3, FS_Subset, FS_CardinalityType

LEMMA FiredStep ==
  ASSUME Typed, FiredOrPending, [IngestNext]_allVars
  PROVE  FiredOrPending'
<1>0. \A o \in Object, k \in Trigger :
        /\ jobs[o][k] \in Nat /\ accepted[o] \in Nat /\ Cardinality(Pending(o, k)) \in Nat
        /\ jobs[o][k] + Cardinality(Pending(o, k)) <= accepted[o]
  BY PendingFinite DEF FiredOrPending, Typed, IngestTypeOK
<1>1. ASSUME UNCHANGED <<jobs, accepted>>, firing' \subseteq firing PROVE FiredOrPending'
  <2>1. IsFiniteSet(firing')
    BY <1>1, FS_Subset DEF FiredOrPending
  <2>2. \A o, k : Pending(o, k)' \subseteq Pending(o, k)
    BY <1>1 DEF Pending
  <2>3. \A o, k : /\ Cardinality(Pending(o, k)') \in Nat
                  /\ Cardinality(Pending(o, k)') <= Cardinality(Pending(o, k))
    BY <2>2, PendingShrinks DEF FiredOrPending
  <2>. QED BY <1>0, <1>1, <2>1, <2>3 DEF FiredOrPending
<1>2. CASE QueueStep \/ UNCHANGED allVars
  BY <1>1, <1>2, QueueKeepsPipeline DEF allVars, ingestVars
<1>3. CASE MoverStep
  BY <1>1, <1>3, MoverKeepsQueue
<1>4. ASSUME NEW c \in answering, NEW b \in Body, PutBlob(c, b) PROVE FiredOrPending'
  BY <1>1, <1>4 DEF PutBlob
<1>5. ASSUME NEW g \in ingesting, InsertLake(g) PROVE FiredOrPending'
  BY <1>1, <1>5 DEF InsertLake
<1>6. ASSUME NEW g \in ingesting, CompleteResult(g) PROVE FiredOrPending'
  <2>. DEFINE o == ObjectOf(g)
  <2>1. o \in Object
    BY ObjectType DEF Typed, IngestTypeOK
  <2>2. CASE Accepted(g)
    <3>1. PICK links \in LinkSets :
            firing' = firing \cup
              {[object |-> o, attempt |-> row[g.call.token.url].attempts,
                todo |-> Matching(o), links |-> links]}
      BY <1>6, <2>2 DEF CompleteResult
    <3>. DEFINE f == [object |-> o, attempt |-> row[g.call.token.url].attempts,
                      todo |-> Matching(o), links |-> links]
    <3>2. /\ firing' = firing \cup {f} /\ jobs' = jobs /\ f.object = o
          /\ accepted' = [accepted EXCEPT ![o] = @ + 1]
      BY <1>6, <2>2, <3>1 DEF CompleteResult, Accepted
    <3>. HIDE DEF f, o
    <3>3. IsFiniteSet(firing')
      BY <3>2, FS_AddElement DEF FiredOrPending
    <3>4. ASSUME NEW p \in Object, NEW k \in Trigger
          PROVE  jobs'[p][k] + Cardinality(Pending(p, k)') <= accepted'[p]
      <4>1. CASE p = o
        <5>1. Pending(p, k)' \subseteq Pending(p, k) \cup {f}
          BY <3>2 DEF Pending
        <5>2. /\ IsFiniteSet(Pending(p, k) \cup {f})
              /\ Cardinality(Pending(p, k) \cup {f}) <= Cardinality(Pending(p, k)) + 1
          <6>1. IsFiniteSet(Pending(p, k)) /\ Cardinality(Pending(p, k)) \in Nat
            BY PendingFinite DEF FiredOrPending
          <6>. QED BY <6>1, AddedIsOneMore
        <5>3. /\ Cardinality(Pending(p, k)') \in Nat
              /\ Cardinality(Pending(p, k) \cup {f}) \in Nat
              /\ Cardinality(Pending(p, k)') <= Cardinality(Pending(p, k) \cup {f})
          BY <5>1, <5>2, FS_Subset, FS_CardinalityType
        <5>4. accepted'[p] = accepted[p] + 1
          BY <2>1, <3>2, <4>1 DEF Typed, IngestTypeOK
        <5>. QED BY <1>0, <3>2, <5>2, <5>3, <5>4
      <4>2. CASE p # o
        <5>1. Pending(p, k)' = Pending(p, k) /\ accepted'[p] = accepted[p]
          BY <3>2, <4>2 DEF Pending, Typed, IngestTypeOK
        <5>. QED BY <1>0, <3>2, <5>1
      <4>. QED BY <4>1, <4>2
    <3>. QED BY <3>3, <3>4 DEF FiredOrPending
  <2>3. CASE ~ Accepted(g)
    <3>1. /\ firing' = firing /\ jobs' = jobs
          /\ accepted' = [accepted EXCEPT ![o] = @ + 0]
      BY <1>6, <2>3 DEF CompleteResult, Accepted
    <3>2. accepted' = accepted
      BY <2>1, <3>1 DEF Typed, IngestTypeOK
    <3>. QED BY <1>1, <3>1, <3>2
  <2>. QED BY <2>2, <2>3
<1>7. ASSUME NEW f \in firing, NEW k \in Trigger, FireTrigger(f, k) PROVE FiredOrPending'
  <2>. DEFINE h == [f EXCEPT !.todo = @ \ {k}]
  <2>1. f \in Firing /\ f.object \in Object
    BY DEF Typed, IngestTypeOK, Firing
  <2>2. /\ k \in f.todo /\ accepted' = accepted
        /\ firing' = (firing \ {f}) \cup {h}
        /\ h.object = f.object /\ h.todo = f.todo \ {k}
    BY <1>7, <2>1 DEF FireTrigger, Firing
  <2>3. IsFiniteSet(firing')
    BY <2>2, FS_RemoveElement, FS_AddElement DEF FiredOrPending
  <2>. HIDE DEF h
  <2>4. /\ jobs'[f.object][k] \in Nat /\ jobs'[f.object][k] <= jobs[f.object][k] + 1
        /\ \A o \in Object, l \in Trigger :
             o # f.object \/ l # k => jobs'[o][l] = jobs[o][l]
    BY <1>7, <2>1 DEF FireTrigger, Typed, IngestTypeOK
  <2>5. ASSUME NEW o \in Object, NEW l \in Trigger
        PROVE  jobs'[o][l] + Cardinality(Pending(o, l)') <= accepted'[o]
    <3>1. CASE o = f.object /\ l = k
      <4>1. Pending(o, l)' \subseteq Pending(o, l) \ {f} /\ f \in Pending(o, l)
        BY <2>2, <3>1 DEF Pending
      <4>2. /\ IsFiniteSet(Pending(o, l) \ {f})
            /\ Cardinality(Pending(o, l) \ {f}) = Cardinality(Pending(o, l)) - 1
        BY <4>1, PendingFinite, FS_RemoveElement DEF FiredOrPending
      <4>3. /\ Cardinality(Pending(o, l)') \in Nat
            /\ Cardinality(Pending(o, l)') <= Cardinality(Pending(o, l)) - 1
        BY <4>1, <4>2, FS_Subset, FS_CardinalityType
      <4>. QED BY <1>0, <2>2, <2>4, <3>1, <4>3
    <3>2. CASE o = f.object /\ l # k /\ l \in f.todo
      <4>1. f \in Pending(o, l) /\ Pending(o, l)' \subseteq (Pending(o, l) \ {f}) \cup {h}
        BY <2>2, <3>2 DEF Pending
      <4>2. /\ Cardinality(Pending(o, l)') \in Nat
            /\ Cardinality(Pending(o, l)') <= Cardinality(Pending(o, l))
        BY <4>1, PendingFinite, ReplacedIsNoMore DEF FiredOrPending
      <4>. QED BY <1>0, <2>2, <2>4, <3>2, <4>2
    <3>3. CASE o # f.object \/ l \notin f.todo
      <4>1. Pending(o, l)' = Pending(o, l) /\ jobs'[o][l] = jobs[o][l]
        BY <2>2, <2>4, <3>3 DEF Pending
      <4>. QED BY <1>0, <2>2, <4>1
    <3>. QED BY <3>1, <3>2, <3>3
  <2>. QED BY <2>3, <2>5 DEF FiredOrPending
<1>8. ASSUME NEW f \in firing, StartLinks(f) PROVE FiredOrPending'
  BY <1>1, <1>8 DEF StartLinks
<1>9. CASE IngestFails
  <2>1. UNCHANGED <<jobs, accepted>> /\ firing' \subseteq firing
    BY <1>9 DEF IngestFails
  <2>. QED BY <1>1, <2>1
<1>. QED BY <1>2, <1>3, <1>4, <1>5, <1>6, <1>7, <1>8, <1>9 DEF IngestNext, IngestStep

\* A result posted twice, or by a worker that lost its lease, or whose handler
\* dies half way: an object never has more jobs of a kind than results of it
\* were accepted.
THEOREM PagesAreFiredOnce == IngestSpec => []FiredOncePerAcceptance
<1>1. IngestInit => FiredOrPending
  <2>. SUFFICES ASSUME IngestInit PROVE FiredOrPending
    OBVIOUS
  <2>1. firing = {} /\ \A o, k : Pending(o, k) = {}
    BY DEF IngestInit, Pending
  <2>. QED BY <2>1, FS_EmptySet DEF IngestInit, FiredOrPending
<1>2. Typed /\ FiredOrPending /\ [IngestNext]_allVars => FiredOrPending'
  BY FiredStep
<1>3. Typed /\ FiredOrPending => FiredOncePerAcceptance
  BY PendingFinite DEF Typed, IngestTypeOK, FiredOrPending, FiredOncePerAcceptance
<1>. QED BY <1>1, <1>2, <1>3, IngestTyping, PTL DEF IngestSpec, Typed

-----------------------------------------------------------------------------
\* The pipeline implements the crawl queue.  The queries and updates of the
\* abstract queue are those of the detailed one.

LEMMA SameCardinality == \A S : Crawl!Cardinality(S) = Cardinality(S)
BY DEF Cardinality, Crawl!Cardinality

LEMMA SameBatch ==
  ASSUME NEW w, NEW n
  PROVE  Crawl!EffectiveBatch(w, n) = EffectiveBatch(w, n)
<1>1. Crawl!Held(w) = Held(w)
  BY DEF Held, Crawl!Held
<1>. QED BY <1>1, SameCardinality DEF EffectiveBatch, Crawl!EffectiveBatch

LEMMA SamePicks ==
  ASSUME NEW c
  PROVE  Crawl!Picks(c) = Picks(c)
<1>1. Crawl!Eligible(c) = Eligible(c)
  BY DEF Eligible, Polite, WholeSeconds, Serves,
     Crawl!Eligible, Crawl!Polite, Crawl!WholeSeconds, Crawl!Serves
<1>2. \A u, v : Crawl!Precedes(u, v) <=> Precedes(u, v)
  BY DEF Precedes, Crawl!Precedes
<1>3. Crawl!Ranked(c) = Ranked(c)
  <2>1. \A d : {u \in Crawl!Eligible(c) : HostOf[u] = d} = {u \in Eligible(c) : HostOf[u] = d}
    BY <1>1
  <2>. QED BY <1>1, <1>2, <2>1, SameCardinality DEF Ranked, Crawl!Ranked
<1>. QED BY <1>1, <1>3, SameCardinality DEF Picks, Crawl!Picks

LEMMA SameLease ==
  ASSUME NEW c, NEW P, LeaseRows(c, P)
  PROVE  Crawl!LeaseRows(c, P)
<1>1. \A u : Crawl!TokenOf(u, c) = TokenOf(u, c)
  BY DEF TokenOf, Crawl!TokenOf
<1>2. \A r, u : Crawl!Leased(r, u, c) = Leased(r, u, c)
  BY <1>1 DEF Leased, Crawl!Leased
<1>3. Crawl!Won(P) = Won(P)
  BY DEF Won, Crawl!Won
<1>. QED BY <1>1, <1>2, <1>3 DEF LeaseRows, Crawl!LeaseRows

LEMMA SameRows ==
  /\ \A r, s : Crawl!Unleased(r, s) = Unleased(r, s)
  /\ \A r, v, at : Crawl!Failed(r, v, at) = Failed(r, v, at)
  /\ \A r, p : Crawl!NewRow(r, p) = NewRow(r, p)
  /\ \A r, b : Crawl!Verdict(r, b) = Verdict(r, b)
  /\ \A t : Crawl!Holds(t) <=> Holds(t)
  /\ \A u : Crawl!Expired(u) <=> Expired(u)
  /\ \A d, delay : Crawl!UpsertByHost(d, delay) = UpsertByHost(d, delay)
<1>1. \A r, s : Crawl!Unleased(r, s) = Unleased(r, s)
  BY DEF Unleased, Crawl!Unleased
<1>2. \A r, v, at : Crawl!Failed(r, v, at) = Failed(r, v, at)
  BY <1>1 DEF Failed, Crawl!Failed
<1>3. \A r, p : Crawl!NewRow(r, p) = NewRow(r, p)
  BY DEF NewRow, NoRow, Crawl!NewRow, Crawl!NoRow
<1>4. \A r, b : Crawl!Verdict(r, b) = Verdict(r, b)
  BY DEF Verdict, Crawl!Verdict
<1>5. \A t : Crawl!Holds(t) <=> Holds(t)
  BY DEF Holds, Crawl!Holds
<1>6. \A u : Crawl!Expired(u) <=> Expired(u)
  BY DEF Expired, Crawl!Expired
<1>7. \A d, delay : Crawl!UpsertByHost(d, delay) = UpsertByHost(d, delay)
  BY DEF UpsertByHost, NoDomain, Crawl!UpsertByHost, Crawl!NoDomain
<1>. QED BY <1>1, <1>2, <1>3, <1>4, <1>5, <1>6, <1>7

-----------------------------------------------------------------------------
\* What the refinement needs of the calls in flight: a call carries one result,
\* and of the results of one lease one was accepted, whose links are either
\* still to be looked at behind the triggers or already being enqueued.
OneResultPerCall ==
  /\ \A g \in ingesting : g.call \in answering
  /\ \A g, h \in ingesting : g.call = h.call => g = h
CallsFinite ==
  /\ IsFiniteSet(reserving) /\ IsFiniteSet(answering)
  /\ IsFiniteSet(linking) /\ IsFiniteSet(firing)
UsedUp(u, attempt) ==
  /\ row[u].status # "absent" /\ attempt <= row[u].attempts
  /\ attempt = row[u].attempts => row[u].status # "leased"
SamePage(c, f) == c.page = f.object.url /\ c.attempt = f.attempt
AcceptedOnce ==
  /\ \A c \in linking : UsedUp(c.page, c.attempt)
  /\ \A f \in firing : UsedUp(f.object.url, f.attempt)
  /\ \A c \in linking, f \in firing : ~ SamePage(c, f)
  /\ \A f, h \in firing : f.object.url = h.object.url /\ f.attempt = h.attempt => f = h
InFlight == OneResultPerCall /\ CallsFinite /\ AcceptedOnce

\* A lease that is over never comes back.
LEMMA UsedUpStays ==
  ASSUME TypeOK, [Next]_vars, NEW u \in URL, NEW a \in Nat, UsedUp(u, a)
  PROVE  UsedUp(u, a)'
<1>1. RowStep(u) /\ row[u] \in Row /\ row[u].attempts \in Nat
  BY RowStepLemma DEF TypeOK, Row
<1>2. CASE row'[u] = row[u]
  BY <1>2 DEF UsedUp
<1>3. CASE RowGranted(u)
  <2>1. PICK c \in reserving : row'[u] = Leased(row[u], u, c)
    BY <1>3 DEF RowGranted
  <2>2. row'[u].status = "leased" /\ row'[u].attempts = row[u].attempts + 1
    BY <1>1, <2>1 DEF Leased, Row
  <2>. QED BY <1>1, <2>2 DEF UsedUp
<1>4. CASE RowExtended(u)
  <2>1. row'[u].status = row[u].status /\ row'[u].attempts = row[u].attempts
    BY <1>1, <1>4 DEF RowExtended, Row
  <2>. QED BY <2>1 DEF UsedUp
<1>5. CASE RowCompleted(u) \/ RowSwept(u)
  BY <1>1, <1>5, UnleasedShape DEF RowCompleted, RowSwept, UsedUp, Status
<1>6. CASE RowFailed(u) \/ RowFailedBlindly(u)
  <2>1. PICK v \in {"queued", "dead"}, at \in Nat \cup {now} : row'[u] = Failed(row[u], v, at)
    BY <1>6 DEF RowFailed, RowFailedBlindly
  <2>. QED BY <1>1, <2>1, FailedShape DEF UsedUp
<1>7. ~ RowAdded(u)
  BY DEF RowAdded, UsedUp
<1>8. CASE RowRequeued(u)
  BY <1>1, <1>8 DEF RowRequeued, Unleased, Row, UsedUp
<1>. QED BY <1>1, <1>2, <1>3, <1>4, <1>5, <1>6, <1>7, <1>8 DEF RowStep

LEMMA EditFinite ==
  ASSUME NEW S, IsFiniteSet(S), NEW y, NEW T, T \subseteq S \cup {y}
  PROVE  IsFiniteSet(T)
BY FS_AddElement, FS_Subset

\* What a step of the queue does to the calls in flight.
LEMMA QueueCalls ==
  ASSUME Typed, InFlight, QueueStep
  PROVE  /\ \A g \in ingesting : g.call \in answering'
         /\ IsFiniteSet(reserving') /\ IsFiniteSet(answering') /\ IsFiniteSet(linking')
         /\ \A c \in linking' : \E e \in linking : c.page = e.page /\ c.attempt = e.attempt
<1>. DEFINE Goal == /\ \A g \in ingesting : g.call \in answering'
                    /\ IsFiniteSet(reserving') /\ IsFiniteSet(answering')
                    /\ IsFiniteSet(linking')
                    /\ \A c \in linking' :
                         \E e \in linking : c.page = e.page /\ c.attempt = e.attempt
<1>0. /\ \A g \in ingesting : g.call \in answering
      /\ IsFiniteSet(reserving) /\ IsFiniteSet(answering) /\ IsFiniteSet(linking)
  BY DEF InFlight, OneResultPerCall, CallsFinite
<1>1. \A y : reserving' \subseteq reserving \cup {y} => IsFiniteSet(reserving')
  BY <1>0, EditFinite
<1>2. \A y : answering' \subseteq answering \cup {y} => IsFiniteSet(answering')
  BY <1>0, EditFinite
<1>3. ASSUME UNCHANGED <<reserving, answering, linking>> PROVE Goal
  BY <1>0, <1>3
<1>4. CASE BeginCall
  <2>1. ASSUME NEW w \in Worker, NEW conn \in 1..ReservesPerWorker, NEW n \in Batches,
               ReserveBegin(w, conn, n)
        PROVE  Goal
    <3>1. \E y : reserving' \subseteq reserving \cup {y}
      BY <2>1 DEF ReserveBegin
    <3>. QED BY <1>0, <1>1, <2>1, <3>1 DEF ReserveBegin
  <2>2. ASSUME NEW t \in issued, AnswerBegin(t) PROVE Goal
    <3>1. \E y : answering' = answering \cup {y}
      BY <2>2 DEF AnswerBegin
    <3>. QED BY <1>0, <1>2, <2>2, <3>1 DEF AnswerBegin
  <2>. QED BY <1>4, <2>1, <2>2 DEF BeginCall
<1>5. CASE Reserve
  <2>1. UNCHANGED <<answering, linking>>
    BY <1>5 DEF Reserve, ReserveCommit, ReservePick, ReserveLease
  <2>2. \E y : reserving' \subseteq reserving \cup {y}
    BY <1>5 DEF Reserve, ReserveCommit, ReservePick, ReserveLease
  <2>. QED BY <1>0, <1>1, <2>1, <2>2
<1>6. CASE PlainAnswer
  <2>1. PICK c \in answering :
          /\ Undecided(c)
          /\ \/ Heartbeat(c) \/ FailWrite(c)
             \/ \E retryable \in BOOLEAN : Fail(c, retryable) \/ FailRead(c, retryable)
    BY <1>6 DEF PlainAnswer
  <2>2. \/ answering' = answering \ {c}
        \/ \E y : answering' = (answering \ {c}) \cup {y}
    BY <2>1 DEF Heartbeat, FailWrite, Fail, FailRead
  <2>3. UNCHANGED <<reserving, linking>>
    BY <2>1 DEF Heartbeat, FailWrite, Fail, FailRead
  <2>4. \A g \in ingesting : g.call \in answering'
    BY <1>0, <2>1, <2>2 DEF Undecided
  <2>. QED BY <1>0, <1>2, <2>2, <2>3, <2>4
<1>7. CASE PlainFailure
  <2>1. \A g \in ingesting : g.call \in answering'
    BY <1>7 DEF PlainFailure
  <2>2. reserving' \subseteq reserving /\ answering' \subseteq answering
        /\ linking' \subseteq linking
    BY <1>7 DEF PlainFailure, CallFails
  <2>. QED BY <1>0, <2>1, <2>2, FS_Subset
<1>8. CASE Link
  <2>1. PICK c \in linking : EnqueueMany(c) \/ \E u \in URL : ScopeLink(c, u)
    BY <1>8 DEF Link
  <2>2. c \in LinkCall
    BY DEF Typed, IngestTypeOK, TypeOK
  <2>3. UNCHANGED <<reserving, answering>>
    BY <2>1 DEF EnqueueMany, ScopeLink
  <2>4. CASE EnqueueMany(c)
    BY <1>0, <2>3, <2>4, FS_RemoveElement DEF EnqueueMany
  <2>5. CASE \E u \in URL : ScopeLink(c, u)
    <3>1. PICK e : linking' = (linking \ {c}) \cup {e} /\ e.page = c.page /\ e.attempt = c.attempt
      <4>1. PICK u \in URL : ScopeLink(c, u)
        BY <2>5
      <4>. DEFINE dropped == [c EXCEPT !.links = @ \ {u}]
                  kept == [c EXCEPT !.links = @ \ {u}, !.jobs = @ \cup {u}]
      <4>2. linking' = (linking \ {c}) \cup {dropped} \/ linking' = (linking \ {c}) \cup {kept}
        BY <4>1 DEF ScopeLink
      <4>3. /\ dropped.page = c.page /\ dropped.attempt = c.attempt
            /\ kept.page = c.page /\ kept.attempt = c.attempt
        BY <2>2 DEF LinkCall
      <4>. HIDE DEF dropped, kept
      <4>. QED BY <4>2, <4>3
    <3>. QED BY <1>0, <2>3, <3>1, FS_AddElement, FS_RemoveElement
  <2>. QED BY <2>1, <2>4, <2>5
<1>9. CASE SweepExpired \/ Requeue \/ Operate \/ Tick
  BY <1>3, <1>9 DEF SweepExpired, Requeue, RequeueByFilter, Tick, Operate, SeedDomain,
     SetActive, UpdateCrawlDelay, UpdateParallelFetches, UpdateRequiredCapability, SetDomain
<1>10. ASSUME NEW u \in URL, NEW p \in Priorities, Enqueue(u, p) PROVE Goal
  BY <1>3, <1>10 DEF Enqueue
<1>. QED BY <1>4, <1>5, <1>6, <1>7, <1>8, <1>9, <1>10 DEF QueueStep

LEMMA LinksOfPage ==
  ASSUME NEW f, NEW c \in LinksOf(f)
  PROVE  SamePage(c, f)
BY DEF LinksOf, NewLinkCall, SamePage

\* A result that completes uses up the lease it was accepted for.
LEMMA CompletedIsUsedUp ==
  ASSUME Typed, NEW g \in ingesting, CompleteResult(g), NEW u \in URL, NEW a \in Nat
  PROVE  /\ UsedUp(u, a) => UsedUp(u, a)'
         /\ Holds(g.call.token) /\ u = g.call.token.url /\ a = row[u].attempts
              => ~ UsedUp(u, a) /\ UsedUp(u, a)'
<1>1. row[u] \in Row
  BY DEF Typed, IngestTypeOK, TypeOK
<1>2. \/ row'[u] = row[u] /\ ~ (Holds(g.call.token) /\ u = g.call.token.url)
      \/ row'[u] = Unleased(row[u], "done")
  BY DEF CompleteResult, CompleteRow, UpdateRows
<1>3. CASE row'[u] = row[u] /\ ~ (Holds(g.call.token) /\ u = g.call.token.url)
  BY <1>3 DEF UsedUp
<1>4. CASE row'[u] = Unleased(row[u], "done")
  <2>1. row'[u].status = "done" /\ row'[u].attempts = row[u].attempts
    BY <1>1, <1>4, UnleasedShape DEF Status
  <2>2. row[u].attempts \in Nat
    BY <1>1 DEF Row
  <2>. QED BY <2>1, <2>2 DEF UsedUp, Holds
<1>. QED BY <1>2, <1>3, <1>4

LEMMA InFlightStep ==
  ASSUME Typed, InFlight, [IngestNext]_allVars
  PROVE  InFlight'
<1>0. /\ \A c \in linking : c.page \in URL /\ c.attempt \in Nat
      /\ \A f \in firing : f \in Firing /\ f.object.url \in URL /\ f.attempt \in Nat
      /\ \A g \in ingesting : g \in Ingest
  BY DEF Typed, IngestTypeOK, TypeOK, LinkCall, Firing, Object
<1>1. ASSUME UNCHANGED <<row, reserving, answering, linking, firing>>, OneResultPerCall'
      PROVE  InFlight'
  BY <1>1 DEF InFlight, CallsFinite, AcceptedOnce, UsedUp
<1>2. CASE QueueStep
  <2>1. UNCHANGED <<ingesting, firing>>
    BY <1>2, QueueKeepsPipeline DEF ingestVars
  <2>2. \A u \in URL, a \in Nat : UsedUp(u, a) => UsedUp(u, a)'
    BY <1>2, QueueIsNext, UsedUpStays DEF Typed, IngestTypeOK
  <2>3. \A c \in linking' : \E e \in linking : c.page = e.page /\ c.attempt = e.attempt
    BY <1>2, QueueCalls
  <2>4. OneResultPerCall' /\ CallsFinite'
    BY <1>2, <2>1, QueueCalls DEF InFlight, OneResultPerCall, CallsFinite
  <2>5. \A c \in linking' : UsedUp(c.page, c.attempt)'
    BY <1>0, <2>2, <2>3 DEF InFlight, AcceptedOnce
  <2>6. \A f \in firing' : UsedUp(f.object.url, f.attempt)'
    BY <1>0, <2>1, <2>2 DEF InFlight, AcceptedOnce
  <2>7. \A c \in linking', f \in firing' : ~ SamePage(c, f)
    BY <2>1, <2>3 DEF InFlight, AcceptedOnce, SamePage
  <2>. QED BY <2>1, <2>4, <2>5, <2>6, <2>7 DEF InFlight, AcceptedOnce
<1>3. CASE MoverStep \/ UNCHANGED allVars
  <2>1. UNCHANGED <<vars, ingesting, firing>>
    BY <1>3, MoverKeepsQueue DEF allVars, ingestVars
  <2>. QED BY <1>1, <2>1 DEF vars, InFlight, OneResultPerCall
<1>4. ASSUME NEW c \in answering, NEW b \in Body, PutBlob(c, b) PROVE InFlight'
  <2>. DEFINE g == [call |-> c, body |-> b, indexed |-> FALSE]
  <2>1. /\ ingesting' = ingesting \cup {g} /\ g.call = c /\ Undecided(c)
        /\ UNCHANGED <<vars, firing>>
    BY <1>4 DEF PutBlob
  <2>. HIDE DEF g
  <2>2. OneResultPerCall'
    BY <2>1 DEF vars, InFlight, OneResultPerCall, Undecided
  <2>. QED BY <1>1, <2>1, <2>2 DEF vars
<1>5. ASSUME NEW g \in ingesting, InsertLake(g) PROVE InFlight'
  <2>. DEFINE h == [g EXCEPT !.indexed = TRUE]
  <2>1. ingesting' = (ingesting \ {g}) \cup {h} /\ UNCHANGED <<vars, firing>>
    BY <1>5 DEF InsertLake
  <2>2. h.call = g.call
    BY <1>0 DEF Ingest
  <2>. HIDE DEF h
  <2>3. OneResultPerCall'
    BY <2>1, <2>2 DEF vars, InFlight, OneResultPerCall
  <2>. QED BY <1>1, <2>1, <2>3 DEF vars
<1>6. ASSUME NEW g \in ingesting, CompleteResult(g) PROVE InFlight'
  <2>1. /\ ingesting' = ingesting \ {g} /\ answering' = answering \ {g.call}
        /\ UNCHANGED <<reserving, linking>>
    BY <1>6 DEF CompleteResult, CompleteRow
  <2>2. OneResultPerCall'
    BY <2>1 DEF InFlight, OneResultPerCall
  <2>3. \A u \in URL, a \in Nat : UsedUp(u, a) => UsedUp(u, a)'
    BY <1>6, CompletedIsUsedUp
  <2>4. CASE ~ Accepted(g)
    <3>1. firing' = firing
      BY <1>6, <2>4 DEF CompleteResult
    <3>2. CallsFinite'
      BY <2>1, <3>1, FS_RemoveElement DEF InFlight, CallsFinite
    <3>3. AcceptedOnce'
      BY <1>0, <2>1, <2>3, <3>1 DEF InFlight, AcceptedOnce
    <3>. QED BY <2>2, <3>2, <3>3 DEF InFlight
  <2>5. CASE Accepted(g)
    <3>. DEFINE u == g.call.token.url
    <3>0. u \in URL
      BY <1>0 DEF Ingest, AnswerCall, Token
    <3>1. PICK a \in Nat : a = row[u].attempts
      BY <3>0 DEF Typed, IngestTypeOK, TypeOK, Row
    <3>2. PICK f : firing' = firing \cup {f} /\ f.object.url = u /\ f.attempt = a
      <4>1. PICK links \in LinkSets :
              firing' = firing \cup
                {[object |-> ObjectOf(g), attempt |-> row[g.call.token.url].attempts,
                  todo |-> Matching(ObjectOf(g)), links |-> links]}
        BY <1>6, <2>5 DEF CompleteResult
      <4>. DEFINE new == [object |-> ObjectOf(g), attempt |-> row[g.call.token.url].attempts,
                          todo |-> Matching(ObjectOf(g)), links |-> links]
      <4>2. firing' = firing \cup {new} /\ new.object.url = u /\ new.attempt = a
        BY <3>1, <4>1 DEF ObjectOf
      <4>. HIDE DEF new
      <4>. QED BY <4>2
    <3>3. ~ UsedUp(u, a) /\ UsedUp(u, a)'
      BY <1>6, <2>5, <3>0, <3>1, CompletedIsUsedUp DEF Accepted
    <3>. HIDE DEF u
    <3>4. CallsFinite'
      BY <2>1, <3>2, FS_RemoveElement, FS_AddElement DEF InFlight, CallsFinite
    <3>5. \A c \in linking' : UsedUp(c.page, c.attempt)'
      BY <1>0, <2>1, <2>3 DEF InFlight, AcceptedOnce
    <3>6. \A h \in firing' : UsedUp(h.object.url, h.attempt)'
      BY <1>0, <2>3, <3>2, <3>3 DEF InFlight, AcceptedOnce
    <3>7. \A c \in linking', h \in firing' : ~ SamePage(c, h)
      BY <2>1, <3>2, <3>3 DEF InFlight, AcceptedOnce, SamePage
    <3>8. \A e, h \in firing' :
            e.object.url = h.object.url /\ e.attempt = h.attempt => e = h
      BY <3>2, <3>3 DEF InFlight, AcceptedOnce
    <3>9. AcceptedOnce'
      BY <3>5, <3>6, <3>7, <3>8 DEF AcceptedOnce
    <3>. QED BY <2>2, <3>4, <3>9 DEF InFlight
  <2>. QED BY <2>4, <2>5
<1>7. ASSUME NEW f \in firing, NEW k \in Trigger, FireTrigger(f, k) PROVE InFlight'
  <2>. DEFINE h == [f EXCEPT !.todo = @ \ {k}]
  <2>1. firing' = (firing \ {f}) \cup {h} /\ UNCHANGED <<vars, ingesting>>
    BY <1>7 DEF FireTrigger
  <2>2. h.object = f.object /\ h.attempt = f.attempt
    BY <1>0 DEF Firing
  <2>. HIDE DEF h
  <2>3. OneResultPerCall' /\ CallsFinite'
    BY <2>1, FS_RemoveElement, FS_AddElement
       DEF vars, InFlight, OneResultPerCall, CallsFinite
  <2>4. AcceptedOnce'
    BY <2>1, <2>2 DEF vars, InFlight, AcceptedOnce, SamePage, UsedUp
  <2>. QED BY <2>3, <2>4 DEF InFlight
<1>8. ASSUME NEW f \in firing, StartLinks(f) PROVE InFlight'
  <2>1. /\ firing' = firing \ {f} /\ linking' = linking \cup LinksOf(f)
        /\ UNCHANGED <<row, reserving, answering, ingesting>>
    BY <1>8 DEF StartLinks
  <2>2. \A c \in LinksOf(f) : SamePage(c, f)
    BY LinksOfPage
  <2>3. IsFiniteSet(linking')
    <3>1. \E y : LinksOf(f) \subseteq {y}
      BY DEF LinksOf, NewLinkCall
    <3>. QED BY <2>1, <3>1, EditFinite DEF InFlight, CallsFinite
  <2>4. OneResultPerCall' /\ CallsFinite'
    BY <2>1, <2>3, FS_RemoveElement DEF InFlight, OneResultPerCall, CallsFinite
  <2>5. AcceptedOnce'
    BY <2>1, <2>2 DEF InFlight, AcceptedOnce, SamePage, UsedUp
  <2>. QED BY <2>4, <2>5 DEF InFlight
<1>9. CASE IngestFails
  <2>1. /\ UNCHANGED <<row, reserving, linking>> /\ firing' \subseteq firing
        /\ ingesting' \subseteq ingesting /\ answering' \subseteq answering
        /\ \A h \in ingesting' : h.call \in answering'
    BY <1>9 DEF IngestFails, vars, InFlight, OneResultPerCall
  <2>2. OneResultPerCall'
    BY <2>1 DEF InFlight, OneResultPerCall
  <2>3. CallsFinite'
    BY <2>1, FS_Subset DEF InFlight, CallsFinite
  <2>4. AcceptedOnce'
    BY <2>1 DEF InFlight, AcceptedOnce, UsedUp
  <2>. QED BY <2>2, <2>3, <2>4 DEF InFlight
<1>. QED BY <1>2, <1>3, <1>4, <1>5, <1>6, <1>7, <1>8, <1>9 DEF IngestNext, IngestStep

-----------------------------------------------------------------------------
\* The links to come, as the abstract queue sees them.
Fired == UNION {LinksOf(f) : f \in firing}
Links == linking \cup Fired

LEMMA KeptLinks ==
  ASSUME UNCHANGED <<linking, firing>>
  PROVE  Links' = Links
BY DEF Links, Fired, LinksOf, NewLinkCall

LEMMA FewerCalls ==
  ASSUME InFlight
  PROVE  /\ Calls \in Nat /\ Crawl!Calls \in Nat /\ Cardinality(firing) \in Nat
         /\ Crawl!Calls <= Calls + Cardinality(firing)
<1>. DEFINE S == {f \in firing : f.links # {}}
            call(f) == [page |-> f.object.url, attempt |-> f.attempt,
                        links |-> f.links, jobs |-> {}]
            F == [f \in S |-> call(f)]
<1>1. /\ IsFiniteSet(reserving) /\ IsFiniteSet(answering)
      /\ IsFiniteSet(linking) /\ IsFiniteSet(firing)
  BY DEF InFlight, CallsFinite
<1>2. IsFiniteSet(S) /\ Cardinality(S) <= Cardinality(firing)
  BY <1>1, FS_Subset
<1>3. F \in Surjection(S, Fired)
  <2>1. \A f \in S : call(f) \in Fired
    BY DEF Fired, LinksOf, NewLinkCall
  <2>2. \A c \in Fired : \E f \in S : call(f) = c
    BY DEF Fired, LinksOf, NewLinkCall
  <2>. HIDE DEF S, call
  <2>. QED BY <2>1, <2>2 DEF Surjection
<1>4. IsFiniteSet(Fired) /\ Cardinality(Fired) <= Cardinality(S)
  BY <1>2, <1>3, FS_Surjection
<1>5. /\ IsFiniteSet(Links)
      /\ Cardinality(Links)
           = Cardinality(linking) + Cardinality(Fired) - Cardinality(linking \cap Fired)
  BY <1>1, <1>4, FS_Union DEF Links
<1>6. IsFiniteSet(linking \cap Fired)
  BY <1>1, FS_Subset
<1>7. /\ Cardinality(reserving) \in Nat /\ Cardinality(answering) \in Nat
      /\ Cardinality(linking) \in Nat /\ Cardinality(firing) \in Nat
      /\ Cardinality(S) \in Nat /\ Cardinality(Fired) \in Nat /\ Cardinality(Links) \in Nat
      /\ Cardinality(linking \cap Fired) \in Nat
  BY <1>1, <1>2, <1>4, <1>5, <1>6, FS_CardinalityType
<1>8. Crawl!Calls = Cardinality(reserving) + Cardinality(answering) + Cardinality(Links)
  BY SameCardinality DEF Crawl!Calls, Links, Fired
<1>. HIDE DEF S
<1>. QED BY <1>2, <1>4, <1>5, <1>7, <1>8 DEF Calls

LEMMA BeginRefines ==
  ASSUME InFlight, BeginCall, UNCHANGED firing
  PROVE  Crawl!Next
<1>1. Calls + Cardinality(firing) < MaxCalls => Crawl!Calls < MaxCalls
  BY FewerCalls, CountAssumption
<1>2. ASSUME NEW w \in Worker, NEW conn \in 1..ReservesPerWorker, NEW n \in Batches,
             ReserveBegin(w, conn, n), Crawl!Calls < MaxCalls
      PROVE  Crawl!ReserveBegin(w, conn, n)
  <2>1. Links' = Links
    BY <1>2, KeptLinks DEF ReserveBegin
  <2>. QED BY <1>2, <2>1, SameBatch DEF ReserveBegin, Crawl!ReserveBegin, Links, Fired
<1>3. ASSUME NEW t \in issued, AnswerBegin(t), Crawl!Calls < MaxCalls
      PROVE  Crawl!AnswerBegin(t)
  <2>1. Links' = Links
    BY <1>3, KeptLinks DEF AnswerBegin
  <2>. QED BY <1>3, <2>1 DEF AnswerBegin, Verify, Crawl!AnswerBegin, Crawl!Verify, Links, Fired
<1>. QED BY <1>1, <1>2, <1>3 DEF BeginCall, Crawl!Next

LEMMA ReserveRefines ==
  ASSUME Reserve, UNCHANGED firing
  PROVE  Crawl!Next
<1>1. Links' = Links
  BY KeptLinks DEF Reserve, ReserveCommit, ReservePick, ReserveLease
<1>2. PICK c \in reserving : ReserveCommit(c) \/ ReservePick(c) \/ ReserveLease(c)
  BY DEF Reserve
<1>3. CASE ReserveCommit(c)
  <2>1. Crawl!ReserveCommit(c)
    BY <1>1, <1>3, SamePicks, SameLease DEF ReserveCommit, Crawl!ReserveCommit, Links, Fired
  <2>. QED BY <2>1 DEF Crawl!Reserve, Crawl!Next
<1>4. CASE ReservePick(c)
  <2>1. Crawl!ReservePick(c)
    BY <1>1, <1>4, SamePicks DEF ReservePick, Crawl!ReservePick, Links, Fired
  <2>. QED BY <2>1 DEF Crawl!Reserve, Crawl!Next
<1>5. CASE ReserveLease(c)
  <2>1. Crawl!ReserveLease(c)
    BY <1>1, <1>5, SameLease DEF ReserveLease, Crawl!ReserveLease, Links, Fired
  <2>. QED BY <2>1 DEF Crawl!Reserve, Crawl!Next
<1>. QED BY <1>2, <1>3, <1>4, <1>5

LEMMA AnswerRefines ==
  ASSUME PlainAnswer, UNCHANGED firing
  PROVE  Crawl!Next
<1>1. PICK c \in answering :
        \/ Heartbeat(c) \/ FailWrite(c)
        \/ \E retryable \in BOOLEAN : Fail(c, retryable) \/ FailRead(c, retryable)
  BY DEF PlainAnswer
<1>2. Links' = Links
  BY <1>1, KeptLinks DEF Heartbeat, FailWrite, Fail, FailRead
<1>3. CASE Heartbeat(c)
  <2>1. Crawl!Heartbeat(c)
    BY <1>2, <1>3, SameRows
       DEF Heartbeat, UpdateRows, Crawl!Heartbeat, Crawl!UpdateRows, Links, Fired
  <2>. QED BY <2>1 DEF Crawl!Answer, Crawl!Next
<1>4. CASE FailWrite(c)
  <2>1. Crawl!FailWrite(c)
    BY <1>2, <1>4, SameRows
       DEF FailWrite, UpdateRows, Crawl!FailWrite, Crawl!UpdateRows, Links, Fired
  <2>. QED BY <2>1 DEF Crawl!Answer, Crawl!Next
<1>5. ASSUME NEW retryable \in BOOLEAN, Fail(c, retryable)
      PROVE  Crawl!Next
  <2>1. Crawl!Fail(c, retryable)
    BY <1>2, <1>5, SameRows DEF Fail, UpdateRows, Crawl!Fail, Crawl!UpdateRows, Links, Fired
  <2>. QED BY <2>1 DEF Crawl!Answer, Crawl!Next
<1>6. ASSUME NEW retryable \in BOOLEAN, FailRead(c, retryable)
      PROVE  Crawl!Next
  <2>1. Crawl!FailRead(c, retryable)
    BY <1>2, <1>6, SameRows DEF FailRead, Crawl!FailRead, Links, Fired
  <2>. QED BY <2>1 DEF Crawl!Answer, Crawl!Next
<1>. QED BY <1>1, <1>3, <1>4, <1>5, <1>6

\* A link call in flight is not among the links still behind the triggers, so
\* ending or replacing it does so for the abstract queue too.
LEMMA ReplacedLink ==
  ASSUME AcceptedOnce, UNCHANGED firing, NEW c \in linking, NEW R,
         linking' = (linking \ {c}) \cup R
  PROVE  Links' = (Links \ {c}) \cup R
<1>1. c \notin Fired
  BY LinksOfPage DEF Fired, AcceptedOnce
<1>2. Fired' = Fired
  BY DEF Fired, LinksOf, NewLinkCall
<1>. QED BY <1>1, <1>2 DEF Links

LEMMA LinkRefines ==
  ASSUME AcceptedOnce, Link, UNCHANGED firing
  PROVE  Crawl!Next
<1>1. PICK c \in linking : EnqueueMany(c) \/ \E u \in URL : ScopeLink(c, u)
  BY DEF Link
<1>2. c \in Links
  BY DEF Links
<1>3. \A R : linking' = (linking \ {c}) \cup R => Links' = (Links \ {c}) \cup R
  BY ReplacedLink
<1>4. CASE EnqueueMany(c)
  <2>1. Links' = (Links \ {c}) \cup {}
    BY <1>3, <1>4 DEF EnqueueMany
  <2>2. Links' = Links \ {c}
    BY <2>1
  <2>3. Crawl!EnqueueMany(c)
    BY <1>4, <2>2, SameRows
       DEF EnqueueMany, UpdateRows, Crawl!EnqueueMany, Crawl!UpdateRows, Links, Fired
  <2>. QED BY <1>2, <2>3 DEF Crawl!Link, Crawl!Next, Links, Fired
<1>5. ASSUME NEW u \in URL, ScopeLink(c, u)
      PROVE  Crawl!Next
  <2>1. Crawl!ScopeLink(c, u)
    BY <1>3, <1>5, SameRows DEF ScopeLink, Crawl!ScopeLink, Links, Fired
  <2>. QED BY <1>2, <2>1 DEF Crawl!Link, Crawl!Next, Links, Fired
<1>. QED BY <1>1, <1>4, <1>5

LEMMA FailureRefines ==
  ASSUME AcceptedOnce, CallFails, UNCHANGED firing
  PROVE  Crawl!Next
<1>0. UNCHANGED <<now, row, domain, served, issued>>
  BY DEF CallFails
<1>1. CASE /\ UNCHANGED linking
           /\ \/ \E c \in reserving : reserving' = reserving \ {c} /\ UNCHANGED answering
              \/ \E c \in answering : answering' = answering \ {c} /\ UNCHANGED reserving
  <2>1. Links' = Links
    BY <1>1, KeptLinks
  <2>2. Crawl!CallFails
    BY <1>0, <1>1, <2>1 DEF Crawl!CallFails, Links, Fired
  <2>. QED BY <2>2 DEF Crawl!Next
<1>2. ASSUME NEW c \in linking, linking' = linking \ {c}, UNCHANGED <<reserving, answering>>
      PROVE  Crawl!Next
  <2>1. linking' = (linking \ {c}) \cup {}
    BY <1>2
  <2>2. Links' = (Links \ {c}) \cup {}
    BY <2>1, ReplacedLink
  <2>3. c \in Links /\ Links' = Links \ {c}
    BY <2>2 DEF Links
  <2>4. Crawl!CallFails
    BY <1>0, <1>2, <2>3 DEF Crawl!CallFails, Links, Fired
  <2>. QED BY <2>4 DEF Crawl!Next
<1>. QED BY <1>1, <1>2 DEF CallFails

LEMMA OperatorRefines ==
  ASSUME Operate, UNCHANGED firing
  PROVE  Crawl!Next
<1>1. Links' = Links
  BY KeptLinks DEF Operate, SeedDomain, SetActive, UpdateCrawlDelay, UpdateParallelFetches,
     UpdateRequiredCapability, SetDomain
<1>2. ASSUME NEW d, NEW r, SetDomain(d, r) PROVE Crawl!SetDomain(d, r)
  BY <1>1, <1>2 DEF SetDomain, Crawl!SetDomain, Links, Fired
<1>3. PICK d \in Domain :
        \/ \E delay \in Delays, width \in Widths : SeedDomain(d, delay, width)
        \/ \E active \in BOOLEAN : SetActive(d, active)
        \/ \E delay \in Delays : UpdateCrawlDelay(d, delay)
        \/ \E width \in Widths : UpdateParallelFetches(d, width)
        \/ \E need \in Capability \cup {None} : UpdateRequiredCapability(d, need)
  BY DEF Operate
<1>4. ASSUME NEW delay \in Delays, NEW width \in Widths, SeedDomain(d, delay, width)
      PROVE  Crawl!SeedDomain(d, delay, width)
  BY <1>2, <1>4, SameRows DEF SeedDomain, Crawl!SeedDomain
<1>5. ASSUME NEW active \in BOOLEAN, SetActive(d, active) PROVE Crawl!SetActive(d, active)
  BY <1>2, <1>5 DEF SetActive, Crawl!SetActive
<1>6. ASSUME NEW delay \in Delays, UpdateCrawlDelay(d, delay)
      PROVE  Crawl!UpdateCrawlDelay(d, delay)
  BY <1>2, <1>6 DEF UpdateCrawlDelay, Crawl!UpdateCrawlDelay
<1>7. ASSUME NEW width \in Widths, UpdateParallelFetches(d, width)
      PROVE  Crawl!UpdateParallelFetches(d, width)
  BY <1>2, <1>7 DEF UpdateParallelFetches, Crawl!UpdateParallelFetches
<1>8. ASSUME NEW need \in Capability \cup {None}, UpdateRequiredCapability(d, need)
      PROVE  Crawl!UpdateRequiredCapability(d, need)
  BY <1>2, <1>8 DEF UpdateRequiredCapability, Crawl!UpdateRequiredCapability
<1>. QED BY <1>3, <1>4, <1>5, <1>6, <1>7, <1>8 DEF Crawl!Operate, Crawl!Next

LEMMA QueueRefines ==
  ASSUME InFlight, QueueStep
  PROVE  Crawl!Next
<1>0. UNCHANGED firing /\ AcceptedOnce
  BY QueueKeepsPipeline DEF ingestVars, InFlight
<1>1. CASE SweepExpired
  <2>1. Links' = Links
    BY <1>0, <1>1, KeptLinks DEF SweepExpired
  <2>2. Crawl!SweepExpired
    BY <1>1, <2>1, SameRows
       DEF SweepExpired, UpdateRows, Crawl!SweepExpired, Crawl!UpdateRows, Links, Fired
  <2>. QED BY <2>2 DEF Crawl!Next
<1>2. ASSUME NEW f \in RequeueFilters, RequeueByFilter(f) PROVE Crawl!Next
  <2>1. Links' = Links
    BY <1>0, <1>2, KeptLinks DEF RequeueByFilter
  <2>2. \A u : Crawl!Matches(u, f) <=> Matches(u, f)
    BY DEF Matches, Crawl!Matches
  <2>3. Crawl!RequeueByFilter(f)
    BY <1>2, <2>1, <2>2, SameRows
       DEF RequeueByFilter, UpdateRows, Crawl!RequeueByFilter, Crawl!UpdateRows, Links, Fired
  <2>. QED BY <2>3 DEF Crawl!Requeue, Crawl!Next
<1>3. CASE Tick
  <2>1. Links' = Links
    BY <1>0, <1>3, KeptLinks DEF Tick
  <2>2. Crawl!Tick
    BY <1>3, <2>1 DEF Tick, Crawl!Tick, Links, Fired
  <2>. QED BY <2>2 DEF Crawl!Next
<1>4. ASSUME NEW u \in URL, NEW p \in Priorities, Enqueue(u, p) PROVE Crawl!Next
  <2>1. Links' = Links
    BY <1>0, <1>4, KeptLinks DEF Enqueue
  <2>2. Crawl!Enqueue(u, p)
    BY <1>4, <2>1, SameRows
       DEF Enqueue, UpdateRows, Crawl!Enqueue, Crawl!UpdateRows, Links, Fired
  <2>. QED BY <2>2 DEF Crawl!Next
<1>5. CASE BeginCall \/ Reserve \/ PlainAnswer
  BY <1>0, <1>5, BeginRefines, ReserveRefines, AnswerRefines
<1>6. CASE PlainFailure \/ Link \/ Operate
  BY <1>0, <1>6, FailureRefines, LinkRefines, OperatorRefines DEF PlainFailure
<1>. QED BY <1>1, <1>2, <1>3, <1>4, <1>5, <1>6 DEF QueueStep, Requeue

\* A completion is the abstract queue's Complete: the links of an accepted
\* result are to come from then on.
LEMMA CompleteRefines ==
  ASSUME InFlight, NEW g \in ingesting, CompleteResult(g)
  PROVE  Crawl!Next
<1>. DEFINE c == g.call
<1>1. c \in answering
  BY DEF InFlight, OneResultPerCall
<1>2. Crawl!CompleteRow(c)
  BY SameRows
     DEF CompleteResult, CompleteRow, UpdateRows, Crawl!CompleteRow, Crawl!UpdateRows
<1>3. UNCHANGED <<now, domain, served, issued, reserving, linking>>
  BY DEF CompleteResult
<1>4. CASE ~ Holds(c.token)
  <2>1. Links' = Links
    BY <1>3, <1>4, KeptLinks DEF CompleteResult, Accepted
  <2>. QED BY <1>1, <1>2, <1>3, <1>4, <2>1, SameRows
           DEF Crawl!Complete, Crawl!Answer, Crawl!Next, Links, Fired
<1>5. CASE Holds(c.token)
  <2>1. PICK links \in LinkSets :
          firing' = firing \cup
            {[object |-> ObjectOf(g), attempt |-> row[c.token.url].attempts,
              todo |-> Matching(ObjectOf(g)), links |-> links]}
    BY <1>5 DEF CompleteResult, Accepted
  <2>. DEFINE f == [object |-> ObjectOf(g), attempt |-> row[c.token.url].attempts,
                    todo |-> Matching(ObjectOf(g)), links |-> links]
              new == NewLinkCall(c.token.url, row[c.token.url].attempts, links)
  <2>2. LinksOf(f) = new
    BY DEF LinksOf, ObjectOf
  <2>. HIDE DEF f
  <2>3. firing' = firing \cup {f}
    BY <2>1 DEF f
  <2>4. Fired' = Fired \cup LinksOf(f)
    BY <2>3 DEF Fired, LinksOf, NewLinkCall
  <2>5. Links' = Links \cup new
    BY <1>3, <2>2, <2>4 DEF Links
  <2>6. new = Crawl!NewLinkCall(c.token.url, row[c.token.url].attempts, links)
    BY DEF NewLinkCall, Crawl!NewLinkCall
  <2>7. Links' = Links \cup Crawl!NewLinkCall(c.token.url, row[c.token.url].attempts, links)
    BY <2>5, <2>6
  <2>8. Crawl!Complete(c)
    BY <1>2, <1>3, <1>5, <2>7, SameRows DEF Crawl!Complete, Links, Fired
  <2>. QED BY <1>1, <2>8 DEF Crawl!Answer, Crawl!Next
<1>. QED BY <1>4, <1>5

\* A handler that dies while it answers, or behind the row's completion, is a
\* call of the abstract queue that fails.
LEMMA IngestFailureRefines ==
  ASSUME InFlight, IngestFails
  PROVE  Crawl!Next \/ UNCHANGED Crawl!vars
<1>1. ASSUME NEW g \in ingesting, answering' = answering \ {g.call},
             UNCHANGED <<now, row, domain, served, issued, reserving, linking, firing>>
      PROVE  Crawl!Next
  <2>1. g.call \in answering
    BY DEF InFlight, OneResultPerCall
  <2>2. Links' = Links
    BY <1>1, KeptLinks
  <2>3. Crawl!CallFails
    BY <1>1, <2>1, <2>2 DEF Crawl!CallFails, Links, Fired
  <2>. QED BY <2>3 DEF Crawl!Next
<1>2. ASSUME NEW f \in firing, firing' = firing \ {f}, UNCHANGED vars
      PROVE  Crawl!Next \/ UNCHANGED Crawl!vars
  <2>1. \A c \in LinksOf(f) : /\ c \notin linking
                              /\ \A h \in firing : c \in LinksOf(h) => h = f
    BY LinksOfPage DEF InFlight, AcceptedOnce, SamePage
  <2>2. Fired' = Fired \ LinksOf(f)
    <3>1. Fired' = UNION {LinksOf(h) : h \in firing \ {f}}
      BY <1>2 DEF Fired, LinksOf, NewLinkCall
    <3>. QED BY <2>1, <3>1 DEF Fired
  <2>3. Links' = Links \ LinksOf(f)
    BY <1>2, <2>1, <2>2 DEF Links, vars
  <2>4. CASE LinksOf(f) = {}
    <3>1. Links' = Links
      BY <2>3, <2>4
    <3>. QED BY <1>2, <3>1 DEF Crawl!vars, vars, Links, Fired
  <2>5. ASSUME NEW c, LinksOf(f) = {c} PROVE Crawl!Next
    <3>1. c \in Links /\ Links' = Links \ {c}
      BY <2>3, <2>5 DEF Links, Fired
    <3>2. Crawl!CallFails
      BY <1>2, <3>1 DEF Crawl!CallFails, vars, Links, Fired
    <3>. QED BY <3>2 DEF Crawl!Next
  <2>6. LinksOf(f) = {} \/ \E c : LinksOf(f) = {c}
    BY DEF LinksOf, NewLinkCall
  <2>. QED BY <2>4, <2>5, <2>6
<1>. QED BY <1>1, <1>2 DEF IngestFails

LEMMA StutterRefines ==
  ASSUME UNCHANGED <<now, row, domain, served, issued, reserving, answering>>, Links' = Links
  PROVE  UNCHANGED Crawl!vars
BY DEF Crawl!vars, Links, Fired

LEMMA StepRefines ==
  ASSUME Typed, InFlight, [IngestNext]_allVars
  PROVE  Crawl!Next \/ UNCHANGED Crawl!vars
<1>1. CASE QueueStep
  BY <1>1, QueueRefines
<1>2. ASSUME UNCHANGED <<vars, firing>> PROVE UNCHANGED Crawl!vars
  BY <1>2, KeptLinks, StutterRefines DEF vars
<1>3. CASE MoverStep \/ UNCHANGED allVars
  BY <1>2, <1>3, MoverKeepsQueue DEF allVars, ingestVars
<1>4. ASSUME NEW c \in answering, NEW b \in Body, PutBlob(c, b) PROVE UNCHANGED Crawl!vars
  BY <1>2, <1>4 DEF PutBlob
<1>5. ASSUME NEW g \in ingesting, InsertLake(g) PROVE UNCHANGED Crawl!vars
  BY <1>2, <1>5 DEF InsertLake
<1>6. ASSUME NEW g \in ingesting, CompleteResult(g) PROVE Crawl!Next
  BY <1>6, CompleteRefines
<1>7. ASSUME NEW f \in firing, NEW k \in Trigger, FireTrigger(f, k)
      PROVE  UNCHANGED Crawl!vars
  <2>. DEFINE h == [f EXCEPT !.todo = @ \ {k}]
  <2>1. firing' = (firing \ {f}) \cup {h} /\ UNCHANGED vars
    BY <1>7 DEF FireTrigger
  <2>2. LinksOf(h) = LinksOf(f)
    BY DEF LinksOf, NewLinkCall, Typed, IngestTypeOK, Firing
  <2>. HIDE DEF h
  <2>3. Fired' = UNION {LinksOf(e) : e \in (firing \ {f}) \cup {h}}
    BY <2>1 DEF Fired, LinksOf, NewLinkCall
  <2>4. Fired' = Fired
    BY <2>2, <2>3 DEF Fired
  <2>. QED BY <2>1, <2>4, StutterRefines DEF Links, vars
<1>8. ASSUME NEW f \in firing, StartLinks(f) PROVE UNCHANGED Crawl!vars
  <2>1. /\ firing' = firing \ {f} /\ linking' = linking \cup LinksOf(f)
        /\ UNCHANGED <<now, row, domain, served, issued, reserving, answering>>
    BY <1>8 DEF StartLinks
  <2>2. Fired' = UNION {LinksOf(h) : h \in firing \ {f}}
    BY <2>1 DEF Fired, LinksOf, NewLinkCall
  <2>3. Links' = Links
    BY <2>1, <2>2 DEF Links, Fired
  <2>. QED BY <2>1, <2>3, StutterRefines
<1>9. CASE IngestFails
  BY <1>9, IngestFailureRefines
<1>. QED BY <1>1, <1>3, <1>4, <1>5, <1>6, <1>7, <1>8, <1>9 DEF IngestNext, IngestStep

\* Blob, lake row, completion, triggers and links, with a crash between any two
\* of them and any number of results of one lease: the queue sees AcceptResult
\* take effect in one step, once for each lease.
THEOREM IngestIsAFrontier == IngestSpec => ImplementsFrontier
<1>1. IngestInit => Crawl!Init /\ InFlight
  <2>. SUFFICES ASSUME IngestInit PROVE Crawl!Init /\ InFlight
    OBVIOUS
  <2>1. Links = {}
    BY DEF IngestInit, Init, Links, Fired
  <2>2. Crawl!Init
    BY <2>1 DEF IngestInit, Init, NoRow, NoDomain, Crawl!Init, Crawl!NoRow, Crawl!NoDomain,
       Links, Fired
  <2>3. InFlight
    BY FS_EmptySet
       DEF IngestInit, Init, InFlight, OneResultPerCall, CallsFinite, AcceptedOnce
  <2>. QED BY <2>2, <2>3
<1>2. Typed /\ InFlight /\ [IngestNext]_allVars => InFlight'
  BY InFlightStep
<1>3. Typed /\ InFlight /\ [IngestNext]_allVars => [Crawl!Next]_Crawl!vars
  BY StepRefines
<1>. QED BY <1>1, <1>2, <1>3, IngestTyping, PTL
         DEF IngestSpec, Typed, ImplementsFrontier, Crawl!Spec

-----------------------------------------------------------------------------
(***************************************************************************)
(* The pipeline and the leases of the crawl queue.                         *)
(***************************************************************************)

LEMMA PipelineRowStep ==
  ASSUME Typed, InFlight, [IngestNext]_allVars, NEW u \in URL
  PROVE  RowStep(u) /\ issued \subseteq issued'
<1>1. CASE QueueStep
  BY <1>1, QueueIsNext, RowStepLemma DEF Typed, IngestTypeOK
<1>2. CASE UNCHANGED <<row, issued>>
  BY <1>2 DEF RowStep
<1>3. CASE MoverStep \/ UNCHANGED allVars
  BY <1>2, <1>3, MoverKeepsQueue DEF allVars, vars
<1>4. ASSUME NEW c \in answering, NEW b \in Body, PutBlob(c, b)
      PROVE  UNCHANGED <<row, issued>>
  BY <1>4 DEF PutBlob, vars
<1>5. ASSUME NEW g \in ingesting, InsertLake(g) PROVE UNCHANGED <<row, issued>>
  BY <1>5 DEF InsertLake, vars
<1>6. ASSUME NEW g \in ingesting, CompleteResult(g)
      PROVE  RowStep(u) /\ issued \subseteq issued'
  <2>1. g.call \in answering /\ issued' = issued
    BY <1>6 DEF InFlight, OneResultPerCall, CompleteResult
  <2>2. row'[u] = IF u = g.call.token.url /\ Holds(g.call.token)
                    THEN Unleased(row[u], "done") ELSE row[u]
    BY <1>6 DEF CompleteResult, CompleteRow, UpdateRows
  <2>. QED BY <2>1, <2>2 DEF RowStep, RowCompleted
<1>7. ASSUME NEW f \in firing, NEW k \in Trigger, FireTrigger(f, k)
      PROVE  UNCHANGED <<row, issued>>
  BY <1>7 DEF FireTrigger, vars
<1>8. ASSUME NEW f \in firing, StartLinks(f) PROVE UNCHANGED <<row, issued>>
  BY <1>8 DEF StartLinks
<1>9. CASE IngestFails
  BY <1>2, <1>9 DEF IngestFails, vars
<1>. QED BY <1>1, <1>2, <1>3, <1>4, <1>5, <1>6, <1>7, <1>8, <1>9 DEF IngestNext, IngestStep

\* With AcceptResult taken apart into its writes, dying between any two of them and
\* repeated at will, and the migrator beside it, the crawl queue keeps whole leases.
THEOREM WholeLeasesBesideIngest == IngestSpec => [](LeaseShape /\ InFlight)
<1>1. IngestInit => LeaseShape /\ InFlight
  BY FS_EmptySet
     DEF IngestInit, Init, InFlight, OneResultPerCall, CallsFinite, AcceptedOnce,
         LeaseShape, WellLeased, NoRow
<1>2. Typed /\ LeaseShape /\ InFlight /\ [IngestNext]_allVars => (LeaseShape /\ InFlight)'
  <2>. SUFFICES ASSUME Typed, LeaseShape, InFlight, [IngestNext]_allVars
                PROVE  (LeaseShape /\ InFlight)'
    OBVIOUS
  <2>1. InFlight'
    BY InFlightStep
  <2>2. \A u \in URL : RowStep(u) /\ issued \subseteq issued'
    BY PipelineRowStep
  <2>3. TypeOK
    BY DEF Typed, IngestTypeOK
  <2>. QED BY <2>1, <2>2, <2>3, LeaseShapeStep
<1>. QED BY <1>1, <1>2, IngestTyping, PTL DEF IngestSpec, Typed

\* ... and is, on SQLite, still the abstract lease queue: a page is done only by an
\* answer under the lease it was fetched with, although blob and lake row were written
\* before that lease was looked at.
THEOREM IngestIsALeaseQueue ==
  ASSUME Driver = "sqlite" PROVE IngestSpec => ImplementsLeaseQueue
<1>1. IngestInit => Queue!Init
  BY QueueBegins DEF IngestInit
<1>2. Typed /\ Typed' /\ LeaseShape /\ InFlight /\ [IngestNext]_allVars
        => [Queue!Next]_Queue!vars
  <2>. SUFFICES ASSUME Typed, Typed', LeaseShape, InFlight, [IngestNext]_allVars
                PROVE  Queue!Next
    OBVIOUS
  <2>1. \A u \in URL : RowStep(u)
    BY PipelineRowStep
  <2>2. TypeOK /\ TypeOK'
    BY DEF Typed, IngestTypeOK
  <2>. QED BY <2>1, <2>2, RowsAreItems
<1>. QED BY <1>1, <1>2, IngestTyping, WholeLeasesBesideIngest, PTL
         DEF IngestSpec, Typed, ImplementsLeaseQueue, Queue!Spec
=============================================================================
