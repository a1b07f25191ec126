----------------------------- MODULE CrawlIngest ----------------------------
(***************************************************************************)
(* How a crawl result enters the lake.  AcceptResult writes three stores   *)
(* that share no transaction: the blob store, the lake index and the       *)
(* crawl queue; then it fires the triggers that enqueue processing jobs,   *)
(* and only then looks at the page's links.  The lease is verified when    *)
(* the call arrives and checked again only when the row is completed, so   *)
(* everything written before that may be the work of a worker that has     *)
(* lost its lease.  Beside the registry, the migrator moves blobs between  *)
(* two stores.                                                             *)
(***************************************************************************)
EXTENDS Frontier

CONSTANTS
  Body, TypeOf,     \* what a page may serve, and its content type
  Trigger, Fires,   \* trigger kinds, and the content types each one matches
  Migrating,        \* whether the migrator runs
  DeleteSrc         \* the migrator's --delete-src

Object == [url : URL, body : Body]    \* identified by url_hash and sha256
Backend == {"local", "s3"}

ASSUME BodyAssumption == None \notin Body /\ None \notin Object /\ None \notin Backend
ASSUME MigrationAssumption == Migrating \in BOOLEAN /\ DeleteSrc \in BOOLEAN

VARIABLES
  blob,       \* per backend and storage key, the bytes kept there
  lake,       \* lake_objects: the backend of each object, None: no row
  ingesting,  \* result calls between their blob and the completion
  firing,     \* accepted results whose triggers are being fired
  jobs,       \* how many processing jobs an object has of each kind
  accepted,   \* history: how often a result with this object was accepted
  move        \* the migrator's current object

ingestVars == <<blob, lake, ingesting, firing, jobs, accepted, move>>
allVars == <<vars, ingestVars>>

\* extFor, of a content type without its parameters.
ExtFor(type) ==
  CASE type = "text/html" -> ".html"
    [] type = "application/pdf" -> ".pdf"
    [] type = "application/json" -> ".json"
    [] type \in {"application/xml", "text/xml"} -> ".xml"
    [] type = "text/plain" -> ".txt"
    [] OTHER -> ".bin"

\* storageKey: contents of one page share a key whenever their types share an
\* extension.
Key == {<<u, ExtFor(TypeOf[b])>> : u \in URL, b \in Body}
KeyOf(o) == <<o.url, ExtFor(TypeOf[o.body])>>
Ingest == [call : AnswerCall, body : Body, indexed : BOOLEAN]
Firing == [object : Object, attempt : Nat, todo : SUBSET Trigger, links : SUBSET URL]
Moving == [object : Object \cup {None}, bytes : Body \cup {None},
           stage : {"list", "put", "update", "delete"}]

IngestTypeOK ==
  /\ TypeOK
  /\ blob \in [Backend -> [Key -> Body \cup {None}]]
  /\ lake \in [Object -> Backend \cup {None}]
  /\ ingesting \subseteq Ingest /\ firing \subseteq Firing
  /\ jobs \in [Object -> [Trigger -> Nat]]
  /\ accepted \in [Object -> Nat]
  /\ move \in Moving

AtRest == [object |-> None, bytes |-> None, stage |-> "list"]

IngestInit ==
  /\ Init
  /\ blob = [b \in Backend |-> [k \in Key |-> None]]
  /\ lake = [o \in Object |-> None]
  /\ ingesting = {} /\ firing = {}
  /\ jobs = [o \in Object |-> [k \in Trigger |-> 0]]
  /\ accepted = [o \in Object |-> 0]
  /\ move = AtRest

-----------------------------------------------------------------------------
(***************************************************************************)
(* AcceptResult, after Verify.                                             *)
(***************************************************************************)

ObjectOf(g) == [url |-> g.call.token.url, body |-> g.body]

\* A call that has not chosen to be a result.
Undecided(c) == \A g \in ingesting : g.call # c

\* Blobs.Put: the bytes are staged and renamed onto the key, whoever owns it.
PutBlob(c, b) ==
  /\ Undecided(c) /\ c.verdict = None
  /\ LET g == [call |-> c, body |-> b, indexed |-> FALSE]
     IN  /\ blob' = [blob EXCEPT !["local"][KeyOf(ObjectOf(g))] = b]
         /\ ingesting' = ingesting \cup {g}
  /\ UNCHANGED <<vars, lake, firing, jobs, accepted, move>>

\* Lake.Insert: ON CONFLICT DO NOTHING on the content and the URL.
InsertLake(g) ==
  /\ ~ g.indexed
  /\ lake' = [lake EXCEPT ![ObjectOf(g)] = IF @ = None THEN "local" ELSE @]
  /\ ingesting' = (ingesting \ {g}) \cup {[g EXCEPT !.indexed = TRUE]}
  /\ UNCHANGED <<vars, blob, firing, jobs, accepted, move>>

ReadyWithoutIndex(g) == TRUE
Ready(g) == g.indexed

Matching(o) == {k \in Trigger : TypeOf[o.body] \in Fires[k]}

\* Whether the completion found the lease: a refused result stops here.
AcceptedAnyway(g) == TRUE
Accepted(g) == Holds(g.call.token)

CompleteResult(g) ==
  /\ Ready(g)
  /\ CompleteRow(g.call)
  /\ ingesting' = ingesting \ {g}
  /\ IF Accepted(g)
       THEN \E links \in LinkSets :
              firing' = firing \cup
                {[object |-> ObjectOf(g), attempt |-> row[g.call.token.url].attempts,
                  todo |-> Matching(ObjectOf(g)), links |-> links]}
       ELSE UNCHANGED firing
  /\ accepted' = [accepted EXCEPT ![ObjectOf(g)] = @ + (IF Holds(g.call.token) THEN 1 ELSE 0)]
  /\ UNCHANGED <<now, domain, served, issued, reserving, linking, blob, lake, jobs, move>>

\* Dispatcher.Fire enqueues one job per matching trigger; a failed insert is
\* dropped without a word.
FireTrigger(f, k) ==
  /\ k \in f.todo
  /\ firing' = (firing \ {f}) \cup {[f EXCEPT !.todo = @ \ {k}]}
  /\ \/ jobs' = [jobs EXCEPT ![f.object][k] = @ + 1]
     \/ UNCHANGED jobs
  /\ UNCHANGED <<vars, blob, lake, ingesting, accepted, move>>

\* Then the links, if there are any, go through scope and EnqueueMany.
LinksOf(f) == NewLinkCall(f.object.url, f.attempt, f.links)
StartLinks(f) ==
  /\ f.todo = {}
  /\ firing' = firing \ {f}
  /\ linking' = linking \cup LinksOf(f)
  /\ UNCHANGED <<now, row, domain, served, issued, reserving, answering>>
  /\ UNCHANGED <<blob, lake, ingesting, jobs, accepted, move>>

\* A result handler dies: what it has written so far stays.
IngestFails ==
  \/ /\ \E g \in ingesting : /\ ingesting' = ingesting \ {g}
                             /\ answering' = answering \ {g.call}
     /\ UNCHANGED <<now, row, domain, served, issued, reserving, linking>>
     /\ UNCHANGED <<blob, lake, firing, jobs, accepted, move>>
  \/ /\ \E f \in firing : firing' = firing \ {f}
     /\ UNCHANGED <<vars, blob, lake, ingesting, jobs, accepted, move>>

-----------------------------------------------------------------------------
(***************************************************************************)
(* Mover.moveOne, over the rows the migrator listed on the local backend.  *)
(***************************************************************************)

MoveGet(o) ==
  /\ Migrating /\ move = AtRest /\ lake[o] = "local"
  /\ LET bytes == blob["local"][KeyOf(o)]
     IN  /\ bytes # None
         /\ move' = [object |-> o, bytes |-> bytes, stage |-> "put"]
  /\ UNCHANGED <<vars, blob, lake, ingesting, firing, jobs, accepted>>

MoveTo(stage) == move' = [move EXCEPT !.stage = stage]

\* The destination verifies the row's sha256 and refuses other bytes.
MovePut ==
  /\ move.stage = "put" /\ move.bytes = move.object.body
  /\ blob' = [blob EXCEPT !["s3"][KeyOf(move.object)] = move.bytes]
  /\ MoveTo("update")
  /\ UNCHANGED <<vars, lake, ingesting, firing, jobs, accepted>>

\* The row is switched only after the copy has been verified.
Copied == move.stage = "update"

MoveUpdate ==
  /\ Copied
  /\ lake' = [lake EXCEPT ![move.object] = "s3"]
  /\ IF DeleteSrc THEN MoveTo("delete") ELSE move' = AtRest
  /\ UNCHANGED <<vars, blob, ingesting, firing, jobs, accepted>>

\* The source goes last, after the row has left it.
SwitchedOrCopied == move.stage \in {"update", "delete"}
Switched == move.stage = "delete"

MoveDelete ==
  /\ Switched
  /\ blob' = [blob EXCEPT !["local"][KeyOf(move.object)] = None]
  /\ move' = AtRest
  /\ UNCHANGED <<vars, lake, ingesting, firing, jobs, accepted>>

\* An error on one object is counted and the run goes on; or it is killed.
MoveFails ==
  /\ move # AtRest /\ move' = AtRest
  /\ UNCHANGED <<vars, blob, lake, ingesting, firing, jobs, accepted>>

-----------------------------------------------------------------------------
\* The queue's other steps: a call that has become a result is only completed
\* or lost by the steps above.
PlainAnswer ==
  \E c \in answering :
    /\ Undecided(c)
    /\ \/ Heartbeat(c) \/ FailWrite(c)
       \/ \E retryable \in BOOLEAN : Fail(c, retryable) \/ FailRead(c, retryable)
PlainFailure == CallFails /\ \A g \in ingesting : g.call \in answering'

BeginCall ==
  /\ Calls + Cardinality(firing) < MaxCalls
  /\ \/ \E w \in Worker, conn \in 1..ReservesPerWorker, n \in Batches :
          ReserveBegin(w, conn, n)
     \/ \E t \in issued : AnswerBegin(t)

QueueStep ==
  /\ \/ BeginCall \/ Reserve \/ PlainAnswer \/ PlainFailure \/ Link
     \/ SweepExpired \/ Requeue \/ Operate \/ Tick
     \/ \E u \in URL, p \in Priorities : Enqueue(u, p)
  /\ UNCHANGED ingestVars

IngestStep ==
  \/ \E c \in answering, b \in Body : PutBlob(c, b)
  \/ \E g \in ingesting : InsertLake(g) \/ CompleteResult(g)
  \/ \E f \in firing : StartLinks(f) \/ \E k \in Trigger : FireTrigger(f, k)
  \/ IngestFails

MoverStep ==
  \/ \E o \in Object : MoveGet(o)
  \/ MovePut \/ MoveUpdate \/ MoveDelete \/ MoveFails

IngestNext == QueueStep \/ IngestStep \/ MoverStep
IngestSpec == IngestInit /\ [][IngestNext]_allVars

-----------------------------------------------------------------------------
(***************************************************************************)
(* Properties.                                                             *)
(***************************************************************************)

\* service.go 128-147: a row is done only once its page is in the lake, in
\* every order of crashes, lost leases and repeated results.
DoneIsStored ==
  \A u \in URL : row[u].status = "done" => \E o \in Object : o.url = u /\ lake[o] # None

\* service.go 128-147, migrator.go 57-88: a lake row finds its bytes at its key in
\* the store it names, in every order of puts, inserts, copies, switches, deletions
\* and crashes, unless another content of the page under the same key has come in
\* between: its bytes took their place, or the migrator deleted what it had copied
\* of that one.
Twins(o) == {p \in Object \ {o} : KeyOf(p) = KeyOf(o)}
TellsOrShares(o, store) ==
  LET bytes == blob[store][KeyOf(o)]
  IN  \/ bytes = o.body
      \/ \E p \in Twins(o) :
           bytes = p.body \/ (DeleteSrc /\ bytes = None /\ lake[p] = "s3")
BytesAreLostToTwinsOnly ==
  \A o \in Object : lake[o] # None => TellsOrShares(o, lake[o])

\* So while nothing is deleted there are always some bytes behind a row.
BlobBehindEveryRow ==
  \A o \in Object : lake[o] # None => blob[lake[o]][KeyOf(o)] # None

\* A result posted twice, or posted by a worker that lost its lease, never
\* processes a page twice: an object has at most one job of a kind for every
\* time a result of it was accepted.
FiredOncePerAcceptance ==
  \A o \in Object, k \in Trigger : jobs[o][k] <= accepted[o]

\* The ingest pipeline is an implementation of the crawl queue: seen from
\* there a result is accepted in one step.
Crawl == INSTANCE Frontier WITH linking <- linking \cup UNION {LinksOf(f) : f \in firing}
ImplementsFrontier == Crawl!Spec

\* eidos/spec - domain - lake, lines 14-15: an object is durably identified by
\* its content, and its row tells where the bytes physically live.
RowTellsWhereBytesLive ==
  \A o \in Object : lake[o] # None => blob[lake[o]][KeyOf(o)] = o.body
=============================================================================
