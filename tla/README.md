# A TLA+ verification of the crawler registry

The repository is a distributed crawler: a **registry** (`src/cmd/registry`) keeps
every queue in one SQL database and every page in a blob store; any number of
**workers** (`src/cmd/worker`, `agent`, `taskworker`, `ocrworker`, `embedworker`,
`litekoworker`, `unicrawler`) pull work over HTTP with a personal access token,
do it, and post the outcome.  The registry never calls a worker.  Everything
that can go wrong therefore goes wrong in the same place: in the tables, between
a lease being handed out and an answer coming back, late, twice or never.

This directory holds TLA+ modules that model the three queues of the registry, the
stores beside them, the loops of the nine client programs and the algorithms their
jobs rest on; TLC configurations that check them on small instances; and TLAPS proofs
of the main properties for every instance.

## 1. Inventory

| Part | State it keeps | Operations | Hard behaviour | What makes it correct |
|---|---|---|---|---|
| Crawl frontier (`internal/infra/db/gormrepo/frontier_repo.go`) | `crawl_frontier` rows (status, lease, attempts, retry time), `domains` (delay, width, capability, last request) | Reserve, Heartbeat, Complete, Fail, Enqueue(Many), RequeueByFilter, SweepExpired, domain settings | transactions of several registries' handlers and of the CLI interleave; clocks are read before waiting for the writer | one token per row; only its holder settles it; every lease ends; the host's delay and the worker's cap are kept |
| Lease signer (`internal/infra/lease`) | none: the token carries hash, worker and expiry | Sign, Verify | expiry in whole seconds; valid after the row was given away | a token alone never changes a row it no longer holds |
| Crawl service (`internal/app/service.go`) | none | ReserveJobs, Heartbeat, AcceptResult, AcceptFailure, enqueueDiscovered | AcceptResult writes three stores without a common transaction | a done page is in the lake; triggers fire at most once per acceptance |
| Jobs endpoints (`internal/infra/http/jobs.go`, `policy.go`) | none | reserve, heartbeat, result, fail | max_concurrent counted before the transaction | the cap |
| Lake index and blob stores (`lake_repo.go`, `infra/store/*`) | `lake_objects`; bytes by key | Insert, UpdateStorage; Put, Get, Delete | a key is shared by the versions of a page whose types have one extension | a row finds its bytes, or those of a twin |
| Migrator (`internal/app/migrator.go`) | none (a cursor) | copy, switch the row, delete | runs beside the registry | no row loses its bytes but to a twin |
| Trigger dispatcher (`internal/app/dispatcher.go`) | trigger list, cached | Fire | errors are dropped; the cache is stale | one job per trigger and acceptance |
| Processing queue (`processing_repo.go`, `tasksvc.go`, `http/tasks.go`) | `processing_jobs`, `extractions` | Reserve, Heartbeat, AcceptText/AcceptBlob, Fail, sweep, bulk enqueue | external leases and the internal pipeline claim the same rows | as the frontier; no job is lost or done twice |
| Internal pipeline (`pipeline.go`) | jobs marked running | claim, strip, chunk | runs without a lease; crash leaves rows running | every claimed job ends |
| Chunks and embedding (`chunk_repo.go`, `embed.go`, qdrant) | `document_chunks`, vector collections | InsertMany, Reserve, AcceptResult, AcceptVectorResult, AcceptFailure, sweep, requeue | vectors are written before the rows, outside their transaction | an embedded chunk has its vector; leases as in the frontier |
| Rechunk (`rechunk.go`) | a cursor and a limit | list a page, replace a document's chunks, delete their points | runs beside the registry; replaces leased rows and races with extraction | a document's chunks are one cut of one text |
| Worker registry (`worker_repo.go`, `http/auth.go`) | `workers` | create, ban, unban, release, capabilities, cap | requests let in before a ban; ban and release are two statements | a banned worker ends up with nothing |
| CLI (`cmd/registry/main.go`) | none | all operator commands | a separate process on the same database | |
| Client loops (`cmd/*`) | jobs in memory, by goroutine and channel | reserve, work, heartbeat, post, stop | lost answers, signals, several jobs at once, a pool that reserves ahead | bounded work in hand, no job kept, a stop that stops; and nothing they send can hurt |
| Parts of a job (`ocrworker`, `embedworker`) | pages, sub-batches | render, recognise, embed | parallel parts that fail, end out of order or come back short | no page missing, no vector on another's chunk |
| Listings (`litekoworker`, `unicrawler`) | the page the walk is at | click, post back, scroll, next number | a division, blocks of buttons, a list that grows | every case is found, and the walk ends |
| Chunker and its settings (`chunker.go`, `collection_config.go`) | none | Split, ResolveConfig | boundaries, overlaps, odd sizes | cores partition the text, windows are what the comments promise |
| Tokenizer, canonical URLs, HTML stripping | none | pure functions of libraries | | outside the core |
| Search, full text, quickwit, stanza, embedding clients | external services | reads, a mirror | | outside the core |

The components interact only through the database, the blob store and the HTTP
calls; there are no callbacks.  `PROJECT.json` lists every component with what is
modelled of it, and under "hazards" what in this code is hard to test.

## 2. Modules

| Module | Content |
|---|---|
| `Frontier` | the crawl queue: tables, reserve, answers, discovered links, sweeper, operator |
| `LeaseQueue` | what a leased queue promises, abstractly |
| `FrontierQueue` | the refinement mapping from `Frontier` to `LeaseQueue` |
| `CrawlIngest` | extends `Frontier`: AcceptResult step by step over blob store, lake, queue and triggers, with the migrator beside it; refines `Frontier` |
| `TaskQueue` | `processing_jobs` with its two consumers: external workers under leases, the registry's pipeline without; extraction, chunks, outputs, follow-ups |
| `TaskLeases` | the refinement mapping from the external part of `TaskQueue` to `LeaseQueue` |
| `EmbedQueue` | `document_chunks` with extraction, embed workers, the vector store and the rechunk command |
| `EmbedLeases` | the refinement mapping from `EmbedQueue` to `LeaseQueue` |
| `WorkerPool` | the registry as one worker meets it: bans, leases, requests from their check to their effect |
| `Workers` | extends `WorkerPool`: the loops of the nine client programs |
| `Chunker` | `Split` and the sizes it is given, with the contract its comments state |
| `JobParts` | the pages of a PDF; the sub-batches of a batch of texts |
| `Listing` | the walk of a paged listing, five kinds of pagination |
| `MCFrontier`, `MCCrawlIngest`, `MCTaskQueue`, `MCEmbedQueue`, `MCRechunk`, `MCWorkers`, `MCParts` | small instances for TLC |
| `FrontierProofs` | types; what a step does to a row; lease shape, bound, what a sweep leaves, no theft, settled rows |
| `FrontierReserveProofs` | the cap on held leases, and the host's crawl delay on SQLite and on MySQL |
| `FrontierQueueProofs` | `Frontier` implements `LeaseQueue` on SQLite |
| `CrawlIngestProofs` | types, stored pages, what becomes of a row's bytes, one firing per acceptance, and the refinements of `Frontier` and, with `FrontierQueueProofs`, of `LeaseQueue` |
| `TaskQueueProofs` | types, leases, sweeps, stranded rows, settled and stored tasks, and the refinement of `LeaseQueue` for the processing queue |
| `EmbedQueueProofs` | types, leases, sweeps, settled and replaced chunks, searchable chunks, one cut per document, and the refinement of `LeaseQueue` for the chunks |
| `WorkersProofs` | types of the clients' programs, the bound on what they hold, what they wait for, where a job goes, what a ban leaves |
| `PartsProofs` | chunks, pages, vectors and listings come out whole, for every text, PDF, batch and site; every turn of a walk brings its end nearer |

The three queues are modelled apart, since each works on tables of its own; they share
the abstract `LeaseQueue`, which each is shown to implement.  What connects them is in
`CrawlIngest` and `TaskQueue` (a result enqueues tasks) and in `EmbedQueue` (an
extraction adds chunks).  The clients need less of a queue than any of the three, and
`WorkerPool` is that much of the jobs endpoints, which the others resemble.

### Frontier

`row` and `domain` are the two tables, `issued` the tokens handed out, `now` the
clock.  An HTTP handler is not one step: it reads the clock and verifies the
token, then waits for the database writer.  So `ReserveBegin` and `AnswerBegin`
put a call into `reserving` or `answering` with the time it read, and a later
action commits it.  A worker may send any token it was ever given any number of
times: lost, late and duplicated answers need no actions of their own, and
`CallFails` lets a call end without effect (a hang-up, a database error, a
registry that is killed).  Which answer a call is (heartbeat, result, fail) is
chosen when it commits, since all three verify the token alike.

| Actions | Code |
|---|---|
| `ReserveBegin` | `JobsHandler.Reserve`, `effectiveBatch`, first lines of `FrontierRepo.Reserve` |
| `ReserveCommit` (SQLite), `ReservePick`/`ReserveLease` (MySQL) | the transaction of `FrontierRepo.Reserve`: eligible rows, `ROW_NUMBER` per host, `LIMIT`, leases, `last_request_at` |
| `AnswerBegin`, `Heartbeat`, `Complete` | service `Verify`, then the one UPDATE guarded by status and token |
| `Fail` (SQLite), `FailRead`/`FailWrite` (MySQL) | `FrontierRepo.Fail` |
| `ScopeLink`, `EnqueueMany` | `enqueueDiscovered`, one host look-up at a time, then one insert |
| `SweepExpired`, `RequeueByFilter` | sweeper goroutine, `requeue-frontier` |
| `SeedDomain`, `Enqueue`, `SetActive`, `UpdateCrawlDelay`, `UpdateParallelFetches`, `UpdateRequiredCapability` | the CLI commands |

**Databases.**  With SQLite there is one writer connection, and a second process
that upgrades a read to a write is refused, so a transaction is one step.  With
MySQL (default isolation, a pool of writers) reads come from a snapshot and other
transactions commit before the updates: Reserve checks the status again in its
UPDATE, Fail does not.  PostgreSQL is not modelled: its `domains.is_active` is
BOOLEAN (`migrations/postgres/0001_init.sql:7`) and the pick compares it with the
integer 1 (`frontier_repo.go:332`), which PostgreSQL has no operator for, so every
reserve is an error there.  On MySQL the model assumes that the session's time
zone is UTC, as `NOW()` is compared with stored UTC times.

**Abstractions.**  A URL is its canonical form; depth limits and malformed links
are links dropped by `ScopeLink`; `max_attempts` is one constant, as all callers
pass 5; HTTP status and error texts, the scheme and the embedding collection of a
host are left out because no decision reads them; the HMAC is unforgeable.
`served` is a history variable (when a host's last lease was committed).

### CrawlIngest

`AcceptResult` writes the blob (`PutBlob`), the lake row (`InsertLake`), the queue
row (`CompleteResult`), then fires the triggers (`FireTrigger`) and looks at the
links (`StartLinks`); a handler may die between any two (`IngestFails`).  Blobs are
kept per backend under the URL and the extension that `ExtFor` gives the content type, as
`storageKey` builds them: many types share one, so contents of one page may share a key
(`Twins`) even when their types differ.
The migrator reads a row's bytes, puts them into the other store (which verifies
the row's sha256), switches the row, and deletes the source when told to.

### TaskQueue

`job` is `processing_jobs`; `lake`, `document` and `chunks` are what the other
tables say of an object, as far as this queue writes them.  Reserves and answers
are as in `Frontier`.  A result is a sequence of transactions:

| Actions | Code |
|---|---|
| `ReserveBegin`, `ReserveBatch` | `TasksHandler.Reserve`, `ProcessingRepo.ReserveBatch` |
| `AnswerBegin`, `Heartbeat`, `Fail` | `TaskSvc`, then one transaction of `ProcessingRepo` |
| `UpsertText`, `InsertChunks`, `Complete` | `AcceptText` |
| `StoreOutput`, `Complete`, `EnqueueNext`, `FireTrigger` | `AcceptBlob` |
| `ClaimNext`, `Extract`, `WriteChunks`, `MarkDone`, `MarkFailed` | the pipeline goroutine |
| `SweepExpired`, `RequeueByFilter`, `Enqueue` | sweeper goroutine, `requeue-tasks`, crawl triggers and `reprocess` |
| `CallFails`, `Crash` | a handler that ends early; a registry that is killed |

The pipeline is one goroutine, so it works on one row; it closes it by id, and the
operator may have requeued the row in between.  A text is a model value, and so is
the list of chunks cut from it; the one distinction is whether there is anything in it.
Converting an object yields one object.  The pipeline's arms for PDF and DOCX are
unreachable, because
`InternalProcessors` is fixed to the two others.  Transactions are SQLite's; the
split `Fail` of MySQL is shown on the frontier, whose code is the same.

### EmbedQueue

`doc` is `extracted_documents`, `chunk` the rows by UUID (drawn in order, never reused;
a replaced row is `deleted`), `points` the vector store.  A document is its text and its
collection, and a cut of a text at a size has `Pieces` chunks, numbered from 1.

| Actions | Code |
|---|---|
| `UpsertText`, `InsertMany` | the extraction of a text and `StoreChunks`, two transactions; of the pipeline and of text results alike |
| `ReserveBegin`, `ReserveBatch` | `EmbedHandler.Reserve`, `ChunkRepo.Reserve` |
| `AnswerBegin`, `LoadContext`, `Upsert`, `MarkEmbedded` | `AcceptVectorResult`: verify, context, collection and point, then the guarded UPDATE |
| `MarkEmbedded` at "verified", `MarkEmbedFailed` | `AcceptResult` of the old protocol, `AcceptFailure` |
| `RechunkBegin`, `RechunkList`, `ReplaceByDocument`, `DeletePoints`, `RechunkEnds` | `RechunkSvc.Rechunk` |
| `SweepExpired`, `RequeueByFilter`, `CallFails` | sweeper, `requeue-chunks`, handlers that end early |

The items of one request are handled one by one in the code as well, so an item is a
call.  A chunk is cut at the sizes its collection has at that time, which
the operator may change: `InsertMany` and `ReplaceByDocument` take any size.

### WorkerPool and Workers

`WorkerPool` has one worker, its rows, and `calls`: its requests that the registry has
not finished.  Every request is let in (`Admit`, the PAT check) and takes effect later
(`Grant`, `Answer`), so a ban may come between.  The answer of a call may be lost (`told`,
`CallEnds`), and a call the client gave up may still take effect (`waited`).  Time is what
is left of a lease.

`Workers` adds the programs.  Each is a record: the steps of its work with the failures
each may end in, how many jobs run at once, whether it reserves ahead (a channel and a
pool), posts a batch together, sends heartbeats, has a deadline, or exits on a signal, and
which of its steps may hang.  The agent's tasks and the task worker run `sh -c` with
buffers for its output and without `WaitDelay` (`agent/main.go:586`,
`taskworker/main.go:224`): `exec-timeout` kills the shell, and `Run` waits on for any child
that holds the pipes.  The selenium crawler's calls of the browser know neither the context
nor a client timeout (`unicrawler/worker.go:209`).
The nine records are `CrawlLoop`, `TaskLoop`, `EmbedLoop` (the agent's goroutines), and
`CrawlWorker`, `LitekoWorker`, `Unicrawler`, `TaskWorker`, `OcrWorker`, `EmbedWorker`.
`hand` says where in the program each token is, `loop` where the loop is.  Capabilities
and the cap are left to the queues' modules; the agent's three loops share a context
and nothing else, so each is a program of its own.

### Chunker, JobParts, Listing

`Chunker` turns the two loops of `Split` one at a time; a text is the number of its
tokens.  `JobParts` has `ocrAllPages` with gs and tesseract failing or timing out at any
page, and `embedFleet` with replies that are short, fail, or hold empty vectors.  `Listing` has a site of
numbered cases that may grow, and a walk over it: the liteko worker's post-backs, and
the crawler's numbered buttons, next button, infinite scroll and URL parameter.  The
site is external, modelled by what the walks rely on; `trouble` marks a walk on which it
did not serve what it has.  Numbered buttons are those of the liteko pager.

## 3. Runs

| Run | Question | Instance |
|---|---|---|
| `frontier_leases` | Are leases whole, bounded and capped, and is this a lease queue? | SQLite, 2 workers, 2 URLs of 1 host, width 2, cap 1, TTL of half a second, requeue of any status; symmetric in workers and URLs |
| `frontier_hosts` | Is a host spared, and do settled rows stay settled? | SQLite, 1 worker with 2 reserves in flight, a link from one page to the other, unknown hosts added, operator edits of width and activity, crawl delay of 2 s, TTL of 3 s |
| `frontier_mysql` | With interleaved transactions, is no lease stolen, and does every lease end? | MySQL, 2 workers of different capabilities, 1 URL, edits of delay and capability, requeue of leased rows; fairness |
| `ingest` | Does a done page exist, to what does a row lose its bytes, do triggers fire once? Is it still the queue? | SQLite, 1 URL with 2 bodies of types `application/xml` and `text/xml`, which share an extension, 1 trigger for both, migrator running with `--delete-src`, requeue of any status; symmetric in bodies |
| `tasks` | Are task leases whole, is done work stored and final, who leaves a row running with nobody on it, and is this a lease queue beside the pipeline? | SQLite, 1 worker capped at 1 task with 2 calls in flight, a file converted to a page, 1 internal and 1 external kind, 2 rows, follow-ups named and triggered, requeue of running rows |
| `embed` | Is what is marked embedded in the store, are leases whole and settled chunks final, and is this a lease queue? | 1 document of 1 chunk, 2 UUIDs, 2 workers capped at 1 lease, a named collection and the default one, 2 calls in flight, 2 leases per chunk, TTL 0, requeue of done chunks, rechunk; symmetric in workers |
| `rechunk` | Are a document's chunks one cut, however extraction and rechunk race? | 2 documents, texts of 1 and of 2 chunks, 4 UUIDs, with and without a collection, pages of 1 document, limits 0 and 1 |
| `workers` | Does a program hold no more than it works on, wait only for requests it made, drop every job, and stop; does a ban end all leases? | 9 programs, 2 jobs, batches of 2, pool and channel of 1, lease and extension of 1 tick, 2 requests let in and 1 given up at a time, crashes, signals, bans, releases |
| `workers_pool` | Does a program that reserves ahead fetch one batch ahead and no more? | as `workers`, for the 3 programs with a pool and 3 jobs, one more than channel and goroutine hold |
| `parts` | Do chunks, pages, vectors and listings come out right? | texts of 0 to 7 tokens, sizes -1 to 3, overlaps -1 to 4 from collection or defaults; 0, 1 or 3 pages, 2 at a time; 1, 4 or 5 texts in sub-batches of 2; sites of 0 to 15 cases, 2 to a page, 3 buttons to a block, 2 added |

Two further runs state what a document of the repository says and show that the code
does otherwise; each checks one property.

| Run | What is shown |
|---|---|
| `frontier_fail_race` | on MySQL a `Fail` that has read its token is overtaken by a sweep and by the other worker's reserve, and then clears that worker's lease |
| `ingest_overwrite` | a page fetched again, with a type of the same extension, overwrites the bytes of its older lake row |

**Bounds.**  One tick is half a second in the frontier runs, the least that shows
the whole-second roundings.  `MaxTime` lets a lease be given, expire, be swept and
be given again, with answers of both holders in flight; `LastReserve` and
`LeaseBound` end the run; two leases per row and two calls in flight are what every
overtaking needs (an answer against a sweep, a reserve against a reserve, a fail
against a new lease).  `MaxWait` bounds how long a reserve waits for the writer; it
is part of the statement of `PoliteUpToSlack`.  Priorities and batch sizes are
single values where no property tells them apart.  Where the clock has stopped and
nothing is left to do, every run still has an enabled step (an operator's command, a
program that starts again, a next text), so deadlock checking stays on.

In `embed` two leases of one chunk with two answers in flight are what every overtaking
needs, as above, and the second UUID is the chunk that replaces the first under its
lease.  In `rechunk` the two texts differ in their number of chunks, since a mix of two
cuts shows only then; two documents and pages of one make the command come back for a
second page.  `workers` needs no clock bound: a token is taken anew when nobody knows it
any more (`Names` of them per job).  `AdmittedBound` and `StaleBound` cap what is under way:
two requests let in are what a ban needs to find a heartbeat beside a reserve, and one that
its client gave up is what may take effect unheard; of those beyond the bound the model says
that they never reached the registry.  Two jobs are the least that tell a batch from its
items.  One goroutine and one place in the channel hold two jobs, so the bound of the
pools could not be exceeded with two: `workers_pool` has a third.  In `parts` seven tokens are a first, an inner and a
last core of every size, overlaps reach past a core, and fifteen cases take a walk of
eight pages through three blocks of buttons.

**Fairness** is assumed in three runs.  In `frontier_mysql` the clock runs (`Tick`)
and the registry's sweeper goroutine, a `time.Ticker` of 30 s that runs as long as the
registry does, keeps sweeping; no worker and no handler is assumed to do anything.  In
`workers` the same, and a program's loop and its goroutines go on (`EndingStep`):
`http.Client.Timeout` ends every call of the registry, and Go's scheduler starves none.
No step that may hang is assumed to end.  That none hangs for ever (`NothingHangs`) is
instead a condition in `EveryJobIsDropped` and `StopsInTheEnd`; for the six programs
without such steps it is no condition.  The registry need not answer, the operator need
not act, and a program need not be started again.  In `parts` a walk goes on, as the browser's and the
client's timeouts end every request.

**The properties.**  `LeaseShape`: the three lease columns are set together, by
every statement that touches them.  `LeaseBounded`: heartbeats cannot stretch a
lease beyond what was signed, plus one heartbeat or the rounding of a second.
`HeldWithinCap`: the cap for each reserve a worker keeps in flight.  `PoliteUpToSlack`: the
delay is kept up to a slack that names its two causes.  `SettledIsFinal`: done and
dead rows are reopened by nothing but the operator.  `NoStolenLease`,
`EveryLeaseEnds`, `ImplementsLeaseQueue`.  `DoneIsStored`, `FiredOncePerAcceptance`,
`ImplementsFrontier` for the ingest pipeline.  `BytesAreLostToTwinsOnly` for the pipeline
and the migrator together: `RowTellsWhereBytesLive`, which the documents promise, is false
where two rows share a key, and this says that it is false nowhere else, and of what is
found instead: the other content, or nothing once the migrator deleted it.
For tasks, `LeaseShape` says besides that no lease sits on a row of the pipeline
(for workers that name external kinds, see section 5), `DoneIsStored` that done work
has its text or output, `OnlyFailuresStrand` that a row runs with nobody on it only after a
crash or a refused write of the pipeline, and then until the operator requeues it, and
`ImplementsLeaseQueue` that the rows of external kinds
are a leased queue whatever the pipeline does.

`SettledIsFinal` for tasks is checked for workers that name external kinds;
`ReopenedOnlyIfShared` says what becomes of it without that (section 4).

`EmbeddedIsSearchable`: a chunk marked with a place in the vector store has its point
there; what keeps it true is that points are deleted only for chunks that were replaced
before, in a transaction that committed.  (The converse does not hold, see section 5.)
`ChunksAreOneCut` is the rechunk spec's "never a mix", with extractions racing: it rests
on `InsertMany` adding all or nothing under the unique index and on UUIDs drawn per cut.
`InHandIsBounded`, `EveryJobIsDropped`, `StopsInTheEnd` are about the clients' goroutines;
`WaitsAreForCalls` is why these do not wait for ever: each waits for one request that is
under way, and that ends by its timeout.  `BanEndsLeases` needs both the check before every request and the token's signed expiry,
since what was let in before the ban still leases and prolongs.
`PostedIsWhole` and `VectorsMatchTexts` are about the parts of a job, `WalkIsComplete` and
`WalkEnds` about listings: complete when at most one case is added during the walk (a
second one may push a case past the last page counted), ending unless the site serves
every number of a URL parameter.  `VectorsMatchTexts` allows the empty vector that a
service gave: the worker posts it, and the registry refuses it (section 5).
`SplitMatchesContract` compares `Split` with what its
comments promise, token by token, the overlaps as they were configured; where one is
negative the code and its comment disagree (section 5), and only the number of chunks and
their cores are compared.

Some properties are proved and in no run; TLC checked each once, on the instance of
their module's run or one like it.  `SweepsReclaim` (frontier, tasks): a sweep leaves no
row leased by a token that ran out longer ago than `LeaseSlack`; with a sweeper that runs
this is the safety half of `EveryLeaseEnds`.  `LeaseBounded` for tasks.
`SweepsFollowTokens`: of chunks, whose leases nothing extends, a sweep takes none whose
vector would still be accepted.  `ReopenedOnlyIfShared`, on an instance of `tasks` whose
workers ask for any kind or for the pipeline's.  `ReplacedAreGone`: nothing writes to a chunk that was
replaced.  `EarlyOnlyTogether`: on MySQL, where `PoliteUpToSlack` fails, only reserves
in flight together serve a host early.  `BanRunsDown`, `JobsGoForward` and `WalkRunsDown`
are the safety halves of `BanEndsLeases`, `EveryJobIsDropped` and `WalkEnds`: under a ban
the requests that still lease or prolong are used up and none is added, a job only moves on, and every turn of a walk
leaves it fewer turns (`StepsLeft`).

## 4. Proofs

TLC says nothing about three workers or a longer clock.  The theorems below hold for
every value of the constants under the assumptions that the modules name (the set of
URLs is finite, times, counts and sizes are naturals, positive where the code divides
by them, NULL is no value of a column).

| Theorem | For | Argument |
|---|---|---|
| `Typing` | both databases | one step per action |
| `WholeLeases` | both | `LeaseShape` is inductive given types |
| `BoundedLeases` | both | strengthened by `AnswersInTime`: an answer in flight read the clock before its token expired, so a heartbeat's new expiry is within one extension of the token |
| `LeasesAreNotStolen` | both | the lease update checks the status |
| `SettledRowsStay` | SQLite | a settled row has no token, so no answer matches it |
| `SweepsTakeRowsBack` | both | from `BoundedLeases`: what a sweep leaves has an expiry to come, and that is near its token's |
| `CapIsKept` | both, any number of reserves in flight | strengthened by `RoomKept`: what is held and what a worker's reserves in flight were granted (`Granting`) are together within the cap for each; a reserve takes its own grant away when it commits |
| `HostsAreSparedOnSQLite` | SQLite | strengthened by `ReservesInTime` and `ServedIsKnown`: the stored time is at most `MaxWait` older than the commit; `DivGap` bounds what whole seconds lose |
| `OnlyRacesServeEarly` | both, while the operator leaves the delays alone | the invariants of `HostsAreSparedOnSQLite`, with `PicksInTime`: a host that a reserve has picked would be served too early only if it was served since the reserve read its clock |
| `FrontierIsALeaseQueue` | SQLite | every row's step is a step of the abstract item |
| `IngestTyping` | both | with `MoverAtWork`: the migrator past its start has a lake row in hand |
| `DoneRowsAreStored` | both | strengthened by `IndexedIsStored`: a call past its indexing has its page in the lake, which only grows |
| `RowsTellTheirBytes` | any contents and types, with and without `--delete-src` | strengthened by `Accounted`: what a call has put and its row does not name yet is under its key or lost to a twin, what the mover copied is the object's own, and it deletes only what its row no longer names |
| `RowsHaveBytes` | no `--delete-src` | from `RowsTellTheirBytes`: without deletions what a row finds is its own or a twin's |
| `PagesAreFiredOnce` | both | strengthened by `FiredOrPending`: jobs made and firings to come are at most the acceptances |
| `IngestIsAFrontier` | both | strengthened by `OneResultPerCall`, `CallsFinite` and `UsedUp`: a lease that is over never comes back; the links a call still has to enqueue are the frontier's pending ones |
| `WholeLeasesBesideIngest` | both | the frontier's step lemma for its own steps and for `CompleteResult`; the other writes of AcceptResult leave the rows alone |
| `IngestIsALeaseQueue` | SQLite | every step's effect on a row (`PipelineRowStep`) is one that `RowIsItem` maps to the abstract item |
| `TaskTyping` | SQLite | with `Known`: tokens, calls and the pipeline refer to rows that exist, and the pipeline to rows of its kinds |
| `WholeTaskLeases` | requests for external kinds | the reserve's kinds keep workers off the pipeline's rows, `Known` keeps the pipeline off the others |
| `SettledTasksStay` | any requests | strengthened by `OuterLeased`: a row of an external kind has a token only while it runs; a row of the pipeline's kinds is reopened besides by a fail whose token is still on it, or by the pipeline working on it |
| `SettledStayWithExternalRequests` | requests for external kinds | strengthened by `PipelineRow`: nobody settles the row the pipeline works on |
| `DoneTasksAreStored` | any requests | strengthened by `StoredSoFar`: a call has written all that precedes its stage, and nothing is lost again (`NothingIsLost`) |
| `OnlyFailuresLeaveRowsRunning` | any requests | strengthened by `LeaseColumns`; every way in which the pipeline lets go of its row (`LettingGo`), and every way a row comes to run |
| `BoundedTaskLeases` | any requests | as `BoundedLeases` |
| `SweepsTakeTasksBack` | any requests | as `SweepsTakeRowsBack` |
| `TasksAreALeaseQueue` | requests for external kinds | rows of external kinds step as abstract items, the others never leave "absent" |
| `EmbedTyping` | SQLite | with `Known`: calls, tokens and the rechunk command refer to rows that were drawn |
| `WholeEmbedLeases` | SQLite | `LeaseShape` is inductive given types |
| `SettledChunksStay` | SQLite | a settled chunk has no token, so no answer matches it, and the sweeper wants it leased |
| `SweepsFollowTheToken` | SQLite | strengthened by `TimedLease`: the row's expiry is within the second that its token names (`WholeSeconds`) |
| `ReplacedChunksAreGone` | SQLite | by the cases of `ChunkStep`: a deleted chunk has no token, and a filter skips it |
| `MarkedChunksAreSearchable` | SQLite, any vector store that keeps what it was told | strengthened: a call past its upsert has its point unless the chunk was deleted, what rechunk is about to delete belongs to deleted chunks, and a deleted chunk never comes back |
| `ChunksAreALeaseQueue` | SQLite | every chunk's step is a step of the abstract item |
| `DocumentsAreOneCut` | SQLite | a cut takes a fresh run of UUIDs; the live chunks of a document are one run or none |
| `TokensArePartitioned` | every text and configuration | strengthened by `SplitInv`: the sizes in use are positive, the cores cut so far are the first multiples of the size, and each chunk made so far holds its core |
| `SplitsAreAsPromised` | every text and configuration, for the windows without negative overlaps | strengthened by `Exact`: core i is the i-th multiple of the size, its chunk the window around it, with the overlaps given as far as a core goes (`AsGiven`); their number is then the rounded-up quotient |
| `TextsAreWhole` | every PDF | strengthened by `PdfKnown`: a page that has ended has its whole text in its file or an error to its name |
| `VectorsAreTheirTexts` | every batch, sub-batch size and fleet | strengthened by `BatchKnown`: a result is its own text's vector, an empty one or a failure, a group that goes on text by text has those before it, a finished one has all; and every text is in a group |
| `WalksAreComplete` | every site, page size and block of buttons, no page limit, at most one case added | strengthened by `WalkKnown`: a walk over buttons is at the page its counter says, and the newest `at * PerPage` cases are found; a scroll that brings nothing is late as often as it is idle; `NextButton` shows that the button computed leads to the next page, and `EnoughPages` that the pages of a rounded-down quotient hold one case more than there were |
| `WalksRunDown` | every site, total, page size and limit; a URL parameter with a limit or a site that refuses | strengthened by `BetweenRounds`: a scroll saw no more elements before than now, and is idle for less than its limit |
| `WorkersTyping` | every program | with `StepIsKnown`: a job is at a step its program has |
| `HandsAreBounded` | every program, with or without a pool | strengthened by `HandsKept`: one reserve is under way at most, a program without a pool has jobs only while it works on its batch, and a pool's channel and goroutines each hold `Conc` at most |
| `NobodyWaitsForNothing` | every program | with `ReservesAreBlank`: a reserve carries no token, so no post is mistaken for it |
| `BansRunDown` | every program | by the steps of the registry, the loop and the jobs: only a request that was let in leases or prolongs, and it is gone then (`Admitted` is finite) |
| `EveryJobGoesForward` | every program | from `WaitsAreForCalls`: a post that is heard of was awaited, so no answer finds a job elsewhere |

The theorems on the frontier but the first rest on `RowStepLemma` (those on tasks on
`JobStepLemma`, those on chunks on `ChunkStepLemma`): whatever the step, a row stays as it is, is granted, extended,
completed, failed, added, swept or requeued.  The invariants are then argued over
these cases.  The restrictions to SQLite are not technical: without them the statements
are false: by the race of `frontier_fail_race` for settled rows and the refinement, by two
reserves that pick one host together for its delay.  Nor is the assumption `ExternalRequests` of
`WholeTaskLeases`, `SettledStayWithExternalRequests` and `TasksAreALeaseQueue`: the
registry does not enforce it (`http/tasks.go:88`).  The task and ocr workers keep it, as they name external
kinds only; the agent does not when it is enabled for `html_strip`, a kind of the
pipeline that its help (`src/cmd/agent/main.go:54`) offers.  The theorems under it are
for deployments that leave the pipeline's kinds to the pipeline (section 5).

Only model-checked: what needs fairness (`EveryLeaseEnds`, `BanEndsLeases`,
`EveryJobIsDropped`, `StopsInTheEnd`, `WalkEnds`), since liveness is out of the prover's
reach; what is proved of them is the safety halves named in section 3, that each step
which fairness promises goes towards the end.  Every invariant, action property and refinement of the runs is proved, under the
conditions in the middle column.

## 5. What is known and not a run

Where the code and a document or comment disagree:

* Two reserves of one worker in flight are both counted before either leases
  (`http/jobs.go:100`), so it holds more than `max_concurrent`, which `README.md:632` says
  the server caps.  `HeldWithinCap` therefore allows the cap for each reserve in flight.
* A heartbeat sets the expiry to now plus the extension (`frontier_repo.go:406`), so with
  the defaults (`cmd/registry/main.go:116`, 10 min, and 60 s) one in the first nine minutes
  shortens the lease; `domain/frontier/repository.go:25` says "extends the lease".
* A heartbeat cannot carry a lease past the expiry its token was signed with, since
  `Verify` then refuses it, so a command longer than the lease's TTL loses it;
  `eidos/spec - cmd - taskworker generic shell-out.md:21` says "Long-running commands keep
  their lease alive".
* A row the pipeline works on when the registry is killed stays running, as it has no
  expiry for the sweeper to compare (`processing_repo.go:408`);
  `eidos/spec - domain - processing jobs + capability dispatch.md:44` says "sweeper reclaims
  `running` rows on next tick".
* `InsertMany` refuses chunks whose index is taken (`chunk_repo.go:38`), so a text result
  sent again never completes its task; the comment at line 21 says "ignores rows".
* A signal cancels the context that the work and its post use, so jobs in hand are
  dropped and not posted; the specs of the agent (line 21), the crawl worker (line 21), the
  liteko worker (line 22) and the crawler (line 24) say they drain.  `Cancelled` is that.
* Negative overlaps become 0 (`chunker.go:68`); the comment at line 55 says Defaults.
  `SplitMatchesContract` promises nothing of the windows then.
* `exec-timeout` bounds the command's shell and not the call: `Run` waits while a child of
  the shell holds its output (`agent/main.go:590`, `taskworker/main.go:228`), and the task
  worker's heartbeats go on meanwhile, until the token's own expiry.  A browser that does not
  answer holds a goroutine of the crawler, and with it `wg.Wait` at the end of `runRunCmd`
  (`unicrawler/worker.go:167`).
* `README.md:635` names a "60s lease TTL"; the default is 10 minutes.

Other things the models show or were built around:

* `requeue-frontier --domain` also reopens done rows, while
  `internal/domain/frontier/repository.go:55` says that no status means "any non-done".
* A page that kills its worker is retried without end: the sweeper does not look at
  the attempts (the model needs `LeaseBound` for that reason).
* A crash between Complete and Fire loses the triggers and the links of a page.
* On MySQL two reserves in flight may serve one host together; only such a race serves a
  host early (`OnlyRacesServeEarly`).
* Every reserve fails on PostgreSQL (section 2).
* On SQLite politeness subtracts whole seconds, so a host may be served up to a second
  before its delay has passed; `PoliteUpToSlack` names that second.
* With `--delete-src`, moving one of two lake rows that share a key deletes the other's
  blob; no concurrent write is needed.  `BytesAreLostToTwinsOnly` allows just that.
* A service that answers a sub-batch with as many vectors as there were texts, one of them
  empty, is believed (`embedworker/main.go:260`, which looks at the number only; the way for
  single texts looks at the vector as well, line 281).  The registry refuses that item
  (`http/embed.go:135-142`), and its chunk waits for its lease to expire.
* A request that was let in before a ban still takes effect after it: a heartbeat prolongs a
  lease, a reserve leases a batch.
* A task reserve that names no kinds skips the capability check and is given the
  pipeline's rows; an agent enabled for `html_strip` asks for them by name.  If the
  pipeline had claimed such a row before a requeue, its closing write, by id, leaves a
  settled row with a lease, which `Fail`, looking at the token only, may reopen.
* When the follow-up a worker named cannot be enqueued, the triggers of the blob do not
  fire, and the task is done already.
* Nothing stops two jobs of one kind for one object, except in `reprocess`.
* Rechunking the default bucket deletes no points (`rechunk.go:165`), and a vector result
  that loaded its chunk before a rechunk puts the point back: points without a chunk remain.
* Rechunk cuts the texts of the page it listed (`rechunk.go:131`), so a newer text that an
  extraction stores in between, with its chunks, ends up with the older one's chunks.
* A vector result whose lease was given away still replaces the chunk's point before its
  update is refused; the point is the same chunk's, so only the model's version may differ.
* A page of a `url_param` listing that fails to load ends the walk as if it were the last.

## 6. Not modelled, and what is left

Not modelled:

* HTML stripping, canonical URLs, the tokenizer: functions of text by third-party
  libraries, without state; the queues depend only on their being functions.
* Search, full text, quickwit: read paths, and a mirror whose errors are only logged and that
  nothing in the queues reads.
* Commands that list or edit triggers, collections and workers, and the migrations: single
  statements, or declarative.
* The trigger cache: it decides which kinds are enqueued, and the queue is checked for
  fixed sets of kinds.
* PostgreSQL, where every reserve is an error (section 2), and MySQL for tasks and chunks.
* Of the clients: what a job computes, the merging of fields and the extraction rules of
  the selenium crawler, its linear button numbers, and the scratch directories.

Left to do, most useful first:

1. `Workers` with the queue's capabilities and cap, and two workers on one queue.
2. The tasks and chunks of MySQL, whose transactions interleave.
3. Proofs: that the rows of `WorkerPool` step as items of `LeaseQueue`; that batches and
   PDFs run down as walks do.
