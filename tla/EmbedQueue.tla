----------------------------- MODULE EmbedQueue -----------------------------
(***************************************************************************)
(* The embedding queue: the chunks of every document, leased to embed      *)
(* workers whose vectors the registry puts into a vector store before it   *)
(* marks the chunk.  Meanwhile extractions add chunks and the operator's   *)
(* rechunk command, a process of its own, replaces them.                   *)
(*                                                                         *)
(* The database is SQLite, whose one writer makes every transaction a      *)
(* step; the vector store takes part in none of them.                      *)
(***************************************************************************)
EXTENDS Integers, FiniteSets

CONSTANTS
  MaxDocs,                  \* documents, numbered in the order of their rows
  Text, Size, Pieces,       \* texts, sizings, and the pieces a cut yields
  Coll, Default,            \* named collections; where points without one go
  Hints,                    \* the collections the resolver finds for a document
  Worker,
  None,                     \* SQL NULL, the zero field of a filter, "no value"
  TicksPerSecond,           \* one tick of the model is a fraction of a second
  LeaseTTL, MaxAttempts,
  MaxConcurrent,            \* the workers' cap on held leases, 0: unlimited
  Batches,                  \* the batch a reserve may ask for
  PageSize, Limits,         \* documents rechunk lists at once; its --limit
  RequeueFilters            \* the filters the operator requeues by

\* Bounds of the model, none of them in the code.
CONSTANTS
  MaxChunks,                \* UUIDs drawn for chunks
  MaxTime, LastBegin,       \* the clock stops; no new work begins after
  MaxCalls,                 \* calls in flight together
  LeaseBound                \* times one chunk is leased

Doc == 1..MaxDocs
Id == 1..MaxChunks
Store == Coll \cup {Default}
Settled == {"done", "failed"}
Status == {"absent", "pending", "leased", "deleted"} \cup Settled
Token == [id : Id, worker : Worker, exp : Nat]
Filter == [status : Status \cup {None}, worker : Worker \cup {None},
           doc : Doc \cup {None}]

ASSUME TextAssumption ==
  /\ Pieces \in [Text \X Size -> Nat] /\ Hints \subseteq Coll \cup {None}
ASSUME NullAssumption ==
  /\ None \notin Text /\ None \notin Size /\ None \notin Coll /\ Default # None
  /\ "elsewhere" \notin Store
  /\ None \notin Worker /\ None \notin Token /\ None \notin Nat /\ None \notin Status
ASSUME NumberAssumption ==
  /\ TicksPerSecond \in Nat \ {0}
  /\ LeaseTTL \in Nat /\ MaxAttempts \in Nat /\ MaxConcurrent \in Nat
  /\ Batches \subseteq Nat \ {0} /\ PageSize \in Nat \ {0} /\ Limits \subseteq Nat
  /\ MaxDocs \in Nat /\ MaxChunks \in Nat /\ MaxTime \in Nat
  /\ LastBegin \in Nat /\ MaxCalls \in Nat /\ LeaseBound \in Nat
ASSUME FilterAssumption == RequeueFilters \subseteq Filter

VARIABLES
  now,        \* the clock
  doc,        \* extracted_documents: text and collection
  chunk,      \* document_chunks, by id
  drawn,      \* the UUIDs drawn so far are 1..drawn
  points,     \* the vector store: the ids each collection has a point for
  issued,     \* the tokens handed out so far
  reserving,  \* reserve calls in flight
  answering,  \* embed results in flight
  inserting,  \* extractions whose text is stored and whose chunks are not
  rechunk     \* the rechunk command

vars == <<now, doc, chunk, drawn, points, issued, reserving, answering,
          inserting, rechunk>>

Document == [text : Text \cup {None}, coll : Coll \cup {None}]
Chunk == [doc : Doc \cup {None}, index : Nat, text : Text \cup {None},
          size : Size \cup {None}, status : Status, attempts : Nat,
          token : Token \cup {None}, holder : Worker \cup {None},
          expires : Nat \cup {None}, vector : Store \cup {None, "elsewhere"}]
ReserveCall == [worker : Worker, batch : Nat, at : Nat]
\* coll: where the vector goes, known once the chunk's context is loaded.
AnswerCall == [token : Token, stage : {"verified", "loaded", "stored"},
               coll : Store \cup {None}]
InsertCall == [doc : Doc, text : Text]
\* more: a further page is listed; todo: what is left of the listed one;
\* stale: replaced chunks whose points are to be deleted.
Rechunk == [coll : Coll \cup {None}, since : Nat, left : Nat, more : BOOLEAN,
            todo : SUBSET InsertCall, stale : SUBSET Id]

TypeOK ==
  /\ now \in 0..MaxTime
  /\ doc \in [Doc -> Document]
  /\ chunk \in [Id -> Chunk]
  /\ drawn \in 0..MaxChunks
  /\ points \in [Store -> SUBSET Id]
  /\ issued \subseteq Token
  /\ reserving \subseteq ReserveCall
  /\ answering \subseteq AnswerCall
  /\ inserting \subseteq InsertCall
  /\ rechunk \in Rechunk \cup {None}

NoChunk == [doc |-> None, index |-> 0, text |-> None, size |-> None,
            status |-> "absent", attempts |-> 0, token |-> None, holder |-> None,
            expires |-> None, vector |-> None]

Init ==
  /\ now = 0
  /\ doc = [d \in Doc |-> [text |-> None, coll |-> None]]
  /\ chunk = [i \in Id |-> NoChunk]
  /\ drawn = 0
  /\ points = [c \in Store |-> {}]
  /\ issued = {} /\ reserving = {} /\ answering = {} /\ inserting = {}
  /\ rechunk = None

-----------------------------------------------------------------------------
(***************************************************************************)
(* The statements the handlers and the commands run.                       *)
(***************************************************************************)

Calls == Cardinality(reserving) + Cardinality(answering) + Cardinality(inserting)

\* ORDER BY ... LIMIT n
Lowest(S, n) == {i \in S : Cardinality({j \in S : j < i}) < n}

Live(d) == {i \in Id : chunk[i].doc = d /\ chunk[i].status # "deleted"}

\* The chunks of text x of document d cut at size z have drawn UUIDs in a row;
\* those with an index in K become rows.
Cut(i, d, x, z) == [NoChunk EXCEPT !.doc = d, !.index = i - drawn, !.text = x,
                                   !.size = z, !.status = "pending"]
Draws(x, z) == /\ drawn + Pieces[x, z] <= MaxChunks
               /\ drawn' = drawn + Pieces[x, z]
WithCut(rows, d, x, z, K) ==
  [i \in Id |-> IF i - drawn \in K THEN Cut(i, d, x, z) ELSE rows[i]]

UnleasedKeepingExpiry(r, s) == [r EXCEPT !.status = s, !.token = None, !.holder = None]
Unleased(r, s) == [r EXCEPT !.status = s, !.token = None, !.holder = None,
                            !.expires = None]

\* The lease's HMAC expiry, compared with the clock of the handler.
Verify(t) == t \in issued /\ now <= t.exp * TicksPerSecond

\* WHERE id = ? AND embed_status = 'leased' AND lease_token = ?
HoldsAnyToken(t) == chunk[t.id].status = "leased"
Holds(t) == chunk[t.id].status = "leased" /\ chunk[t.id].token = t

Held(w) == {i \in Id : chunk[i].status = "leased" /\ chunk[i].holder = w}
EffectiveBatch(w, n) ==
  LET room == MaxConcurrent - Cardinality(Held(w))
  IN  IF MaxConcurrent = 0 THEN n
      ELSE IF room < 0 THEN 0
      ELSE IF room < n THEN room ELSE n

StoreOf(c) == IF c = None THEN Default ELSE c

-----------------------------------------------------------------------------
(***************************************************************************)
(* Extraction: a text replaces the document's, then its chunks are added.  *)
(***************************************************************************)

\* Without a collection the document keeps the one it has.
UpsertText(d, x, c) ==
  /\ now <= LastBegin /\ Calls < MaxCalls
  /\ doc' = [doc EXCEPT ![d] = [text |-> x, coll |-> IF c = None THEN @.coll ELSE c]]
  /\ inserting' = inserting \cup {[doc |-> d, text |-> x]}
  /\ UNCHANGED <<now, chunk, drawn, points, issued, reserving, answering, rechunk>>

\* InsertMany knows no conflict: it adds all chunks, or none when an index of
\* the document is taken.
Taken(d) == {chunk[i].index : i \in Live(d)}
AddedBesideTaken(d, x, z) == (1..Pieces[x, z]) \ Taken(d)
Added(d, x, z) == IF Taken(d) \cap 1..Pieces[x, z] = {} THEN 1..Pieces[x, z] ELSE {}

InsertMany(c, z) ==
  /\ Draws(c.text, z)
  /\ chunk' = WithCut(chunk, c.doc, c.text, z, Added(c.doc, c.text, z))
  /\ inserting' = inserting \ {c}
  /\ UNCHANGED <<now, doc, points, issued, reserving, answering, rechunk>>

-----------------------------------------------------------------------------
(***************************************************************************)
(* Reserve.                                                                *)
(***************************************************************************)

ReserveBegin(w, n) ==
  /\ now <= LastBegin /\ Calls < MaxCalls
  /\ EffectiveBatch(w, n) > 0
  /\ reserving' = reserving \cup
       {[worker |-> w, batch |-> EffectiveBatch(w, n), at |-> now]}
  /\ UNCHANGED <<now, doc, chunk, drawn, points, issued, answering, inserting, rechunk>>

Picks(c) == Lowest({i \in Id : /\ chunk[i].status = "pending"
                               /\ chunk[i].attempts < LeaseBound}, c.batch)

TokenOf(i, c) == [id |-> i, worker |-> c.worker,
                  exp |-> (c.at + LeaseTTL) \div TicksPerSecond]

Leased(r, i, c) ==
  [r EXCEPT !.status = "leased", !.attempts = @ + 1, !.token = TokenOf(i, c),
            !.holder = c.worker, !.expires = c.at + LeaseTTL]

ReserveBatch(c) ==
  /\ chunk' = [i \in Id |-> IF i \in Picks(c) THEN Leased(chunk[i], i, c) ELSE chunk[i]]
  /\ issued' = issued \cup {TokenOf(i, c) : i \in Picks(c)}
  /\ reserving' = reserving \ {c}
  /\ UNCHANGED <<now, doc, drawn, points, answering, inserting, rechunk>>

-----------------------------------------------------------------------------
(***************************************************************************)
(* Results.  The items of one request are handled one after another, as    *)
(* the results of several requests would be.                               *)
(***************************************************************************)

AnswerBegin(t) ==
  /\ Calls < MaxCalls
  /\ Verify(t)
  /\ answering' = answering \cup {[token |-> t, stage |-> "verified", coll |-> None]}
  /\ UNCHANGED <<now, doc, chunk, drawn, points, issued, reserving, inserting, rechunk>>

Ends(c) == answering' = answering \ {c}
Goes(c, d) == answering' = (answering \ {c}) \cup {d}

\* GetContext: a chunk that rechunk deleted is not found.
LoadContext(c) ==
  /\ c.stage = "verified"
  /\ chunk[c.token.id].status # "deleted"
  /\ Goes(c, [c EXCEPT !.stage = "loaded",
                       !.coll = StoreOf(doc[chunk[c.token.id].doc].coll)])
  /\ UNCHANGED <<now, doc, chunk, drawn, points, issued, reserving, inserting, rechunk>>

\* EnsureCollection and Upsert.  The first vector that arrives decides the length
\* of a collection's vectors; the store refuses others, which is a call that fails.
Upsert(c) ==
  /\ c.stage = "loaded"
  /\ points' = [points EXCEPT ![c.coll] = @ \cup {c.token.id}]
  /\ Goes(c, [c EXCEPT !.stage = "stored"])
  /\ UNCHANGED <<now, doc, chunk, drawn, issued, reserving, inserting, rechunk>>

ReadyOnceLoaded(c) == c.stage \in {"loaded", "stored"}
Ready(c) == c.stage = "stored"

\* A worker of the old protocol has put the vector elsewhere itself.
VectorOf(c) == IF c.stage = "verified" THEN "elsewhere" ELSE c.coll

MarkEmbedded(c) ==
  /\ Ready(c) \/ c.stage = "verified"
  /\ chunk' = [chunk EXCEPT ![c.token.id] =
       IF Holds(c.token) THEN [Unleased(@, "done") EXCEPT !.vector = VectorOf(c)] ELSE @]
  /\ Ends(c)
  /\ UNCHANGED <<now, doc, drawn, points, issued, reserving, inserting, rechunk>>

\* The failure looks at the token and not at the status.
FailsAnyway(t) == TRUE
Fails(t) == chunk[t.id].token = t

MarkEmbedFailed(c) ==
  /\ c.stage = "verified"
  /\ chunk' = [chunk EXCEPT ![c.token.id] =
       IF Fails(c.token)
         THEN Unleased(@, IF @.attempts >= MaxAttempts THEN "failed" ELSE "pending")
         ELSE @]
  /\ Ends(c)
  /\ UNCHANGED <<now, doc, drawn, points, issued, reserving, inserting, rechunk>>

-----------------------------------------------------------------------------
(***************************************************************************)
(* The rechunk command.                                                    *)
(***************************************************************************)

RechunkBegin(c, n) ==
  /\ now <= LastBegin /\ rechunk = None
  /\ rechunk' = [coll |-> c, since |-> 0, left |-> n, more |-> TRUE,
                 todo |-> {}, stale |-> {}]
  /\ UNCHANGED <<now, doc, chunk, drawn, points, issued, reserving, answering, inserting>>

\* ListByCollection; without a limit left is 0.
Fetch == IF rechunk.left > 0 /\ rechunk.left < PageSize THEN rechunk.left ELSE PageSize
Page == Lowest({d \in Doc : /\ d > rechunk.since /\ doc[d].text # None
                            /\ doc[d].coll = rechunk.coll}, Fetch)

\* What is left of a limit; 0 is no limit, and none is left of one that is used up.
LeftAfterAnyPage(n) == rechunk.left - n
LeftAfter(n) == IF rechunk.left > n THEN rechunk.left - n ELSE 0

RechunkList ==
  /\ rechunk # None /\ rechunk.more /\ rechunk.todo = {} /\ rechunk.stale = {}
  /\ LET n == Cardinality(Page)
     IN  rechunk' = IF n = 0 THEN None
                    ELSE [rechunk EXCEPT
                            !.todo = {[doc |-> d, text |-> doc[d].text] : d \in Page},
                            !.more = n = Fetch /\ rechunk.left # n,
                            !.left = LeftAfter(n)]
  /\ UNCHANGED <<now, doc, chunk, drawn, points, issued, reserving, answering, inserting>>

\* ReplaceByDocument.  An error leaves the document as it is.
ReplaceByDocument(c, z) ==
  /\ rechunk # None /\ rechunk.stale = {}
  /\ c \in rechunk.todo /\ \A e \in rechunk.todo : c.doc <= e.doc
  /\ Draws(c.text, z)
  /\ \/ /\ chunk' = WithCut([i \in Id |-> IF i \in Live(c.doc)
                                           THEN Unleased(chunk[i], "deleted")
                                           ELSE chunk[i]],
                            c.doc, c.text, z, 1..Pieces[c.text, z])
        /\ rechunk' = [rechunk EXCEPT !.todo = @ \ {c}, !.since = c.doc,
                                      !.stale = IF rechunk.coll = None THEN {}
                                                ELSE Live(c.doc)]
     \/ /\ rechunk' = [rechunk EXCEPT !.todo = @ \ {c}, !.since = c.doc]
        /\ UNCHANGED chunk
  /\ UNCHANGED <<now, doc, points, issued, reserving, answering, inserting>>

\* DeletePoints.  An error is reported and the command goes on.
DeletePoints ==
  /\ rechunk # None /\ rechunk.stale # {}
  /\ \/ points' = [points EXCEPT ![rechunk.coll] = @ \ rechunk.stale]
     \/ UNCHANGED points
  /\ rechunk' = [rechunk EXCEPT !.stale = {}]
  /\ UNCHANGED <<now, doc, chunk, drawn, issued, reserving, answering, inserting>>

\* The last page is done, or the process is killed.
RechunkEnds ==
  /\ rechunk # None
  /\ rechunk' = None
  /\ UNCHANGED <<now, doc, chunk, drawn, points, issued, reserving, answering, inserting>>

-----------------------------------------------------------------------------
(***************************************************************************)
(* The sweeper, the operator and failures.                                 *)
(***************************************************************************)

Expired(i) == chunk[i].status = "leased" /\ chunk[i].expires < now

SweepExpired ==
  /\ chunk' = [i \in Id |-> IF Expired(i) THEN Unleased(chunk[i], "pending") ELSE chunk[i]]
  /\ UNCHANGED <<now, doc, drawn, points, issued, reserving, answering, inserting, rechunk>>

\* Zero fields of the filter constrain nothing.
Matches(i, f) ==
  /\ chunk[i].status \notin {"absent", "deleted"}
  /\ f.status # None => chunk[i].status = f.status
  /\ f.worker # None => chunk[i].holder = f.worker
  /\ f.doc # None => chunk[i].doc = f.doc

RequeueByFilter(f) ==
  /\ chunk' = [i \in Id |-> IF Matches(i, f) THEN Unleased(chunk[i], "pending") ELSE chunk[i]]
  /\ UNCHANGED <<now, doc, drawn, points, issued, reserving, answering, inserting, rechunk>>

\* A call ends without its next effect: the database or the store refuses, the
\* client hangs up, or the registry is killed.
CallFails ==
  /\ \/ \E c \in reserving : reserving' = reserving \ {c}
                             /\ UNCHANGED <<answering, inserting>>
     \/ \E c \in answering : Ends(c) /\ UNCHANGED <<reserving, inserting>>
     \/ \E c \in inserting : inserting' = inserting \ {c}
                             /\ UNCHANGED <<reserving, answering>>
  /\ UNCHANGED <<now, doc, chunk, drawn, points, issued, rechunk>>

Tick ==
  /\ now < MaxTime
  /\ now' = now + 1
  /\ UNCHANGED <<doc, chunk, drawn, points, issued, reserving, answering, inserting, rechunk>>

-----------------------------------------------------------------------------
Extraction == \/ \E d \in Doc, x \in Text, c \in Hints : UpsertText(d, x, c)
              \/ \E c \in inserting, z \in Size : InsertMany(c, z)
Answer == \E c \in answering :
  \/ LoadContext(c) \/ Upsert(c)
  \/ MarkEmbedded(c) \/ MarkEmbedFailed(c)
Rechunking ==
  \/ \E c \in Coll \cup {None}, n \in Limits : RechunkBegin(c, n)
  \/ RechunkList \/ DeletePoints \/ RechunkEnds
  \/ /\ rechunk # None
     /\ \E c \in rechunk.todo, z \in Size : ReplaceByDocument(c, z)
Requeue == \E f \in RequeueFilters : RequeueByFilter(f)

Next ==
  \/ Extraction \/ Answer \/ Rechunking
  \/ \E w \in Worker, n \in Batches : ReserveBegin(w, n)
  \/ \E c \in reserving : ReserveBatch(c)
  \/ \E t \in issued : AnswerBegin(t)
  \/ SweepExpired \/ Requeue \/ CallFails \/ Tick

Spec == Init /\ [][Next]_vars

-----------------------------------------------------------------------------
(***************************************************************************)
(* Properties.                                                             *)
(***************************************************************************)

\* The lease columns of a chunk are set together and only while a worker embeds
\* it: no result, failure, sweep, requeue or rechunk leaves half a lease.
LeaseShape ==
  \A i \in Id :
    /\ chunk[i].token = None <=> chunk[i].holder = None
    /\ chunk[i].token = None <=> chunk[i].expires = None
    /\ chunk[i].token # None <=> chunk[i].status = "leased"
    /\ chunk[i].token # None =>
         /\ chunk[i].token \in issued
         /\ chunk[i].token.id = i /\ chunk[i].token.worker = chunk[i].holder

\* embed.go, AcceptVectorResult: a chunk marked with a place in the vector store
\* has its point there, whichever worker stored it, however often the chunk was
\* leased, and whatever rechunk deletes meanwhile.
EmbeddedIsSearchable ==
  \A i \in Id : chunk[i].status = "done" /\ chunk[i].vector \in Store =>
    i \in points[chunk[i].vector]

\* chunk_repo.go, ReplaceByDocument, and the rechunk spec: a document's chunks are
\* fully old or fully new, never a mix.  They are the whole cut of one text at one
\* size, or there are none, also when extractions race with rechunk.
ChunksAreOneCut ==
  \A d \in Doc : Live(d) = {} \/
    \E x \in Text, z \in Size, before \in 0..MaxChunks :
      /\ Live(d) = before + 1 .. before + Pieces[x, z]
      /\ \A i \in Live(d) : /\ chunk[i].text = x /\ chunk[i].size = z
                            /\ chunk[i].index = i - before

\* A chunk that is embedded or has failed is not embedded again, unless the
\* operator requeues it; a late failure or a sweep never reopens it.  Rechunk
\* may delete it.
SettledIsFinal ==
  [][\/ \A i \in Id : chunk[i].status \in Settled =>
          chunk'[i].status \in {chunk[i].status, "deleted"}
     \/ Requeue]_vars

\* chunk_repo.go, ReplaceByDocument: a chunk that was replaced is out of every
\* statement's reach; no result of the worker that still holds its token, no failure,
\* sweep or requeue by the operator brings it back or writes to it.
ReplacedAreGone ==
  [][\A i \in Id : chunk[i].status = "deleted" => chunk'[i] = chunk[i]]_vars

\* embed.go, ReserveBatch, and the sweeper: the token carries the expiry in whole
\* seconds and the row to the fraction.  A sweep takes no chunk whose vector would
\* still be accepted, and leaves none for a second after that.
SweepsFollowTokens ==
  [][SweepExpired => \A i \in Id : chunk[i].status = "leased" =>
       LET second == chunk[i].token.exp * TicksPerSecond
       IN  IF chunk'[i].status = "leased" THEN now < second + TicksPerSecond
           ELSE now > second]_vars
=============================================================================
