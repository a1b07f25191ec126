-------------------------- MODULE EmbedQueueProofs --------------------------
(***************************************************************************)
(* Proofs about the embedding queue.  ChunkStep lists everything one step  *)
(* can do to one chunk; the theorems argue about its cases and not about   *)
(* the handlers.                                                           *)
(***************************************************************************)
EXTENDS EmbedLeases, FiniteSetTheorems, TLAPS

LEMMA DivNat == \A a \in Nat, b \in Nat \ {0} : a \div b \in Nat
OBVIOUS

LEMMA TokenOfType ==
  ASSUME NEW i \in Id, NEW c \in ReserveCall
  PROVE  TokenOf(i, c) \in Token
BY DivNat, NumberAssumption DEF TokenOf, Token, ReserveCall

LEMMA EffectiveBatchType ==
  ASSUME NEW w \in Worker, NEW n \in Nat
  PROVE  EffectiveBatch(w, n) \in Nat
<1>1. Held(w) \subseteq 1..MaxChunks
  BY DEF Held, Id
<1>0. 1 \in Int /\ MaxChunks \in Int
  BY NumberAssumption
<1>3. IsFiniteSet(1..MaxChunks)
  BY <1>0, FS_Interval
<1>2. Cardinality(Held(w)) \in Nat
  BY <1>1, <1>3, FS_Subset, FS_CardinalityType
<1>. QED BY <1>2, NumberAssumption DEF EffectiveBatch

LEMMA PiecesType == \A x \in Text, z \in Size : Pieces[x, z] \in Nat
BY TextAssumption

LEMMA DrawnType == TypeOK => drawn \in Nat
BY NumberAssumption DEF TypeOK

LEMMA CutIndices ==
  ASSUME NEW m \in Nat, NEW n \in Nat, NEW K \in SUBSET (1..n), NEW i \in Id, i - m \in K
  PROVE  i > m /\ i - m \in Nat
BY NumberAssumption DEF Id

LEMMA CutsAreDrawn ==
  ASSUME NEW m \in Nat, NEW n \in Nat, NEW K \in SUBSET (1..n), NEW i \in Id, i - m \in K
  PROVE  i <= m + n
BY NumberAssumption DEF Id

LEMMA NoChunkType == NoChunk \in Chunk
BY DEF NoChunk, Chunk, Status

LEMMA CutShape ==
  ASSUME NEW i, NEW d \in Doc, NEW x \in Text, NEW z \in Size, i - drawn \in Nat
  PROVE  LET q == Cut(i, d, x, z)
         IN  /\ q \in Chunk /\ q.status = "pending" /\ q.doc = d
             /\ q.token = None /\ q.holder = None /\ q.expires = None /\ q.vector = None
             /\ q.text = x /\ q.size = z /\ q.index = i - drawn
BY NoChunkType DEF Cut, NoChunk, Chunk, Status

LEMMA UnleasedShape ==
  ASSUME NEW r \in Chunk, NEW s \in Status
  PROVE  LET q == Unleased(r, s)
         IN  /\ q \in Chunk /\ q.status = s /\ q.doc = r.doc /\ q.vector = r.vector
             /\ q.text = r.text /\ q.size = r.size /\ q.index = r.index
             /\ q.token = None /\ q.holder = None /\ q.expires = None
BY DEF Unleased, Chunk

LEMMA LeasedShape ==
  ASSUME NEW r \in Chunk, NEW i \in Id, NEW c \in ReserveCall
  PROVE  LET q == Leased(r, i, c)
         IN  /\ q \in Chunk /\ q.status = "leased" /\ q.doc = r.doc
             /\ q.text = r.text /\ q.size = r.size /\ q.index = r.index
             /\ q.token = TokenOf(i, c) /\ q.holder = c.worker
             /\ q.expires = c.at + LeaseTTL
<1>1. TokenOf(i, c) \in Token
  BY TokenOfType
<1>2. c.worker \in Worker /\ c.at + LeaseTTL \in Nat /\ r.attempts + 1 \in Nat
  BY NumberAssumption DEF ReserveCall, Chunk
<1>. QED BY <1>1, <1>2 DEF Leased, Chunk, Status

LEMMA EmbeddedShape ==
  ASSUME NEW r \in Chunk, NEW v \in Store \cup {None, "elsewhere"}
  PROVE  LET q == [Unleased(r, "done") EXCEPT !.vector = v]
         IN  /\ q \in Chunk /\ q.status = "done" /\ q.doc = r.doc /\ q.vector = v
             /\ q.text = r.text /\ q.size = r.size /\ q.index = r.index
             /\ q.token = None /\ q.holder = None /\ q.expires = None
<1>1. "done" \in Status
  BY DEF Status, Settled
<1>. QED BY <1>1, UnleasedShape DEF Chunk

-----------------------------------------------------------------------------
(***************************************************************************)
(* What one step does to one chunk.                                        *)
(***************************************************************************)

ChunkGranted(i) ==
  \E c \in reserving : /\ chunk[i].status = "pending"
                       /\ chunk'[i] = Leased(chunk[i], i, c)
                       /\ TokenOf(i, c) \in issued'
ChunkEmbedded(i) ==
  \E c \in answering : /\ c.token.id = i /\ Holds(c.token)
                       /\ c.stage \in {"verified", "stored"}
                       /\ chunk'[i] = [Unleased(chunk[i], "done") EXCEPT
                                         !.vector = VectorOf(c)]
ChunkFailed(i) ==
  \E c \in answering, s \in {"pending", "failed"} :
    c.token.id = i /\ chunk[i].token = c.token /\ chunk'[i] = Unleased(chunk[i], s)
ChunkAdded(i) ==
  /\ i > drawn /\ i <= drawn'
  /\ \E d \in Doc, x \in Text, z \in Size : chunk'[i] = Cut(i, d, x, z)
ChunkDeleted(i) ==
  /\ chunk[i].doc \in Doc /\ chunk[i].status # "deleted"
  /\ chunk'[i] = Unleased(chunk[i], "deleted")
ChunkSwept(i) == Expired(i) /\ chunk'[i] = Unleased(chunk[i], "pending")
ChunkRequeued(i) ==
  /\ Requeue /\ chunk[i].status \notin {"absent", "deleted"}
  /\ chunk'[i] = Unleased(chunk[i], "pending")

ChunkStep(i) ==
  \/ chunk'[i] = chunk[i]
  \/ ChunkGranted(i) \/ ChunkEmbedded(i) \/ ChunkFailed(i) \/ ChunkAdded(i)
  \/ ChunkDeleted(i) \/ ChunkSwept(i) \/ ChunkRequeued(i)

LEMMA WithCutStep ==
  ASSUME TypeOK, NEW rows \in [Id -> Chunk], NEW d \in Doc, NEW x \in Text, NEW z \in Size,
         NEW K \in SUBSET (1..Pieces[x, z]), chunk' = WithCut(rows, d, x, z, K)
  PROVE  /\ chunk' \in [Id -> Chunk]
         /\ \A i \in Id : \/ chunk'[i] = rows[i]
                          \/ /\ i > drawn /\ i <= drawn + Pieces[x, z]
                             /\ chunk'[i] = Cut(i, d, x, z)
<1>0. Pieces[x, z] \in Nat
  BY PiecesType
<1>1. drawn \in Nat
  BY DrawnType
<1>2. \A i \in Id : i - drawn \in K => i > drawn /\ i - drawn \in Nat
  BY <1>0, <1>1, CutIndices
<1>3. \A i \in Id : i - drawn \in K => Cut(i, d, x, z) \in Chunk
  BY <1>2, CutShape
<1>4. \A i \in Id : i - drawn \in K => i <= drawn + Pieces[x, z]
  BY <1>0, <1>1, CutsAreDrawn
<1>. QED BY <1>2, <1>3, <1>4 DEF WithCut

\* What one step does to one chunk, and that tokens are only ever added.
LEMMA ChunkStepLemma ==
  ASSUME TypeOK, [Next]_vars
  PROVE  /\ \A i \in Id : ChunkStep(i)
         /\ chunk' \in [Id -> Chunk]
         /\ issued \subseteq issued'
<1>. DEFINE Goal == /\ \A i \in Id : ChunkStep(i)
                    /\ chunk' \in [Id -> Chunk]
                    /\ issued \subseteq issued'
<1>1. ASSUME UNCHANGED <<chunk, issued>> PROVE Goal
  BY <1>1 DEF ChunkStep, TypeOK
<1>2. CASE UNCHANGED vars
  BY <1>1, <1>2 DEF vars
<1>3. ASSUME NEW d \in Doc, NEW x \in Text, NEW c \in Hints, UpsertText(d, x, c) PROVE Goal
  BY <1>1, <1>3 DEF UpsertText
<1>4. ASSUME NEW c \in inserting, NEW z \in Size, InsertMany(c, z) PROVE Goal
  <2>1. c.doc \in Doc /\ c.text \in Text
    BY DEF TypeOK, InsertCall
  <2>2. Added(c.doc, c.text, z) \in SUBSET (1..Pieces[c.text, z])
    BY DEF Added
  <2>3. chunk' \in [Id -> Chunk] /\ \A i \in Id : chunk'[i] = chunk[i] \/ ChunkAdded(i)
    BY <1>4, <2>1, <2>2, WithCutStep DEF InsertMany, Draws, ChunkAdded, TypeOK
  <2>. QED BY <1>4, <2>3 DEF InsertMany, ChunkStep
<1>5. ASSUME NEW w \in Worker, NEW n \in Batches, ReserveBegin(w, n) PROVE Goal
  BY <1>1, <1>5 DEF ReserveBegin
<1>6. ASSUME NEW c \in reserving, ReserveBatch(c) PROVE Goal
  <2>1. c \in ReserveCall /\ Picks(c) \subseteq Id
    BY DEF TypeOK, Picks, Lowest
  <2>2. \A i \in Id : Leased(chunk[i], i, c) \in Chunk
    BY <2>1, LeasedShape DEF TypeOK
  <2>3. chunk' \in [Id -> Chunk]
    BY <1>6, <2>2 DEF ReserveBatch, TypeOK
  <2>4. ASSUME NEW i \in Id PROVE ChunkStep(i)
    <3>1. CASE i \in Picks(c)
      BY <1>6, <3>1 DEF ReserveBatch, Picks, Lowest, ChunkStep, ChunkGranted
    <3>2. CASE i \notin Picks(c)
      BY <1>6, <3>2 DEF ReserveBatch, ChunkStep
    <3>. QED BY <3>1, <3>2
  <2>. QED BY <1>6, <2>3, <2>4 DEF ReserveBatch
<1>7. ASSUME NEW t \in issued, AnswerBegin(t) PROVE Goal
  BY <1>1, <1>7 DEF AnswerBegin
<1>8. ASSUME NEW c \in answering, LoadContext(c) \/ Upsert(c) PROVE Goal
  BY <1>1, <1>8 DEF LoadContext, Upsert
<1>9. ASSUME NEW c \in answering, MarkEmbedded(c) PROVE Goal
  <2>1. c.token.id \in Id /\ VectorOf(c) \in Store \cup {None, "elsewhere"}
    BY DEF TypeOK, AnswerCall, Token, VectorOf
  <2>2. [Unleased(chunk[c.token.id], "done") EXCEPT !.vector = VectorOf(c)] \in Chunk
    BY <2>1, EmbeddedShape DEF TypeOK
  <2>3. chunk' \in [Id -> Chunk]
    BY <1>9, <2>1, <2>2 DEF MarkEmbedded, TypeOK
  <2>4. \A i \in Id : ChunkStep(i)
    BY <1>9, <2>1 DEF MarkEmbedded, Ready, ChunkStep, ChunkEmbedded, TypeOK
  <2>. QED BY <1>9, <2>3, <2>4 DEF MarkEmbedded
<1>10. ASSUME NEW c \in answering, MarkEmbedFailed(c) PROVE Goal
  <2>1. c.token.id \in Id
    BY DEF TypeOK, AnswerCall, Token
  <2>2. PICK s \in {"pending", "failed"} :
          chunk' = [chunk EXCEPT ![c.token.id] =
                      IF Fails(c.token) THEN Unleased(@, s) ELSE @]
    BY <1>10 DEF MarkEmbedFailed
  <2>3. Unleased(chunk[c.token.id], s) \in Chunk
    BY <2>1, UnleasedShape DEF TypeOK, Status, Settled
  <2>4. chunk' \in [Id -> Chunk]
    BY <2>1, <2>2, <2>3 DEF TypeOK
  <2>5. \A i \in Id : ChunkStep(i)
    BY <2>1, <2>2 DEF ChunkStep, ChunkFailed, Fails, TypeOK
  <2>. QED BY <1>10, <2>4, <2>5 DEF MarkEmbedFailed
<1>11. ASSUME NEW c \in Coll \cup {None}, NEW n \in Limits, RechunkBegin(c, n) PROVE Goal
  BY <1>1, <1>11 DEF RechunkBegin
<1>12. ASSUME RechunkList \/ DeletePoints \/ RechunkEnds PROVE Goal
  BY <1>1, <1>12 DEF RechunkList, DeletePoints, RechunkEnds
<1>13. ASSUME rechunk # None, NEW c \in rechunk.todo, NEW z \in Size, ReplaceByDocument(c, z)
       PROVE  Goal
  <2>. DEFINE Gone == [i \in Id |-> IF i \in Live(c.doc) THEN Unleased(chunk[i], "deleted")
                                    ELSE chunk[i]]
  <2>1. c.doc \in Doc /\ c.text \in Text
    BY <1>13 DEF TypeOK, Rechunk, InsertCall
  <2>2. CASE UNCHANGED chunk
    BY <1>1, <1>13, <2>2 DEF ReplaceByDocument
  <2>3. CASE chunk' = WithCut(Gone, c.doc, c.text, z, 1..Pieces[c.text, z])
    <3>1. \A i \in Id : Unleased(chunk[i], "deleted") \in Chunk
      BY UnleasedShape DEF TypeOK, Status
    <3>2. Gone \in [Id -> Chunk]
      BY <3>1 DEF TypeOK
    <3>3. \A i \in Id :
            \/ Gone[i] = chunk[i]
            \/ i \in Live(c.doc) /\ Gone[i] = Unleased(chunk[i], "deleted")
      OBVIOUS
    <3>. HIDE DEF Gone
    <3>0. drawn' = drawn + Pieces[c.text, z]
      BY <1>13 DEF ReplaceByDocument, Draws
    <3>7. /\ chunk' \in [Id -> Chunk]
          /\ \A i \in Id : \/ chunk'[i] = Gone[i]
                           \/ /\ i > drawn /\ i <= drawn + Pieces[c.text, z]
                              /\ chunk'[i] = Cut(i, c.doc, c.text, z)
      BY <2>1, <2>3, <3>2, WithCutStep
    <3>4. /\ chunk' \in [Id -> Chunk]
          /\ \A i \in Id : chunk'[i] = Gone[i] \/ ChunkAdded(i)
      BY <2>1, <3>0, <3>7 DEF ChunkAdded
    <3>5. \A i \in Live(c.doc) : chunk[i].doc \in Doc /\ chunk[i].status # "deleted"
      BY <2>1 DEF Live
    <3>6. \A i \in Id : ChunkStep(i)
      BY <3>3, <3>4, <3>5 DEF ChunkStep, ChunkDeleted
    <3>. QED BY <1>13, <3>4, <3>6 DEF ReplaceByDocument
  <2>. QED BY <1>13, <2>2, <2>3 DEF ReplaceByDocument
<1>14. CASE SweepExpired
  <2>1. \A i \in Id : Unleased(chunk[i], "pending") \in Chunk
    BY UnleasedShape DEF TypeOK, Status
  <2>2. chunk' \in [Id -> Chunk] /\ \A i \in Id : chunk'[i] = chunk[i] \/ ChunkSwept(i)
    BY <1>14, <2>1 DEF SweepExpired, ChunkSwept, TypeOK
  <2>. QED BY <1>14, <2>2 DEF SweepExpired, ChunkStep
<1>15. ASSUME NEW f \in RequeueFilters, RequeueByFilter(f) PROVE Goal
  <2>1. \A i \in Id : Unleased(chunk[i], "pending") \in Chunk
    BY UnleasedShape DEF TypeOK, Status
  <2>2. Requeue
    BY <1>15 DEF Requeue
  <2>3. chunk' \in [Id -> Chunk] /\ \A i \in Id : chunk'[i] = chunk[i] \/ ChunkRequeued(i)
    BY <1>15, <2>1, <2>2 DEF RequeueByFilter, Matches, ChunkRequeued, TypeOK
  <2>. QED BY <1>15, <2>3 DEF RequeueByFilter, ChunkStep
<1>16. CASE CallFails \/ Tick
  BY <1>1, <1>16 DEF CallFails, Tick
<1>. QED
  BY <1>2, <1>3, <1>4, <1>5, <1>6, <1>7, <1>8, <1>9, <1>10, <1>11, <1>12, <1>13, <1>14,
     <1>15, <1>16 DEF Next, Extraction, Answer, Rechunking, Requeue

-----------------------------------------------------------------------------
(***************************************************************************)
(* What the rows, the tokens and the calls in flight refer to.             *)
(***************************************************************************)

Known ==
  /\ \A i \in Id : i > drawn => chunk[i].status = "absent"
  /\ \A i \in Id : IF chunk[i].status = "absent" THEN chunk[i] = NoChunk
                   ELSE chunk[i].doc \in Doc
  /\ \A t \in issued : chunk[t.id].status # "absent"
  /\ \A c \in answering : c.token \in issued
  /\ \A c \in answering : c.stage # "verified" => c.coll \in Store

AnswerStep(d) ==
  \/ d \in answering
  \/ d.token \in issued /\ d.stage = "verified"
  \/ \E c \in answering : d.token = c.token /\ d.stage = "loaded" /\ d.coll \in Store
  \/ \E c \in answering : /\ c.stage = "loaded" /\ d = [c EXCEPT !.stage = "stored"]
                          /\ points' = [points EXCEPT ![c.coll] = @ \cup {c.token.id}]

LEMMA AnswerStepLemma ==
  ASSUME TypeOK, Known, [Next]_vars, NEW d \in answering'
  PROVE  AnswerStep(d)
<1>1. ASSUME answering' \subseteq answering PROVE AnswerStep(d)
  BY <1>1 DEF AnswerStep
<1>2. CASE UNCHANGED vars
  BY <1>1, <1>2 DEF vars
<1>3. CASE Extraction
  BY <1>1, <1>3 DEF Extraction, UpsertText, InsertMany
<1>4. ASSUME NEW w \in Worker, NEW n \in Batches, ReserveBegin(w, n) PROVE AnswerStep(d)
  BY <1>1, <1>4 DEF ReserveBegin
<1>5. ASSUME NEW c \in reserving, ReserveBatch(c) PROVE AnswerStep(d)
  BY <1>1, <1>5 DEF ReserveBatch
<1>6. ASSUME NEW t \in issued, AnswerBegin(t) PROVE AnswerStep(d)
  BY <1>6 DEF AnswerBegin, AnswerStep
<1>7. ASSUME NEW c \in answering, LoadContext(c) PROVE AnswerStep(d)
  <2>. DEFINE e == [c EXCEPT !.stage = "loaded",
                             !.coll = StoreOf(doc[chunk[c.token.id].doc].coll)]
  <2>1. c \in AnswerCall /\ c.token \in issued /\ c.token.id \in Id
    BY DEF TypeOK, Known, AnswerCall, Token
  <2>2. chunk[c.token.id].doc \in Doc
    BY <2>1 DEF Known
  <2>3. doc[chunk[c.token.id].doc].coll \in Coll \cup {None}
    BY <2>2 DEF TypeOK, Document
  <2>4. StoreOf(doc[chunk[c.token.id].doc].coll) \in Store
    BY <2>3 DEF StoreOf, Store
  <2>5. e.token = c.token /\ e.stage = "loaded" /\ e.coll \in Store
    BY <2>1, <2>4 DEF AnswerCall
  <2>6. d \in answering \/ d = e
    BY <1>7 DEF LoadContext, Goes
  <2>. QED BY <2>5, <2>6 DEF AnswerStep
<1>8. ASSUME NEW c \in answering, Upsert(c) PROVE AnswerStep(d)
  BY <1>8 DEF Upsert, Goes, AnswerStep
<1>9. ASSUME NEW c \in answering, MarkEmbedded(c) \/ MarkEmbedFailed(c) PROVE AnswerStep(d)
  BY <1>1, <1>9 DEF MarkEmbedded, MarkEmbedFailed, Ends
<1>10. CASE Rechunking
  BY <1>1, <1>10 DEF Rechunking, RechunkBegin, RechunkList, DeletePoints, RechunkEnds,
                     ReplaceByDocument
<1>11. CASE SweepExpired \/ Requeue \/ CallFails \/ Tick
  BY <1>1, <1>11 DEF SweepExpired, Requeue, RequeueByFilter, CallFails, Ends, Tick
<1>. QED
  BY <1>2, <1>3, <1>4, <1>5, <1>6, <1>7, <1>8, <1>9, <1>10, <1>11 DEF Next, Answer

LEMMA DrawnStep ==
  ASSUME TypeOK, [Next]_vars
  PROVE  drawn' \in 0..MaxChunks /\ drawn <= drawn'
<1>0. drawn \in Nat /\ drawn <= MaxChunks /\ MaxChunks \in Nat
  BY DrawnType, NumberAssumption DEF TypeOK
<1>1. ASSUME drawn' = drawn PROVE drawn' \in 0..MaxChunks /\ drawn <= drawn'
  BY <1>0, <1>1
<1>2. ASSUME NEW x \in Text, NEW z \in Size, Draws(x, z)
      PROVE  drawn' \in 0..MaxChunks /\ drawn <= drawn'
  <2>1. PICK n \in Nat : drawn + n <= MaxChunks /\ drawn' = drawn + n
    BY <1>2, PiecesType DEF Draws
  <2>. QED BY <1>0, <2>1
<1>3. CASE UNCHANGED vars
  BY <1>1, <1>3 DEF vars
<1>4. ASSUME NEW c \in inserting, NEW z \in Size, InsertMany(c, z)
      PROVE  drawn' \in 0..MaxChunks /\ drawn <= drawn'
  BY <1>2, <1>4 DEF InsertMany, TypeOK, InsertCall
<1>5. ASSUME rechunk # None, NEW c \in rechunk.todo, NEW z \in Size, ReplaceByDocument(c, z)
      PROVE  drawn' \in 0..MaxChunks /\ drawn <= drawn'
  <2>1. c.text \in Text
    BY <1>5 DEF TypeOK, Rechunk, InsertCall
  <2>. QED BY <1>2, <1>5, <2>1 DEF ReplaceByDocument
<1>6. ASSUME NEW d \in Doc, NEW x \in Text, NEW c \in Hints, UpsertText(d, x, c)
      PROVE  drawn' = drawn
  BY <1>6 DEF UpsertText
<1>7. ASSUME NEW w \in Worker, NEW n \in Batches, ReserveBegin(w, n) PROVE drawn' = drawn
  BY <1>7 DEF ReserveBegin
<1>8. ASSUME NEW c \in reserving, ReserveBatch(c) PROVE drawn' = drawn
  BY <1>8 DEF ReserveBatch
<1>9. ASSUME NEW t \in issued, AnswerBegin(t) PROVE drawn' = drawn
  BY <1>9 DEF AnswerBegin
<1>10. ASSUME Answer PROVE drawn' = drawn
  BY <1>10 DEF Answer, LoadContext, Upsert, MarkEmbedded, MarkEmbedFailed
<1>11. ASSUME NEW c \in Coll \cup {None}, NEW n \in Limits, RechunkBegin(c, n)
       PROVE  drawn' = drawn
  BY <1>11 DEF RechunkBegin
<1>12. ASSUME RechunkList \/ DeletePoints \/ RechunkEnds PROVE drawn' = drawn
  BY <1>12 DEF RechunkList, DeletePoints, RechunkEnds
<1>13. ASSUME SweepExpired \/ Requeue \/ CallFails \/ Tick PROVE drawn' = drawn
  BY <1>13 DEF SweepExpired, Requeue, RequeueByFilter, CallFails, Tick
<1>. QED
  BY <1>1, <1>3, <1>4, <1>5, <1>6, <1>7, <1>8, <1>9, <1>10, <1>11, <1>12, <1>13
     DEF Next, Extraction, Rechunking

LEMMA KnownRows ==
  ASSUME TypeOK, Known, [Next]_vars, NEW i \in Id
  PROVE  /\ i > drawn' => chunk'[i].status = "absent"
         /\ IF chunk'[i].status = "absent" THEN chunk'[i] = NoChunk
            ELSE chunk'[i].doc \in Doc
         /\ chunk[i].status # "absent" => chunk'[i].status # "absent"
<1>1. /\ ChunkStep(i) /\ chunk[i] \in Chunk
      /\ drawn <= drawn' /\ drawn \in Nat /\ drawn' \in Nat
  BY ChunkStepLemma, DrawnStep, DrawnType, NumberAssumption DEF TypeOK
<1>2. CASE chunk'[i] = chunk[i]
  <2>1. i > drawn' => i > drawn
    BY <1>1, NumberAssumption DEF Id
  <2>. QED BY <1>2, <2>1 DEF Known
<1>3. NoChunk.status = "absent" /\ NoChunk.token = None /\ NoChunk.doc = None
  BY DEF NoChunk
<1>4. None \notin Doc
  BY NullAssumption DEF Doc
<1>5. ASSUME chunk[i].status # "absent", chunk'[i].status # "absent",
             chunk'[i].doc = chunk[i].doc
      PROVE  /\ i > drawn' => chunk'[i].status = "absent"
             /\ chunk'[i].doc \in Doc
  <2>1. i <= drawn
    BY <1>1, <1>5, NumberAssumption DEF Known, Id
  <2>2. ~ (i > drawn')
    BY <1>1, <2>1, NumberAssumption DEF Id
  <2>. QED BY <1>5, <2>2 DEF Known
<1>6. CASE ChunkGranted(i)
  <2>1. PICK c \in reserving : chunk[i].status = "pending" /\ chunk'[i] = Leased(chunk[i], i, c)
    BY <1>6 DEF ChunkGranted
  <2>2. chunk'[i].status = "leased" /\ chunk'[i].doc = chunk[i].doc
    BY <1>1, <2>1, LeasedShape DEF TypeOK
  <2>. QED BY <1>5, <2>1, <2>2
<1>7. CASE ChunkEmbedded(i)
  <2>1. PICK c \in answering : /\ chunk[i].status = "leased"
                               /\ chunk'[i] = [Unleased(chunk[i], "done") EXCEPT
                                                 !.vector = VectorOf(c)]
    BY <1>7 DEF ChunkEmbedded, Holds
  <2>2. chunk'[i].status = "done" /\ chunk'[i].doc = chunk[i].doc
    BY <1>1, <2>1 DEF Unleased, Chunk
  <2>. QED BY <1>5, <2>1, <2>2
<1>8. CASE ChunkFailed(i)
  <2>1. PICK c \in answering, s \in {"pending", "failed"} :
          chunk[i].token = c.token /\ chunk'[i] = Unleased(chunk[i], s)
    BY <1>8 DEF ChunkFailed
  <2>2. c.token # None
    BY NullAssumption DEF TypeOK, AnswerCall
  <2>3. chunk[i].status # "absent"
    BY <1>3, <2>1, <2>2 DEF Known
  <2>4. chunk'[i].status = s /\ chunk'[i].doc = chunk[i].doc
    BY <1>1, <2>1, UnleasedShape DEF Status, Settled
  <2>. QED BY <1>5, <2>3, <2>4
<1>9. CASE ChunkAdded(i)
  <2>1. PICK d \in Doc, x \in Text, z \in Size : chunk'[i] = Cut(i, d, x, z)
    BY <1>9 DEF ChunkAdded
  <2>2. chunk'[i].status = "pending" /\ chunk'[i].doc = d
    BY <2>1 DEF Cut, NoChunk
  <2>3. ~ (i > drawn')
    BY <1>1, <1>9, NumberAssumption DEF ChunkAdded, Id
  <2>. QED BY <2>2, <2>3
<1>10. CASE ChunkDeleted(i) \/ ChunkSwept(i) \/ ChunkRequeued(i)
  <2>1. PICK s \in {"pending", "deleted"} : chunk'[i] = Unleased(chunk[i], s)
    BY <1>10 DEF ChunkDeleted, ChunkSwept, ChunkRequeued
  <2>2. chunk[i].status # "absent"
    BY <1>3, <1>4, <1>10 DEF ChunkDeleted, ChunkSwept, ChunkRequeued, Expired, Known
  <2>3. chunk'[i].status = s /\ chunk'[i].doc = chunk[i].doc
    BY <1>1, <2>1, UnleasedShape DEF Status
  <2>. QED BY <1>5, <2>2, <2>3
<1>. QED BY <1>1, <1>2, <1>6, <1>7, <1>8, <1>9, <1>10 DEF ChunkStep

LEMMA IssuedStep ==
  ASSUME TypeOK, [Next]_vars
  PROVE  \/ issued' = issued
         \/ \E c \in reserving : /\ issued' = issued \cup {TokenOf(i, c) : i \in Picks(c)}
                                 /\ \A i \in Picks(c) : chunk'[i] = Leased(chunk[i], i, c)
<1>. DEFINE Goal == \/ issued' = issued
                    \/ \E c \in reserving :
                         /\ issued' = issued \cup {TokenOf(i, c) : i \in Picks(c)}
                         /\ \A i \in Picks(c) : chunk'[i] = Leased(chunk[i], i, c)
<1>1. CASE UNCHANGED vars
  BY <1>1 DEF vars
<1>2. CASE Extraction
  BY <1>2 DEF Extraction, UpsertText, InsertMany
<1>3. ASSUME NEW w \in Worker, NEW n \in Batches, ReserveBegin(w, n) PROVE Goal
  BY <1>3 DEF ReserveBegin
<1>4. ASSUME NEW c \in reserving, ReserveBatch(c) PROVE Goal
  <2>1. \A i \in Picks(c) : i \in Id
    BY DEF Picks, Lowest
  <2>2. \A i \in Picks(c) : chunk'[i] = Leased(chunk[i], i, c)
    BY <1>4, <2>1 DEF ReserveBatch
  <2>. QED BY <1>4, <2>2 DEF ReserveBatch
<1>5. ASSUME NEW t \in issued, AnswerBegin(t) PROVE Goal
  BY <1>5 DEF AnswerBegin
<1>6. CASE Answer
  BY <1>6 DEF Answer, LoadContext, Upsert, MarkEmbedded, MarkEmbedFailed
<1>7. CASE Rechunking
  BY <1>7 DEF Rechunking, RechunkBegin, RechunkList, DeletePoints, RechunkEnds,
              ReplaceByDocument
<1>8. CASE SweepExpired \/ Requeue \/ CallFails \/ Tick
  BY <1>8 DEF SweepExpired, Requeue, RequeueByFilter, CallFails, Tick
<1>. QED BY <1>1, <1>2, <1>3, <1>4, <1>5, <1>6, <1>7, <1>8 DEF Next

LEMMA KnownTokens ==
  ASSUME TypeOK, Known, [Next]_vars, NEW t \in issued'
  PROVE  chunk'[t.id].status # "absent"
<1>1. CASE t \in issued
  <2>1. t.id \in Id /\ chunk[t.id].status # "absent"
    BY <1>1 DEF TypeOK, Known, Token
  <2>. QED BY <2>1, KnownRows
<1>2. CASE t \notin issued
  <2>0. PICK c \in reserving : /\ issued' = issued \cup {TokenOf(i, c) : i \in Picks(c)}
                               /\ \A i \in Picks(c) : chunk'[i] = Leased(chunk[i], i, c)
    BY <1>2, IssuedStep
  <2>1. PICK i \in Picks(c) : t = TokenOf(i, c) /\ chunk'[i] = Leased(chunk[i], i, c)
    BY <1>2, <2>0
  <2>2. i \in Id /\ c \in ReserveCall /\ chunk[i] \in Chunk
    BY DEF TypeOK, Picks, Lowest
  <2>3. t.id = i /\ chunk'[i].status = "leased"
    BY <2>1, <2>2, LeasedShape DEF TokenOf
  <2>. QED BY <2>3
<1>. QED BY <1>1, <1>2

LEMMA KnownStep ==
  ASSUME TypeOK, Known, [Next]_vars
  PROVE  Known'
<1>1. issued \subseteq issued'
  BY ChunkStepLemma
<1>2. ASSUME NEW d \in answering' PROVE d.token \in issued'
  BY <1>1, <1>2, AnswerStepLemma DEF AnswerStep, Known, TypeOK, AnswerCall
<1>3. ASSUME NEW d \in answering', d.stage # "verified" PROVE d.coll \in Store
  BY <1>3, AnswerStepLemma DEF AnswerStep, Known, TypeOK, AnswerCall
<1>. QED BY <1>2, <1>3, KnownRows, KnownTokens DEF Known

LEMMA PageCount == Cardinality(Page) \in Nat
<1>0. 1 \in Int /\ MaxDocs \in Int
  BY NumberAssumption
<1>1. Page \subseteq 1..MaxDocs
  BY DEF Page, Lowest, Doc
<1>2. IsFiniteSet(1..MaxDocs)
  BY <1>0, FS_Interval
<1>. QED BY <1>1, <1>2, FS_Subset, FS_CardinalityType

LEMMA RechunkType ==
  ASSUME TypeOK, Rechunking
  PROVE  rechunk' \in Rechunk \cup {None}
<1>1. ASSUME NEW c \in Coll \cup {None}, NEW n \in Limits, RechunkBegin(c, n)
      PROVE  rechunk' \in Rechunk \cup {None}
  BY <1>1, NumberAssumption DEF RechunkBegin, Rechunk
<1>2. CASE RechunkList
  <2>. DEFINE n == Cardinality(Page)
  <2>1. n \in Nat /\ rechunk \in Rechunk
    BY <1>2, PageCount DEF RechunkList, TypeOK
  <2>2. LeftAfter(n) \in Nat
    BY <2>1 DEF LeftAfter, Rechunk
  <2>3. {[doc |-> d, text |-> doc[d].text] : d \in Page} \in SUBSET InsertCall
    <3>1. \A d \in Page : d \in Doc /\ doc[d].text \in Text
      BY DEF Page, Lowest, TypeOK, Document
    <3>. QED BY <3>1 DEF InsertCall
  <2>4. PICK more \in BOOLEAN :
          rechunk' = IF n = 0 THEN None
                     ELSE [rechunk EXCEPT
                             !.todo = {[doc |-> d, text |-> doc[d].text] : d \in Page},
                             !.more = more, !.left = LeftAfter(n)]
    BY <1>2 DEF RechunkList
  <2>. HIDE DEF n
  <2>. QED BY <2>1, <2>2, <2>3, <2>4 DEF Rechunk
<1>3. ASSUME rechunk # None, NEW c \in rechunk.todo, NEW z \in Size, ReplaceByDocument(c, z)
      PROVE  rechunk' \in Rechunk \cup {None}
  <2>1. rechunk \in Rechunk /\ c.doc \in Doc /\ c.doc \in Nat /\ Live(c.doc) \subseteq Id
    BY <1>3, NumberAssumption DEF TypeOK, Rechunk, InsertCall, Doc, Live
  <2>2. PICK S \in SUBSET Id :
          rechunk' = [rechunk EXCEPT !.todo = @ \ {c}, !.since = c.doc, !.stale = S]
    <3>1. CASE rechunk' = [rechunk EXCEPT !.todo = @ \ {c}, !.since = c.doc]
      BY <2>1, <3>1 DEF Rechunk
    <3>. QED BY <1>3, <2>1, <3>1 DEF ReplaceByDocument
  <2>. QED BY <2>1, <2>2 DEF Rechunk
<1>4. CASE DeletePoints
  BY <1>4 DEF DeletePoints, TypeOK, Rechunk
<1>5. CASE RechunkEnds
  BY <1>5 DEF RechunkEnds
<1>. QED BY <1>1, <1>2, <1>3, <1>4, <1>5 DEF Rechunking

LEMMA AnswersType ==
  ASSUME TypeOK, Known, [Next]_vars
  PROVE  answering' \subseteq AnswerCall
<1>. SUFFICES ASSUME NEW d \in answering' PROVE d \in AnswerCall
  OBVIOUS
<1>1. CASE d \in answering
  BY <1>1 DEF TypeOK
<1>2. CASE d \notin answering
  <2>1. ASSUME NEW t \in issued, AnswerBegin(t) PROVE d \in AnswerCall
    BY <1>2, <2>1 DEF AnswerBegin, TypeOK, AnswerCall
  <2>2. ASSUME NEW c \in answering, LoadContext(c) PROVE d \in AnswerCall
    <3>1. c \in AnswerCall
      BY DEF TypeOK
    <3>2. PICK v : d = [c EXCEPT !.stage = "loaded", !.coll = v]
      BY <1>2, <2>2 DEF LoadContext, Goes
    <3>3. d.coll = v /\ d.stage = "loaded"
      BY <3>1, <3>2 DEF AnswerCall
    <3>4. d.coll \in Store
      BY <3>3, KnownStep DEF Known
    <3>. QED BY <3>1, <3>2, <3>3, <3>4 DEF AnswerCall
  <2>3. ASSUME NEW c \in answering, Upsert(c) PROVE d \in AnswerCall
    BY <1>2, <2>3 DEF Upsert, Goes, TypeOK, AnswerCall
  <2>4. ASSUME answering' \subseteq answering PROVE FALSE
    BY <1>2, <2>4
  <2>5. CASE UNCHANGED vars
    BY <2>4, <2>5 DEF vars
  <2>6. CASE Extraction
    BY <2>4, <2>6 DEF Extraction, UpsertText, InsertMany
  <2>7. ASSUME NEW w \in Worker, NEW n \in Batches, ReserveBegin(w, n) PROVE FALSE
    BY <2>4, <2>7 DEF ReserveBegin
  <2>8. ASSUME NEW c \in reserving, ReserveBatch(c) PROVE FALSE
    BY <2>4, <2>8 DEF ReserveBatch
  <2>9. ASSUME NEW c \in answering, MarkEmbedded(c) \/ MarkEmbedFailed(c) PROVE FALSE
    BY <2>4, <2>9 DEF MarkEmbedded, MarkEmbedFailed, Ends
  <2>10. CASE Rechunking
    BY <2>4, <2>10 DEF Rechunking, RechunkBegin, RechunkList, DeletePoints, RechunkEnds,
                       ReplaceByDocument
  <2>11. CASE SweepExpired \/ Requeue \/ CallFails \/ Tick
    BY <2>4, <2>11 DEF SweepExpired, Requeue, RequeueByFilter, CallFails, Ends, Tick
  <2>. QED
    BY <2>1, <2>2, <2>3, <2>5, <2>6, <2>7, <2>8, <2>9, <2>10, <2>11 DEF Next, Answer
<1>. QED BY <1>1, <1>2

LEMMA IssuedType ==
  ASSUME TypeOK, [Next]_vars
  PROVE  issued' \subseteq Token
<1>1. ASSUME NEW c \in reserving, NEW i \in Picks(c) PROVE TokenOf(i, c) \in Token
  BY <1>1, TokenOfType DEF TypeOK, Picks, Lowest
<1>. QED BY <1>1, IssuedStep DEF TypeOK

LEMMA TypeStep ==
  ASSUME TypeOK, Known, [Next]_vars
  PROVE  TypeOK'
<1>0. now \in Nat
  BY NumberAssumption DEF TypeOK
<1>1. /\ chunk' \in [Id -> Chunk] /\ drawn' \in 0..MaxChunks
      /\ issued' \subseteq Token /\ answering' \subseteq AnswerCall
  BY ChunkStepLemma, DrawnStep, IssuedType, AnswersType
<1>2. /\ now' \in 0..MaxTime
      /\ doc' \in [Doc -> Document]
      /\ points' \in [Store -> SUBSET Id]
      /\ reserving' \subseteq ReserveCall
      /\ inserting' \subseteq InsertCall
      /\ rechunk' \in Rechunk \cup {None}
  <2>. DEFINE Others == /\ now' \in 0..MaxTime
                        /\ doc' \in [Doc -> Document]
                        /\ points' \in [Store -> SUBSET Id]
                        /\ reserving' \subseteq ReserveCall
                        /\ inserting' \subseteq InsertCall
                        /\ rechunk' \in Rechunk \cup {None}
  <2>1. CASE UNCHANGED vars
    BY <2>1 DEF vars, TypeOK
  <2>2. ASSUME NEW d \in Doc, NEW x \in Text, NEW c \in Hints, UpsertText(d, x, c) PROVE Others
    <3>1. c \in Coll \cup {None} /\ [doc |-> d, text |-> x] \in InsertCall
      BY TextAssumption DEF InsertCall
    <3>2. doc[d].coll \in Coll \cup {None}
      BY DEF TypeOK, Document
    <3>3. [text |-> x, coll |-> IF c = None THEN doc[d].coll ELSE c] \in Document
      BY <3>1, <3>2 DEF Document
    <3>4. doc' \in [Doc -> Document]
      BY <2>2, <3>3 DEF UpsertText, TypeOK
    <3>. QED BY <2>2, <3>1, <3>4 DEF UpsertText, TypeOK
  <2>3. ASSUME NEW c \in inserting, NEW z \in Size, InsertMany(c, z) PROVE Others
    BY <2>3 DEF InsertMany, TypeOK
  <2>4. ASSUME NEW w \in Worker, NEW n \in Batches, ReserveBegin(w, n) PROVE Others
    <3>1. EffectiveBatch(w, n) \in Nat
      BY EffectiveBatchType, NumberAssumption
    <3>2. [worker |-> w, batch |-> EffectiveBatch(w, n), at |-> now] \in ReserveCall
      BY <1>0, <3>1 DEF ReserveCall
    <3>. QED BY <2>4, <3>2 DEF ReserveBegin, TypeOK
  <2>5. ASSUME NEW c \in reserving, ReserveBatch(c) PROVE Others
    BY <2>5 DEF ReserveBatch, TypeOK
  <2>6. ASSUME NEW t \in issued, AnswerBegin(t) PROVE Others
    BY <2>6 DEF AnswerBegin, TypeOK
  <2>7. ASSUME NEW c \in answering, LoadContext(c) \/ MarkEmbedded(c) \/ MarkEmbedFailed(c)
        PROVE  Others
    BY <2>7 DEF LoadContext, MarkEmbedded, MarkEmbedFailed, TypeOK
  <2>8. ASSUME NEW c \in answering, Upsert(c) PROVE Others
    <3>1. c.token.id \in Id
      BY DEF TypeOK, AnswerCall, Token
    <3>. QED BY <2>8, <3>1 DEF Upsert, TypeOK
  <2>9. CASE Rechunking
    <3>1. rechunk' \in Rechunk \cup {None}
      BY <2>9, RechunkType
    <3>2. points' \in [Store -> SUBSET Id]
      BY <2>9 DEF Rechunking, RechunkBegin, RechunkList, DeletePoints, RechunkEnds,
                  ReplaceByDocument, TypeOK
    <3>3. UNCHANGED <<now, doc, reserving, inserting>>
      BY <2>9 DEF Rechunking, RechunkBegin, RechunkList, DeletePoints, RechunkEnds,
                  ReplaceByDocument
    <3>. QED BY <3>1, <3>2, <3>3 DEF TypeOK
  <2>10. CASE SweepExpired \/ Requeue \/ CallFails
    BY <2>10 DEF SweepExpired, Requeue, RequeueByFilter, CallFails, TypeOK
  <2>11. CASE Tick
    <3>1. now' \in 0..MaxTime
      BY <1>0, <2>11, NumberAssumption DEF Tick
    <3>. QED BY <2>11, <3>1 DEF Tick, TypeOK
  <2>. QED BY <2>1, <2>2, <2>3, <2>4, <2>5, <2>6, <2>7, <2>8, <2>9, <2>10, <2>11
              DEF Next, Extraction, Answer
<1>. QED BY <1>1, <1>2 DEF TypeOK

\* Type correctness of the embedding queue, with what the rows, tokens and calls in
\* flight refer to: a result always finds the row its token names, deleted or not.
THEOREM EmbedTyping == Spec => [](TypeOK /\ Known)
<1>1. Init => TypeOK /\ Known
  <2>. SUFFICES ASSUME Init PROVE TypeOK /\ Known
    OBVIOUS
  <2>1. /\ now \in 0..MaxTime /\ drawn \in 0..MaxChunks
        /\ doc \in [Doc -> Document] /\ chunk \in [Id -> Chunk]
    BY NumberAssumption, NoChunkType DEF Init, Document
  <2>. QED BY <2>1 DEF Init, TypeOK, Known, NoChunk
<1>2. TypeOK /\ Known /\ [Next]_vars => (TypeOK /\ Known)'
  BY TypeStep, KnownStep
<1>. QED BY <1>1, <1>2, PTL DEF Spec

-----------------------------------------------------------------------------
(***************************************************************************)
(* The shape of a lease.                                                   *)
(***************************************************************************)

\* LeaseShape of one row.
WellLeased(i) ==
  /\ chunk[i].token = None <=> chunk[i].holder = None
  /\ chunk[i].token = None <=> chunk[i].expires = None
  /\ chunk[i].token # None <=> chunk[i].status = "leased"
  /\ chunk[i].token # None =>
       /\ chunk[i].token \in issued
       /\ chunk[i].token.id = i /\ chunk[i].token.worker = chunk[i].holder

LEMMA WellLeasedStep ==
  ASSUME TypeOK, Known, [Next]_vars, NEW i \in Id, WellLeased(i)
  PROVE  WellLeased(i)'
<1>1. /\ ChunkStep(i) /\ issued \subseteq issued' /\ chunk[i] \in Chunk
  BY ChunkStepLemma DEF TypeOK
<1>2. CASE chunk'[i] = chunk[i]
  BY <1>1, <1>2 DEF WellLeased
<1>3. CASE ChunkGranted(i)
  <2>1. PICK c \in reserving : /\ chunk'[i] = Leased(chunk[i], i, c)
                               /\ TokenOf(i, c) \in issued'
    BY <1>3 DEF ChunkGranted
  <2>2. c \in ReserveCall
    BY DEF TypeOK
  <2>3. TokenOf(i, c) # None /\ c.worker # None /\ c.at + LeaseTTL # None
    BY <2>2, TokenOfType, NullAssumption, NumberAssumption DEF ReserveCall
  <2>4. TokenOf(i, c).id = i /\ TokenOf(i, c).worker = c.worker
    BY DEF TokenOf
  <2>. QED BY <1>1, <2>1, <2>2, <2>3, <2>4, LeasedShape DEF WellLeased
<1>4. CASE ChunkEmbedded(i)
  <2>1. PICK v : chunk'[i] = [Unleased(chunk[i], "done") EXCEPT !.vector = v]
    BY <1>4 DEF ChunkEmbedded
  <2>. QED BY <1>1, <2>1 DEF Unleased, WellLeased, Chunk
<1>5. CASE ChunkFailed(i) \/ ChunkDeleted(i) \/ ChunkSwept(i) \/ ChunkRequeued(i)
  <2>1. PICK s \in {"pending", "failed", "deleted"} : chunk'[i] = Unleased(chunk[i], s)
    BY <1>5 DEF ChunkFailed, ChunkDeleted, ChunkSwept, ChunkRequeued
  <2>. QED BY <1>1, <2>1, UnleasedShape DEF WellLeased, Status, Settled
<1>6. CASE ChunkAdded(i)
  BY <1>6 DEF ChunkAdded, Cut, NoChunk, WellLeased
<1>. QED BY <1>1, <1>2, <1>3, <1>4, <1>5, <1>6 DEF ChunkStep

\* Whatever results, failures, sweeps, requeues and rechunk do, a chunk carries a
\* whole lease or none.
THEOREM WholeEmbedLeases == Spec => []LeaseShape
<1>1. Init => LeaseShape
  BY DEF Init, LeaseShape, NoChunk
<1>2. TypeOK /\ Known /\ LeaseShape /\ [Next]_vars => LeaseShape'
  <2>. SUFFICES ASSUME TypeOK, Known, LeaseShape, [Next]_vars PROVE LeaseShape'
    OBVIOUS
  <2>1. \A i \in Id : WellLeased(i)
    BY DEF LeaseShape, WellLeased
  <2>2. \A i \in Id : WellLeased(i)'
    BY <2>1, WellLeasedStep
  <2>. QED BY <2>2 DEF LeaseShape, WellLeased
<1>. QED BY <1>1, <1>2, EmbedTyping, PTL DEF Spec

\* An answer in flight only ever matches a lease.
LEMMA AnswersMatchLeases ==
  ASSUME TypeOK, LeaseShape, NEW i \in Id, ChunkEmbedded(i) \/ ChunkFailed(i)
  PROVE  chunk[i].status = "leased" /\ chunk[i].token # None
<1>1. PICK c \in answering : chunk[i].token = c.token
  BY DEF ChunkEmbedded, ChunkFailed, Holds
<1>2. c.token # None
  BY NullAssumption DEF TypeOK, AnswerCall
<1>. QED BY <1>1, <1>2 DEF LeaseShape

\* Neither a late result, a late failure nor a sweep reopens a chunk that is done or
\* failed: only the operator does, and rechunk deletes it.
THEOREM SettledChunksStay == Spec => SettledIsFinal
<1>1. TypeOK /\ Known /\ LeaseShape /\ [Next]_vars =>
        \/ \A i \in Id : chunk[i].status \in Settled =>
             chunk'[i].status \in {chunk[i].status, "deleted"}
        \/ Requeue
  <2>. SUFFICES ASSUME TypeOK, Known, LeaseShape, [Next]_vars, ~ Requeue,
                       NEW i \in Id, chunk[i].status \in {"done", "failed"}
                PROVE  chunk'[i].status \in {chunk[i].status, "deleted"}
    BY DEF Settled
  <2>1. ChunkStep(i) /\ chunk[i] \in Chunk
    BY ChunkStepLemma DEF TypeOK
  <2>2. ~ ChunkEmbedded(i) /\ ~ ChunkFailed(i)
    BY AnswersMatchLeases
  <2>3. ~ ChunkGranted(i) /\ ~ ChunkSwept(i) /\ ~ ChunkRequeued(i)
    BY DEF ChunkGranted, ChunkSwept, ChunkRequeued, Expired
  <2>4. ~ ChunkAdded(i)
    BY DEF ChunkAdded, Known
  <2>5. CASE ChunkDeleted(i)
    BY <2>1, <2>5, UnleasedShape DEF ChunkDeleted, Status
  <2>. QED BY <2>1, <2>2, <2>3, <2>4, <2>5 DEF ChunkStep
<1>. QED BY <1>1, EmbedTyping, WholeEmbedLeases, PTL DEF Spec, SettledIsFinal

-----------------------------------------------------------------------------
(***************************************************************************)
(* The two clocks of a lease: the seconds of its token and the fraction in *)
(* its row.                                                                *)
(***************************************************************************)

TimedLease(i) ==
  chunk[i].token # None =>
    /\ chunk[i].token.exp * TicksPerSecond <= chunk[i].expires
    /\ chunk[i].expires < chunk[i].token.exp * TicksPerSecond + TicksPerSecond

LEMMA WholeSeconds ==
  ASSUME NEW a \in Nat, NEW b \in Nat \ {0}
  PROVE  (a \div b) * b <= a /\ a < (a \div b) * b + b
OBVIOUS

LEMMA TimedLeaseStep ==
  ASSUME TypeOK, Known, LeaseShape, [Next]_vars, NEW i \in Id, TimedLease(i)
  PROVE  TimedLease(i)'
<1>1. ChunkStep(i) /\ chunk[i] \in Chunk
  BY ChunkStepLemma DEF TypeOK
<1>2. CASE chunk'[i] = chunk[i]
  BY <1>2 DEF TimedLease
<1>3. CASE ChunkGranted(i)
  <2>1. PICK c \in reserving : chunk'[i] = Leased(chunk[i], i, c)
    BY <1>3 DEF ChunkGranted
  <2>2. c \in ReserveCall
    BY DEF TypeOK
  <2>3. chunk'[i].token = TokenOf(i, c) /\ chunk'[i].expires = c.at + LeaseTTL
    BY <1>1, <2>1, <2>2, LeasedShape
  <2>4. TokenOf(i, c).exp = (c.at + LeaseTTL) \div TicksPerSecond
    BY DEF TokenOf
  <2>5. c.at + LeaseTTL \in Nat /\ TicksPerSecond \in Nat \ {0}
    BY <2>2, NumberAssumption DEF ReserveCall
  <2>. QED BY <2>3, <2>4, <2>5, WholeSeconds DEF TimedLease
<1>4. CASE ChunkEmbedded(i)
  <2>1. PICK v : chunk'[i] = [Unleased(chunk[i], "done") EXCEPT !.vector = v]
    BY <1>4 DEF ChunkEmbedded
  <2>. QED BY <1>1, <2>1 DEF Unleased, TimedLease, Chunk
<1>5. CASE ChunkFailed(i) \/ ChunkDeleted(i) \/ ChunkSwept(i) \/ ChunkRequeued(i)
  <2>1. PICK s \in {"pending", "failed", "deleted"} : chunk'[i] = Unleased(chunk[i], s)
    BY <1>5 DEF ChunkFailed, ChunkDeleted, ChunkSwept, ChunkRequeued
  <2>. QED BY <1>1, <2>1, UnleasedShape DEF TimedLease, Status, Settled
<1>6. CASE ChunkAdded(i)
  BY <1>6 DEF ChunkAdded, Cut, NoChunk, TimedLease
<1>. QED BY <1>1, <1>2, <1>3, <1>4, <1>5, <1>6 DEF ChunkStep

\* A chunk whose vector would still be accepted is not given to another worker, and one
\* whose vector would not be is queued again within a second, however the seconds of
\* the token and the ticks of the row fall.
THEOREM SweepsFollowTheToken == Spec => SweepsFollowTokens
<1>1. Init => \A i \in Id : TimedLease(i)
  BY DEF Init, TimedLease, NoChunk
<1>2. TypeOK /\ Known /\ LeaseShape /\ (\A i \in Id : TimedLease(i)) /\ [Next]_vars
        => (\A i \in Id : TimedLease(i))'
  BY TimedLeaseStep
<1>3. TypeOK /\ LeaseShape /\ (\A i \in Id : TimedLease(i)) /\ SweepExpired =>
        \A i \in Id : chunk[i].status = "leased" =>
          LET second == chunk[i].token.exp * TicksPerSecond
          IN  IF chunk'[i].status = "leased" THEN now < second + TicksPerSecond
              ELSE now > second
  <2>. SUFFICES ASSUME TypeOK, LeaseShape, \A i \in Id : TimedLease(i), SweepExpired,
                       NEW i \in Id, chunk[i].status = "leased"
                PROVE  IF chunk'[i].status = "leased"
                       THEN now < chunk[i].token.exp * TicksPerSecond + TicksPerSecond
                       ELSE now > chunk[i].token.exp * TicksPerSecond
    OBVIOUS
  <2>. DEFINE second == chunk[i].token.exp * TicksPerSecond
  <2>1. chunk[i] \in Chunk /\ now \in Nat
    BY NumberAssumption DEF TypeOK
  <2>2. chunk[i].token # None /\ chunk[i].expires # None
    BY DEF LeaseShape
  <2>3. chunk[i].token.exp \in Nat /\ chunk[i].expires \in Nat /\ TicksPerSecond \in Nat
    BY <2>1, <2>2, NumberAssumption DEF Chunk, Token
  <2>4. second \in Nat /\ second <= chunk[i].expires /\ chunk[i].expires < second + TicksPerSecond
    BY <2>2, <2>3 DEF TimedLease
  <2>5. CASE chunk[i].expires < now
    <3>1. chunk'[i].status = "pending"
      BY <2>1, <2>5, UnleasedShape DEF SweepExpired, Expired, Status
    <3>. HIDE DEF second
    <3>2. now > second
      BY <2>1, <2>3, <2>4, <2>5
    <3>. QED BY <3>1, <3>2 DEF second
  <2>6. CASE ~(chunk[i].expires < now)
    <3>1. chunk'[i] = chunk[i]
      BY <2>6 DEF SweepExpired, Expired
    <3>. HIDE DEF second
    <3>2. now < second + TicksPerSecond
      BY <2>1, <2>3, <2>4, <2>6
    <3>. QED BY <3>1, <3>2 DEF second
  <2>. QED BY <2>5, <2>6
<1>. QED BY <1>1, <1>2, <1>3, EmbedTyping, WholeEmbedLeases, PTL DEF Spec, SweepsFollowTokens

-----------------------------------------------------------------------------
(***************************************************************************)
(* What is marked is in the vector store.  Rechunk takes out only points   *)
(* of chunks it has deleted, and a deleted chunk stays deleted.            *)
(***************************************************************************)

StaleAreDeleted ==
  rechunk # None => \A i \in rechunk.stale : chunk[i].status = "deleted"

StoredHaveAPoint ==
  \A c \in answering : c.stage = "stored" =>
    \/ c.token.id \in points[c.coll]
    \/ chunk[c.token.id].status = "deleted"

LEMMA DeletedStays ==
  ASSUME TypeOK, Known, LeaseShape, [Next]_vars, NEW i \in Id, chunk[i].status = "deleted"
  PROVE  chunk'[i] = chunk[i]
<1>1. ChunkStep(i)
  BY ChunkStepLemma
<1>2. ~ ChunkEmbedded(i) /\ ~ ChunkFailed(i)
  BY AnswersMatchLeases
<1>3. /\ ~ ChunkGranted(i) /\ ~ ChunkSwept(i) /\ ~ ChunkRequeued(i)
      /\ ~ ChunkDeleted(i) /\ ~ ChunkAdded(i)
  BY DEF ChunkGranted, ChunkSwept, ChunkRequeued, ChunkDeleted, ChunkAdded, Expired, Known
<1>. QED BY <1>1, <1>2, <1>3 DEF ChunkStep

\* What rechunk has replaced stays replaced, whoever still holds a token for it.
THEOREM ReplacedChunksAreGone == Spec => ReplacedAreGone
<1>1. TypeOK /\ Known /\ LeaseShape /\ [Next]_vars =>
        \A i \in Id : chunk[i].status = "deleted" => chunk'[i] = chunk[i]
  BY DeletedStays
<1>. QED BY <1>1, EmbedTyping, WholeEmbedLeases, PTL DEF Spec, ReplacedAreGone

\* A point stays until rechunk takes out that of a replaced chunk.
LEMMA PointsStep ==
  ASSUME TypeOK, [Next]_vars, NEW s \in Store, NEW i \in points[s]
  PROVE  i \in points'[s] \/ (rechunk # None /\ i \in rechunk.stale)
<1>. DEFINE Goal == i \in points'[s] \/ (rechunk # None /\ i \in rechunk.stale)
<1>1. ASSUME points' = points PROVE Goal
  BY <1>1
<1>2. CASE UNCHANGED vars
  BY <1>1, <1>2 DEF vars
<1>3. CASE Extraction
  BY <1>1, <1>3 DEF Extraction, UpsertText, InsertMany
<1>4. ASSUME NEW w \in Worker, NEW n \in Batches, ReserveBegin(w, n) PROVE Goal
  BY <1>1, <1>4 DEF ReserveBegin
<1>5. ASSUME NEW c \in reserving, ReserveBatch(c) PROVE Goal
  BY <1>1, <1>5 DEF ReserveBatch
<1>6. ASSUME NEW t \in issued, AnswerBegin(t) PROVE Goal
  BY <1>1, <1>6 DEF AnswerBegin
<1>7. ASSUME NEW c \in answering, Upsert(c) PROVE Goal
  BY <1>7 DEF Upsert, TypeOK
<1>8. ASSUME NEW c \in answering, LoadContext(c) \/ MarkEmbedded(c) \/ MarkEmbedFailed(c)
      PROVE  Goal
  BY <1>1, <1>8 DEF LoadContext, MarkEmbedded, MarkEmbedFailed
<1>9. CASE DeletePoints
  BY <1>9 DEF DeletePoints, TypeOK
<1>10. ASSUME NEW c \in Coll \cup {None}, NEW n \in Limits, RechunkBegin(c, n) PROVE Goal
  BY <1>1, <1>10 DEF RechunkBegin
<1>11. CASE RechunkList \/ RechunkEnds
  BY <1>1, <1>11 DEF RechunkList, RechunkEnds
<1>12. ASSUME NEW c \in rechunk.todo, NEW z \in Size, ReplaceByDocument(c, z) PROVE Goal
  BY <1>1, <1>12 DEF ReplaceByDocument
<1>13. CASE SweepExpired \/ Requeue \/ CallFails \/ Tick
  BY <1>1, <1>13 DEF SweepExpired, Requeue, RequeueByFilter, CallFails, Tick
<1>. QED
  BY <1>2, <1>3, <1>4, <1>5, <1>6, <1>7, <1>8, <1>9, <1>10, <1>11, <1>12, <1>13
     DEF Next, Answer, Rechunking

LEMMA StaleStep ==
  ASSUME TypeOK, Known, LeaseShape, StaleAreDeleted, [Next]_vars
  PROVE  StaleAreDeleted'
<1>1. ASSUME rechunk' = None \/ (rechunk # None /\ rechunk'.stale \subseteq rechunk.stale)
      PROVE  StaleAreDeleted'
  <2>1. CASE rechunk' = None
    BY <2>1 DEF StaleAreDeleted
  <2>2. CASE rechunk # None /\ rechunk'.stale \subseteq rechunk.stale
    <3>1. rechunk.stale \subseteq Id
      BY <2>2 DEF TypeOK, Rechunk
    <3>. QED BY <2>2, <3>1, DeletedStays DEF StaleAreDeleted
  <2>. QED BY <1>1, <2>1, <2>2
<1>2. ASSUME rechunk' = rechunk PROVE StaleAreDeleted'
  BY <1>1, <1>2
<1>3. ASSUME rechunk' # None, rechunk'.stale = {} PROVE StaleAreDeleted'
  BY <1>3 DEF StaleAreDeleted
<1>4. CASE UNCHANGED vars
  BY <1>2, <1>4 DEF vars
<1>5. CASE Extraction
  BY <1>2, <1>5 DEF Extraction, UpsertText, InsertMany
<1>6. ASSUME NEW w \in Worker, NEW n \in Batches, ReserveBegin(w, n) PROVE StaleAreDeleted'
  BY <1>2, <1>6 DEF ReserveBegin
<1>7. ASSUME NEW c \in reserving, ReserveBatch(c) PROVE StaleAreDeleted'
  BY <1>2, <1>7 DEF ReserveBatch
<1>8. ASSUME NEW t \in issued, AnswerBegin(t) PROVE StaleAreDeleted'
  BY <1>2, <1>8 DEF AnswerBegin
<1>9. CASE Answer
  BY <1>2, <1>9 DEF Answer, LoadContext, Upsert, MarkEmbedded, MarkEmbedFailed
<1>10. ASSUME NEW c \in Coll \cup {None}, NEW n \in Limits, RechunkBegin(c, n)
       PROVE  StaleAreDeleted'
  BY <1>1, <1>3, <1>10 DEF RechunkBegin
<1>11. CASE RechunkList
  <2>1. rechunk # None /\ rechunk \in Rechunk
    BY <1>11 DEF RechunkList, TypeOK
  <2>2. rechunk' = None \/ rechunk'.stale = rechunk.stale
    <3>. HIDE DEF LeftAfter
    <3>. QED BY <1>11, <2>1 DEF RechunkList, Rechunk
  <2>. QED BY <1>1, <2>1, <2>2
<1>12. CASE DeletePoints
  <2>1. rechunk \in Rechunk /\ rechunk'.stale = {} /\ rechunk # None
    BY <1>12 DEF DeletePoints, TypeOK, Rechunk
  <2>. QED BY <1>1, <1>3, <2>1
<1>13. CASE RechunkEnds
  BY <1>1, <1>13 DEF RechunkEnds
<1>14. ASSUME rechunk # None, NEW c \in rechunk.todo, NEW z \in Size, ReplaceByDocument(c, z)
       PROVE  StaleAreDeleted'
  <2>1. rechunk \in Rechunk /\ c.doc \in Doc /\ c.text \in Text
    BY <1>14 DEF TypeOK, Rechunk, InsertCall
  <2>2. CASE rechunk' = [rechunk EXCEPT !.todo = @ \ {c}, !.since = c.doc]
    <3>1. rechunk'.stale = rechunk.stale
      BY <2>1, <2>2 DEF Rechunk
    <3>. QED BY <1>1, <1>14, <3>1
  <2>3. CASE /\ chunk' = WithCut([i \in Id |-> IF i \in Live(c.doc)
                                               THEN Unleased(chunk[i], "deleted")
                                               ELSE chunk[i]],
                                 c.doc, c.text, z, 1..Pieces[c.text, z])
             /\ rechunk' = [rechunk EXCEPT !.todo = @ \ {c}, !.since = c.doc,
                              !.stale = IF rechunk.coll = None THEN {} ELSE Live(c.doc)]
    <3>1. rechunk'.stale \subseteq Live(c.doc)
      BY <2>1, <2>3 DEF Rechunk
    <3>2. ASSUME NEW i \in Live(c.doc) PROVE chunk'[i].status = "deleted"
      <4>1. i \in Id /\ chunk[i] \in Chunk /\ chunk[i].doc \in Doc
        BY <2>1 DEF Live, TypeOK
      <4>2. chunk[i].status # "absent"
        BY <4>1, NullAssumption DEF Known, NoChunk, Doc
      <4>3. i \notin {j \in Id : j > drawn}
        BY <4>2 DEF Known
      <4>4. ~ (i - drawn \in 1..Pieces[c.text, z])
        BY <2>1, <4>1, <4>3, CutIndices, DrawnType, PiecesType
      <4>5. chunk'[i] = Unleased(chunk[i], "deleted")
        BY <2>3, <3>2, <4>1, <4>4 DEF WithCut
      <4>. QED BY <4>1, <4>5, UnleasedShape DEF Status
    <3>. QED BY <3>1, <3>2 DEF StaleAreDeleted
  <2>. QED BY <1>14, <2>2, <2>3 DEF ReplaceByDocument
<1>15. CASE SweepExpired \/ Requeue \/ CallFails \/ Tick
  BY <1>2, <1>15 DEF SweepExpired, Requeue, RequeueByFilter, CallFails, Tick
<1>. QED
  BY <1>4, <1>5, <1>6, <1>7, <1>8, <1>9, <1>10, <1>11, <1>12, <1>13, <1>14, <1>15
     DEF Next, Rechunking

\* What is stored for a chunk that is not deleted stays stored.
LEMMA PointStays ==
  ASSUME TypeOK, Known, LeaseShape, StaleAreDeleted, [Next]_vars,
         NEW s \in Store, NEW i \in points[s]
  PROVE  i \in points'[s] \/ chunk'[i].status = "deleted"
<1>1. CASE i \in points'[s]
  BY <1>1
<1>2. CASE rechunk # None /\ i \in rechunk.stale
  <2>1. i \in Id /\ chunk[i].status = "deleted"
    BY <1>2 DEF TypeOK, StaleAreDeleted
  <2>. QED BY <2>1, DeletedStays
<1>. QED BY <1>1, <1>2, PointsStep

LEMMA StoredStep ==
  ASSUME TypeOK, Known, LeaseShape, StaleAreDeleted, StoredHaveAPoint, [Next]_vars
  PROVE  StoredHaveAPoint'
<1>. SUFFICES ASSUME NEW d \in answering', d.stage = "stored"
              PROVE  \/ d.token.id \in points'[d.coll]
                     \/ chunk'[d.token.id].status = "deleted"
  BY DEF StoredHaveAPoint
<1>1. CASE d \in answering
  <2>1. d.coll \in Store /\ d.token.id \in Id
    BY <1>1 DEF Known, TypeOK, AnswerCall, Token
  <2>2. CASE d.token.id \in points[d.coll]
    BY <2>1, <2>2, PointStays
  <2>3. CASE chunk[d.token.id].status = "deleted"
    BY <2>1, <2>3, DeletedStays
  <2>. QED BY <1>1, <2>2, <2>3 DEF StoredHaveAPoint
<1>2. CASE d \notin answering
  <2>1. PICK c \in answering : /\ c.stage = "loaded" /\ d = [c EXCEPT !.stage = "stored"]
                               /\ points' = [points EXCEPT ![c.coll] = @ \cup {c.token.id}]
    BY <1>2, AnswerStepLemma DEF AnswerStep
  <2>2. c.coll \in Store /\ d.coll = c.coll /\ d.token = c.token
    BY <2>1 DEF Known, TypeOK, AnswerCall
  <2>. QED BY <2>1, <2>2 DEF TypeOK
<1>. QED BY <1>1, <1>2

\* EmbeddedIsSearchable of one row.
Searchable(i) ==
  chunk[i].status = "done" /\ chunk[i].vector \in Store => i \in points[chunk[i].vector]

LEMMA SearchableStep ==
  ASSUME TypeOK, Known, LeaseShape, StaleAreDeleted, StoredHaveAPoint, [Next]_vars,
         NEW i \in Id, Searchable(i)
  PROVE  Searchable(i)'
<1>1. ChunkStep(i) /\ chunk[i] \in Chunk
  BY ChunkStepLemma DEF TypeOK
<1>2. CASE chunk'[i] = chunk[i]
  <2>. SUFFICES ASSUME chunk[i].status = "done", chunk[i].vector \in Store
                PROVE  i \in points'[chunk[i].vector]
    BY <1>2 DEF Searchable
  <2>1. i \in points[chunk[i].vector]
    BY DEF Searchable
  <2>. QED BY <1>2, <2>1, PointStays
<1>3. CASE ChunkEmbedded(i)
  <2>1. PICK c \in answering : /\ c.token.id = i /\ Holds(c.token)
                               /\ c.stage \in {"verified", "stored"}
                               /\ chunk'[i] = [Unleased(chunk[i], "done") EXCEPT
                                                 !.vector = VectorOf(c)]
    BY <1>3 DEF ChunkEmbedded
  <2>2. VectorOf(c) \in Store \cup {None, "elsewhere"}
    BY DEF TypeOK, AnswerCall, VectorOf
  <2>3. chunk'[i].status = "done" /\ chunk'[i].vector = VectorOf(c)
    BY <1>1, <2>1, <2>2, EmbeddedShape
  <2>4. CASE c.stage = "verified"
    BY <2>3, <2>4, NullAssumption DEF VectorOf, Searchable
  <2>5. CASE c.stage = "stored"
    <3>1. VectorOf(c) = c.coll /\ c.coll \in Store
      BY <2>5 DEF VectorOf, Known
    <3>2. chunk[i].status = "leased"
      BY <2>1 DEF Holds
    <3>3. i \in points[c.coll]
      BY <2>1, <2>5, <3>2 DEF StoredHaveAPoint
    <3>4. i \in points'[c.coll]
      BY <2>3, <3>1, <3>3, PointStays
    <3>. QED BY <2>3, <3>1, <3>4 DEF Searchable
  <2>. QED BY <2>1, <2>4, <2>5
<1>4. CASE \/ ChunkFailed(i) \/ ChunkDeleted(i) \/ ChunkSwept(i) \/ ChunkRequeued(i)
  <2>1. PICK s \in {"pending", "failed", "deleted"} : chunk'[i] = Unleased(chunk[i], s)
    BY <1>4 DEF ChunkFailed, ChunkDeleted, ChunkSwept, ChunkRequeued
  <2>2. chunk'[i].status # "done"
    BY <1>1, <2>1, UnleasedShape DEF Status, Settled
  <2>. QED BY <2>2 DEF Searchable
<1>5. CASE ChunkGranted(i)
  <2>1. chunk'[i].status = "leased"
    BY <1>1, <1>5, LeasedShape DEF ChunkGranted, TypeOK
  <2>. QED BY <2>1 DEF Searchable
<1>6. CASE ChunkAdded(i)
  BY <1>6 DEF ChunkAdded, Cut, NoChunk, Searchable
<1>. QED BY <1>1, <1>2, <1>3, <1>4, <1>5, <1>6 DEF ChunkStep

\* A chunk that is marked with a place in the vector store has its point there,
\* whoever stored it and whatever rechunk takes out.
THEOREM MarkedChunksAreSearchable == Spec => []EmbeddedIsSearchable
<1>1. Init => StaleAreDeleted /\ StoredHaveAPoint /\ EmbeddedIsSearchable
  BY DEF Init, StaleAreDeleted, StoredHaveAPoint, EmbeddedIsSearchable, NoChunk
<1>2. TypeOK /\ Known /\ LeaseShape /\ StaleAreDeleted /\ StoredHaveAPoint
        /\ EmbeddedIsSearchable /\ [Next]_vars
        => (StaleAreDeleted /\ StoredHaveAPoint /\ EmbeddedIsSearchable)'
  <2>. SUFFICES ASSUME TypeOK, Known, LeaseShape, StaleAreDeleted, StoredHaveAPoint,
                       EmbeddedIsSearchable, [Next]_vars
                PROVE  (StaleAreDeleted /\ StoredHaveAPoint /\ EmbeddedIsSearchable)'
    OBVIOUS
  <2>1. \A i \in Id : Searchable(i)
    BY DEF EmbeddedIsSearchable, Searchable
  <2>2. \A i \in Id : Searchable(i)'
    BY <2>1, SearchableStep
  <2>3. EmbeddedIsSearchable'
    BY <2>2 DEF EmbeddedIsSearchable, Searchable
  <2>. QED BY <2>3, StaleStep, StoredStep
<1>. QED BY <1>1, <1>2, EmbedTyping, WholeEmbedLeases, PTL DEF Spec

-----------------------------------------------------------------------------
(***************************************************************************)
(* The chunks are a leased work queue.                                     *)
(***************************************************************************)

ItemStep(i) ==
  \/ Queue!Add(i) \/ Queue!Grant(i) \/ Queue!Finish(i)
  \/ Queue!Release(i) \/ Queue!Revive(i) \/ Queue!Keep(i)

LEMMA ItemStates ==
  /\ ItemState("absent") = "absent" /\ ItemState("pending") = "idle"
  /\ ItemState("deleted") = "idle" /\ ItemState("leased") = "held"
  /\ \A s \in {"done", "failed"} : ItemState(s) = "finished"
BY DEF ItemState, Settled

LEMMA ItemStateType ==
  \A s \in Status : ItemState(s) \in {"absent", "idle", "held", "finished"}
BY ItemStates DEF Status, Settled

LEMMA ChunkIsItem ==
  ASSUME TypeOK, TypeOK', Known, LeaseShape, [Next]_vars, NEW i \in Id
  PROVE  ItemStep(i)
<1>1. ChunkStep(i) /\ chunk[i] \in Chunk /\ chunk'[i] \in Chunk
  BY ChunkStepLemma DEF TypeOK
<1>2. CASE chunk'[i] = chunk[i]
  BY <1>2 DEF ItemStep, Queue!Keep, Queue!Becomes
<1>3. CASE ChunkGranted(i)
  <2>1. PICK c \in reserving : chunk[i].status = "pending" /\ chunk'[i] = Leased(chunk[i], i, c)
    BY <1>3 DEF ChunkGranted
  <2>2. chunk'[i].status = "leased" /\ chunk'[i].token = TokenOf(i, c) /\ TokenOf(i, c) \in Token
    BY <1>1, <2>1, LeasedShape, TokenOfType DEF TypeOK
  <2>. QED BY <2>1, <2>2, ItemStates DEF ItemStep, Queue!Grant
<1>4. CASE ChunkEmbedded(i)
  <2>1. PICK c \in answering : /\ Holds(c.token) /\ c.token.id = i
                               /\ chunk'[i] = [Unleased(chunk[i], "done") EXCEPT
                                                 !.vector = VectorOf(c)]
    BY <1>4 DEF ChunkEmbedded
  <2>2. chunk'[i].status = "done" /\ chunk'[i].token = None
    BY <1>1, <2>1 DEF Unleased, Chunk
  <2>3. chunk[i].status = "leased" /\ chunk[i].token \in {d.token : d \in answering}
    BY <2>1 DEF Holds
  <2>. QED BY <2>2, <2>3, ItemStates DEF ItemStep, Queue!Finish, Queue!Becomes
<1>5. CASE ChunkFailed(i)
  <2>1. PICK c \in answering, s \in {"pending", "failed"} :
          chunk[i].token = c.token /\ chunk'[i] = Unleased(chunk[i], s)
    BY <1>5 DEF ChunkFailed
  <2>2. chunk'[i].status = s /\ chunk'[i].token = None
    BY <1>1, <2>1, UnleasedShape DEF Status, Settled
  <2>3. chunk[i].status = "leased" /\ chunk[i].token \in {d.token : d \in answering}
    BY <1>5, <2>1, AnswersMatchLeases
  <2>4. CASE s = "pending"
    BY <2>2, <2>3, <2>4, ItemStates DEF ItemStep, Queue!Release, Queue!Becomes
  <2>5. CASE s = "failed"
    BY <2>2, <2>3, <2>5, ItemStates DEF ItemStep, Queue!Finish, Queue!Becomes
  <2>. QED BY <2>4, <2>5
<1>6. CASE ChunkAdded(i)
  <2>1. chunk[i].status = "absent"
    BY <1>6 DEF ChunkAdded, Known
  <2>2. chunk'[i].status = "pending" /\ chunk'[i].token = None
    BY <1>6 DEF ChunkAdded, Cut, NoChunk
  <2>. QED BY <2>1, <2>2, ItemStates DEF ItemStep, Queue!Add, Queue!Becomes
<1>7. CASE ChunkDeleted(i) \/ ChunkSwept(i) \/ ChunkRequeued(i)
  <2>1. PICK s \in {"pending", "deleted"} : chunk'[i] = Unleased(chunk[i], s)
    BY <1>7 DEF ChunkDeleted, ChunkSwept, ChunkRequeued
  <2>0. chunk'[i].status = s /\ chunk'[i].token = None
    BY <1>1, <2>1, UnleasedShape DEF Status
  <2>2. ItemState(chunk'[i].status) = "idle" /\ chunk'[i].token = None
    BY <2>0, ItemStates
  <2>3. chunk[i].status \notin {"absent", "deleted"}
    BY <1>7, NullAssumption
       DEF ChunkDeleted, ChunkSwept, ChunkRequeued, Expired, Known, NoChunk, Doc
  <2>4. CASE chunk[i].status = "pending"
    <3>1. chunk[i].token = None
      BY <2>4 DEF LeaseShape
    <3>. QED BY <2>2, <2>4, <3>1, ItemStates DEF ItemStep, Queue!Keep, Queue!Becomes
  <2>5. CASE chunk[i].status = "leased"
    BY <2>2, <2>5, ItemStates DEF ItemStep, Queue!Release, Queue!Becomes
  <2>6. CASE chunk[i].status \in {"done", "failed"}
    BY <2>2, <2>6, ItemStates DEF ItemStep, Queue!Revive, Queue!Becomes
  <2>. QED BY <1>1, <2>3, <2>4, <2>5, <2>6 DEF Chunk, Status, Settled
<1>. QED BY <1>1, <1>2, <1>3, <1>4, <1>5, <1>6, <1>7 DEF ChunkStep

\* A chunk is embedded under one token at a time and marked only by an answer that
\* carries it, whatever rechunk does to the same rows.
THEOREM ChunksAreALeaseQueue == Spec => ImplementsLeaseQueue
<1>1. Init => Queue!Init
  BY ItemStates DEF Init, NoChunk, Queue!Init
<1>2. TypeOK /\ TypeOK' /\ Known /\ LeaseShape /\ [Next]_vars => [Queue!Next]_Queue!vars
  <2>. SUFFICES ASSUME TypeOK, TypeOK', Known, LeaseShape, [Next]_vars
                PROVE  Queue!Next
    OBVIOUS
  <2>1. \A i \in Id : ItemStep(i)
    BY ChunkIsItem
  <2>2. \A i \in Id : /\ ItemState(chunk'[i].status) \in {"absent", "idle", "held", "finished"}
                      /\ chunk'[i].token \in Token \cup {None}
    BY ItemStateType DEF TypeOK, Chunk
  <2>3. \A c \in answering' : c.token \in Token
    BY DEF TypeOK, AnswerCall
  <2>. QED BY <2>1, <2>2, <2>3 DEF Queue!Next, ItemStep
<1>. QED BY <1>1, <1>2, EmbedTyping, WholeEmbedLeases, PTL
         DEF Spec, ImplementsLeaseQueue, Queue!Spec

-----------------------------------------------------------------------------
(***************************************************************************)
(* A document's chunks are one whole cut.  Only an extraction and rechunk  *)
(* add or delete chunks, and only rechunk where there are some already.    *)
(***************************************************************************)

SameCut(i) ==
  /\ chunk'[i].doc = chunk[i].doc /\ chunk'[i].text = chunk[i].text
  /\ chunk'[i].size = chunk[i].size /\ chunk'[i].index = chunk[i].index
  /\ chunk'[i].status = "deleted" <=> chunk[i].status = "deleted"

Replaces == /\ rechunk # None
            /\ \E c \in rechunk.todo, z \in Size : ReplaceByDocument(c, z)
Inserts == \E c \in inserting, z \in Size : InsertMany(c, z)

LEMMA OthersKeepCuts ==
  ASSUME TypeOK, LeaseShape, [Next]_vars, ~ Replaces, ~ Inserts, NEW i \in Id
  PROVE  SameCut(i)
<1>0. chunk[i] \in Chunk
  BY DEF TypeOK
<1>1. ASSUME chunk' = chunk PROVE SameCut(i)
  BY <1>1 DEF SameCut
<1>2. ASSUME NEW s \in {"pending", "failed"}, chunk[i].status # "deleted",
             chunk'[i] = chunk[i] \/ chunk'[i] = Unleased(chunk[i], s)
      PROVE  SameCut(i)
  BY <1>0, <1>2, UnleasedShape DEF SameCut, Status, Settled
<1>3. CASE UNCHANGED vars
  BY <1>1, <1>3 DEF vars
<1>4. CASE Extraction
  BY <1>1, <1>4 DEF Extraction, UpsertText, Inserts
<1>5. ASSUME NEW w \in Worker, NEW n \in Batches, ReserveBegin(w, n) PROVE SameCut(i)
  BY <1>1, <1>5 DEF ReserveBegin
<1>6. ASSUME NEW c \in reserving, ReserveBatch(c) PROVE SameCut(i)
  <2>1. CASE i \in Picks(c)
    <3>1. chunk[i].status = "pending" /\ chunk'[i] = Leased(chunk[i], i, c)
      BY <1>6, <2>1 DEF ReserveBatch, Picks, Lowest
    <3>. QED BY <1>0, <3>1, LeasedShape DEF SameCut, TypeOK
  <2>2. CASE i \notin Picks(c)
    BY <1>6, <2>2 DEF ReserveBatch, SameCut
  <2>. QED BY <2>1, <2>2
<1>7. ASSUME NEW t \in issued, AnswerBegin(t) PROVE SameCut(i)
  BY <1>1, <1>7 DEF AnswerBegin
<1>8. ASSUME NEW c \in answering, LoadContext(c) \/ Upsert(c) PROVE SameCut(i)
  BY <1>1, <1>8 DEF LoadContext, Upsert
<1>9. ASSUME NEW c \in answering, MarkEmbedded(c) PROVE SameCut(i)
  <2>1. CASE chunk'[i] = chunk[i]
    BY <2>1 DEF SameCut
  <2>2. CASE chunk'[i] # chunk[i]
    <3>1. /\ chunk[i].status = "leased"
          /\ chunk'[i] = [Unleased(chunk[i], "done") EXCEPT !.vector = VectorOf(c)]
      BY <1>9, <2>2 DEF MarkEmbedded, Holds, TypeOK
    <3>2. VectorOf(c) \in Store \cup {None, "elsewhere"}
      BY DEF TypeOK, AnswerCall, VectorOf
    <3>. QED BY <1>0, <3>1, <3>2, EmbeddedShape DEF SameCut
  <2>. QED BY <2>1, <2>2
<1>10. ASSUME NEW c \in answering, MarkEmbedFailed(c) PROVE SameCut(i)
  <2>1. CASE chunk'[i] = chunk[i]
    BY <2>1 DEF SameCut
  <2>2. CASE chunk'[i] # chunk[i]
    <3>1. PICK s \in {"pending", "failed"} :
            chunk[i].token = c.token /\ chunk'[i] = Unleased(chunk[i], s)
      BY <1>10, <2>2 DEF MarkEmbedFailed, Fails, TypeOK
    <3>2. chunk[i].status = "leased"
      BY <3>1, NullAssumption DEF LeaseShape, TypeOK, AnswerCall
    <3>. QED BY <1>2, <3>1, <3>2
  <2>. QED BY <2>1, <2>2
<1>11. CASE Rechunking
  BY <1>1, <1>11 DEF Rechunking, RechunkBegin, RechunkList, DeletePoints, RechunkEnds, Replaces
<1>12. CASE SweepExpired
  BY <1>1, <1>2, <1>12 DEF SweepExpired, Expired, SameCut
<1>13. CASE Requeue
  BY <1>1, <1>2, <1>13 DEF Requeue, RequeueByFilter, Matches, SameCut
<1>14. CASE CallFails \/ Tick
  BY <1>1, <1>14 DEF CallFails, Tick
<1>. QED
  BY <1>3, <1>4, <1>5, <1>6, <1>7, <1>8, <1>9, <1>10, <1>11, <1>12, <1>13, <1>14
     DEF Next, Answer

\* ChunksAreOneCut of one document.
CutAt(d, x, z, before) ==
  /\ Live(d) = before + 1 .. before + Pieces[x, z]
  /\ \A i \in Live(d) : /\ chunk[i].text = x /\ chunk[i].size = z
                        /\ chunk[i].index = i - before
OneCut(d) ==
  Live(d) = {} \/ \E x \in Text, z \in Size, before \in 0..MaxChunks : CutAt(d, x, z, before)

\* Rows whose documents, cuts and deletions stay leave the document one cut.
LEMMA SameCutStep ==
  ASSUME NEW d \in Doc, OneCut(d), \A i \in Id : SameCut(i) \/ (i \notin Live(d) /\ i \notin Live(d)')
  PROVE  OneCut(d)'
<1>1. Live(d)' = Live(d)
  BY DEF Live, SameCut
<1>2. CASE Live(d) = {}
  BY <1>1, <1>2 DEF OneCut
<1>3. CASE Live(d) # {}
  <2>1. PICK x \in Text, z \in Size, before \in 0..MaxChunks : CutAt(d, x, z, before)
    BY <1>3 DEF OneCut
  <2>2. \A i \in Live(d) : SameCut(i)
    BY DEF Live
  <2>3. CutAt(d, x, z, before)'
    BY <1>1, <2>1, <2>2 DEF CutAt, SameCut
  <2>. QED BY <2>3 DEF OneCut
<1>. QED BY <1>2, <1>3

LEMMA DrawnInARow ==
  ASSUME NEW m \in Nat, NEW n \in Nat, m + n <= MaxChunks
  PROVE  {i \in Id : i - m \in 1..n} = m + 1 .. m + n
BY NumberAssumption DEF Id

\* A document without chunks that is cut is one cut.
LEMMA FreshCut ==
  ASSUME TypeOK, NEW d \in Doc, NEW x \in Text, NEW z \in Size, Draws(x, z),
         \A i \in Id : IF i - drawn \in 1..Pieces[x, z] THEN chunk'[i] = Cut(i, d, x, z)
                       ELSE chunk'[i].doc # d \/ chunk'[i].status = "deleted"
  PROVE  OneCut(d)'
<1>. DEFINE n == Pieces[x, z]
<1>1. n \in Nat
  BY PiecesType
<1>2. drawn \in Nat /\ drawn + n <= MaxChunks /\ MaxChunks \in Nat
  BY DrawnType, NumberAssumption DEF Draws
<1>3. \A i \in Id : i - drawn \in 1..n => /\ chunk'[i].doc = d /\ chunk'[i].status # "deleted"
                                          /\ chunk'[i].text = x /\ chunk'[i].size = z
                                          /\ chunk'[i].index = i - drawn
  BY DEF Cut, NoChunk
<1>4. \A i \in Id : i \in Live(d)' <=> i - drawn \in 1..n
  BY <1>3 DEF Live
<1>. HIDE DEF n
<1>5. {i \in Id : i - drawn \in 1..n} = drawn + 1 .. drawn + n
  BY <1>1, <1>2, DrawnInARow
<1>6. Live(d)' = drawn + 1 .. drawn + n
  BY <1>4, <1>5 DEF Live
<1>7. drawn \in 0..MaxChunks
  BY DEF TypeOK
<1>8. \A i \in Live(d)' : /\ chunk'[i].text = x /\ chunk'[i].size = z
                          /\ chunk'[i].index = i - drawn
  BY <1>3, <1>4 DEF Live
<1>9. \E before \in 0..MaxChunks :
        /\ Live(d)' = before + 1 .. before + n
        /\ \A i \in Live(d)' : /\ chunk'[i].text = x /\ chunk'[i].size = z
                               /\ chunk'[i].index = i - before
  BY <1>6, <1>7, <1>8
<1>. QED BY <1>9 DEF OneCut, CutAt, n

LEMMA NoneIsNoDoc == None \notin Doc
BY NullAssumption DEF Doc

LEMMA InsertStep ==
  ASSUME TypeOK, Known, NEW c \in inserting, NEW z \in Size, InsertMany(c, z),
         NEW d \in Doc, OneCut(d)
  PROVE  OneCut(d)'
<1>. DEFINE x == c.text
            n == Pieces[x, z]
<1>1. c.doc \in Doc /\ x \in Text /\ n \in Nat
  BY PiecesType DEF TypeOK, InsertCall
<1>2. CASE chunk' = chunk
  BY <1>2, SameCutStep DEF SameCut
<1>3. ASSUME chunk' # chunk
      PROVE  /\ Taken(c.doc) \cap 1..n = {} /\ 1 \in 1..n
             /\ chunk' = WithCut(chunk, c.doc, x, z, 1..n)
  <2>1. chunk = [i \in Id |-> chunk[i]]
    BY DEF TypeOK
  <2>2. chunk' = WithCut(chunk, c.doc, x, z, Added(c.doc, x, z))
    BY DEF InsertMany
  <2>3. Added(c.doc, x, z) # {}
    BY <1>3, <2>1, <2>2 DEF WithCut
  <2>4. Taken(c.doc) \cap 1..n = {} /\ Added(c.doc, x, z) = 1..n
    BY <2>3 DEF Added
  <2>. HIDE DEF n
  <2>5. 1 \in 1..n
    BY <1>1, <2>3, <2>4
  <2>. QED BY <2>2, <2>4, <2>5
<1>4. ASSUME chunk' # chunk PROVE OneCut(d)'
  <2>1. \A i \in Id : IF i - drawn \in 1..n THEN chunk'[i] = Cut(i, c.doc, x, z)
                      ELSE chunk'[i] = chunk[i]
    BY <1>3, <1>4 DEF WithCut
  <2>2. \A i \in Id : i - drawn \in 1..n => chunk[i] = NoChunk
    <3>1. ASSUME NEW i \in Id, i - drawn \in 1..n PROVE i > drawn
      BY <1>1, <3>1, CutIndices, DrawnType
    <3>. QED BY <3>1 DEF Known
  <2>3. CASE d = c.doc
    <3>1. ASSUME Live(d) # {} PROVE FALSE
      <4>1. PICK y \in Text, w \in Size, before \in 0..MaxChunks : CutAt(d, y, w, before)
        BY <3>1 DEF OneCut
      <4>2. PICK m \in Nat : Live(d) = before + 1 .. before + m
        BY <4>1, PiecesType DEF CutAt
      <4>3. before \in Nat /\ before + 1 \in before + 1 .. before + m
        BY <3>1, <4>2, NumberAssumption
      <4>4. before + 1 \in Live(d)
        BY <4>2, <4>3
      <4>5. chunk[before + 1].index = (before + 1) - before
        BY <4>1, <4>4 DEF CutAt
      <4>6. chunk[before + 1].index = 1
        BY <4>3, <4>5
      <4>7. 1 \in Taken(d)
        BY <4>4, <4>6 DEF Taken
      <4>. QED BY <1>3, <1>4, <2>3, <4>7
    <3>2. \A i \in Id : chunk[i].doc # d \/ chunk[i].status = "deleted"
      BY <3>1 DEF Live
    <3>3. Draws(x, z)
      BY DEF InsertMany
    <3>4. \A i \in Id : IF i - drawn \in 1..n THEN chunk'[i] = Cut(i, d, x, z)
                        ELSE chunk'[i].doc # d \/ chunk'[i].status = "deleted"
      BY <2>1, <2>3, <3>2
    <3>. QED BY <1>1, <3>3, <3>4, FreshCut
  <2>4. CASE d # c.doc
    <3>1. ASSUME NEW i \in Id, i - drawn \in 1..n PROVE i \notin Live(d) /\ i \notin Live(d)'
      <4>0. chunk[i] = NoChunk /\ chunk'[i] = Cut(i, c.doc, x, z)
        BY <2>1, <2>2, <3>1
      <4>. HIDE DEF n, x
      <4>1. chunk[i].doc = None /\ chunk'[i].doc = c.doc
        BY <4>0 DEF Cut, NoChunk
      <4>. QED BY <2>4, <4>1, NoneIsNoDoc DEF Live
    <3>2. ASSUME NEW i \in Id, ~ (i - drawn \in 1..n) PROVE SameCut(i)
      BY <2>1, <3>2 DEF SameCut
    <3>. QED BY <3>1, <3>2, SameCutStep
  <2>. QED BY <2>3, <2>4
<1>. QED BY <1>2, <1>4

LEMMA ReplaceStep ==
  ASSUME TypeOK, Known, rechunk # None, NEW c \in rechunk.todo, NEW z \in Size,
         ReplaceByDocument(c, z), NEW d \in Doc, OneCut(d)
  PROVE  OneCut(d)'
<1>. DEFINE x == c.text
            n == Pieces[x, z]
            Gone == [i \in Id |-> IF i \in Live(c.doc) THEN Unleased(chunk[i], "deleted")
                                  ELSE chunk[i]]
<1>1. c.doc \in Doc /\ x \in Text /\ n \in Nat
  BY PiecesType DEF TypeOK, Rechunk, InsertCall
<1>2. CASE chunk' = chunk
  BY <1>2, SameCutStep DEF SameCut
<1>3. CASE chunk' = WithCut(Gone, c.doc, x, z, 1..n)
  <2>1. \A i \in Id : IF i - drawn \in 1..n THEN chunk'[i] = Cut(i, c.doc, x, z)
                      ELSE chunk'[i] = Gone[i]
    BY <1>3 DEF WithCut
  <2>2. \A i \in Id : i - drawn \in 1..n => chunk[i] = NoChunk
    <3>1. ASSUME NEW i \in Id, i - drawn \in 1..n PROVE i > drawn
      BY <1>1, <3>1, CutIndices, DrawnType
    <3>. QED BY <3>1 DEF Known
  <2>3. \A i \in Id : chunk[i] \in Chunk
    BY DEF TypeOK
  <2>4. \A i \in Id : IF i \in Live(c.doc) THEN /\ Gone[i].status = "deleted"
                                                /\ Gone[i].doc = c.doc
                      ELSE Gone[i] = chunk[i]
    BY <2>3, UnleasedShape DEF Status, Live
  <2>. HIDE DEF Gone
  <2>5. CASE d = c.doc
    <3>1. \A i \in Id : IF i - drawn \in 1..n THEN chunk'[i] = Cut(i, d, x, z)
                        ELSE chunk'[i].doc # d \/ chunk'[i].status = "deleted"
      BY <2>1, <2>4, <2>5 DEF Live
    <3>2. Draws(x, z)
      BY DEF ReplaceByDocument
    <3>. QED BY <1>1, <3>1, <3>2, FreshCut
  <2>6. CASE d # c.doc
    <3>1. ASSUME NEW i \in Id, i - drawn \in 1..n PROVE i \notin Live(d) /\ i \notin Live(d)'
      <4>0. chunk[i] = NoChunk /\ chunk'[i] = Cut(i, c.doc, x, z)
        BY <2>1, <2>2, <3>1
      <4>. HIDE DEF n, x
      <4>1. chunk[i].doc = None /\ chunk'[i].doc = c.doc
        BY <4>0 DEF Cut, NoChunk
      <4>. QED BY <2>6, <4>1, NoneIsNoDoc DEF Live
    <3>2. ASSUME NEW i \in Id, ~ (i - drawn \in 1..n), i \in Live(c.doc)
          PROVE  i \notin Live(d) /\ i \notin Live(d)'
      BY <2>1, <2>4, <2>6, <3>2 DEF Live
    <3>3. ASSUME NEW i \in Id, ~ (i - drawn \in 1..n), i \notin Live(c.doc) PROVE SameCut(i)
      BY <2>1, <2>4, <3>3 DEF SameCut
    <3>. QED BY <3>1, <3>2, <3>3, SameCutStep
  <2>. QED BY <2>5, <2>6
<1>. QED BY <1>2, <1>3 DEF ReplaceByDocument

\* A document's chunks are the whole cut of one text at one size, or there are none,
\* however extractions, workers and rechunk interleave, whatever the chunker yields.
THEOREM DocumentsAreOneCut == Spec => []ChunksAreOneCut
<1>1. Init => ChunksAreOneCut
  <2>. SUFFICES ASSUME Init, NEW d \in Doc PROVE Live(d) = {}
    BY DEF ChunksAreOneCut
  <2>1. \A i \in Id : chunk[i].doc = None
    BY DEF Init, NoChunk
  <2>. QED BY <2>1, NoneIsNoDoc DEF Live
<1>2. TypeOK /\ Known /\ LeaseShape /\ ChunksAreOneCut /\ [Next]_vars => ChunksAreOneCut'
  <2>. SUFFICES ASSUME TypeOK, Known, LeaseShape, ChunksAreOneCut, [Next]_vars, NEW d \in Doc
                PROVE  OneCut(d)'
    BY DEF ChunksAreOneCut, OneCut, CutAt
  <2>1. OneCut(d)
    BY DEF ChunksAreOneCut, OneCut, CutAt
  <2>2. CASE Replaces
    BY <2>1, <2>2, ReplaceStep DEF Replaces
  <2>3. CASE Inserts
    BY <2>1, <2>3, InsertStep DEF Inserts
  <2>4. CASE ~ Replaces /\ ~ Inserts
    BY <2>1, <2>4, OthersKeepCuts, SameCutStep
  <2>. QED BY <2>2, <2>3, <2>4
<1>. QED BY <1>1, <1>2, EmbedTyping, WholeEmbedLeases, PTL DEF Spec
=============================================================================
