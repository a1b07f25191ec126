----------------------- MODULE FrontierReserveProofs ------------------------
(***************************************************************************)
(* Proofs about what a reserve may take: the workers' cap on held leases,  *)
(* and, on SQLite, the gap between two reserves of one host.               *)
(***************************************************************************)
EXTENDS FrontierProofs


\* A worker's connections tell its reserves apart, and none was granted more
\* than the cap when it counted.
CallsApart ==
  /\ \A c \in reserving : /\ c.conn \in 1..ReservesPerWorker
                          /\ c.batch <= MaxConcurrent
                          /\ Cardinality(c.picks) <= c.batch
  /\ \A c, e \in reserving : c.worker = e.worker /\ c.conn = e.conn => c = e

\* The leases a worker's reserves in flight were granted, one pair for each: a
\* reserve takes its own away when it commits, whatever the others do.
Granting(w) ==
  {p \in (1..ReservesPerWorker) \X (1..MaxConcurrent) :
     \E c \in reserving : c.worker = w /\ c.conn = p[1] /\ p[2] <= c.batch}
RoomKept ==
  \A w \in Worker :
    Cardinality(Held(w)) + Cardinality(Granting(w)) <= ReservesPerWorker * MaxConcurrent

LEMMA HeldType ==
  ASSUME NEW w
  PROVE  /\ Held(w) \subseteq URL /\ IsFiniteSet(Held(w))
         /\ Cardinality(Held(w)) \in Nat
<1>1. Held(w) \subseteq URL
  BY DEF Held
<1>. QED BY <1>1, FiniteAssumption, FS_Subset, FS_CardinalityType

LEMMA HeldShrinks ==
  ASSUME NEW w, Held(w)' \subseteq Held(w)
  PROVE  /\ Cardinality(Held(w)') \in Nat
         /\ Cardinality(Held(w)') <= Cardinality(Held(w))
BY HeldType, FS_Subset, FS_CardinalityType

\* Only a reserve gives a worker leases.
LEMMA HeldWithoutReserve ==
  ASSUME TypeOK, LeaseShape, [Next]_vars, ~ Reserve, NEW w
  PROVE  Held(w)' \subseteq Held(w)
<1>. SUFFICES ASSUME NEW u \in URL, row'[u].status = "leased", row'[u].holder = w
              PROVE  row[u].status = "leased" /\ row[u].holder = w
  BY DEF Held
<1>1. RowStep(u) /\ row[u] \in Row
  BY RowStepLemma DEF TypeOK
<1>2. ~ RowGranted(u)
  BY DEF RowGranted
<1>3. ~ RowCompleted(u) /\ ~ RowSwept(u)
  BY <1>1, UnleasedShape DEF RowCompleted, RowSwept, Status
<1>4. ~ RowFailed(u) /\ ~ RowFailedBlindly(u)
  BY <1>1, FailedShape DEF RowFailed, RowFailedBlindly
<1>5. ~ RowRequeued(u)
  BY <1>1 DEF RowRequeued, Unleased, Row
<1>6. ~ RowAdded(u)
  BY <1>1, AddedShape DEF RowAdded
<1>7. row'[u] = row[u] \/ RowExtended(u)
  BY <1>1, <1>2, <1>3, <1>4, <1>5, <1>6 DEF RowStep
<1>. QED BY <1>1, <1>7 DEF RowExtended, Row, Holds

LEMMA HeldByReserve ==
  ASSUME TypeOK, NEW c \in reserving, NEW P \in SUBSET URL, LeaseRows(c, P), NEW w
  PROVE  /\ Held(w)' \subseteq Held(w) \cup P
         /\ w # c.worker => Held(w)' \subseteq Held(w)
<1>. SUFFICES ASSUME NEW u \in URL, row'[u].status = "leased", row'[u].holder = w
              PROVE  \/ row[u].status = "leased" /\ row[u].holder = w
                     \/ u \in P /\ w = c.worker
  BY DEF Held
<1>1. CASE u \in Won(P)
  <2>1. u \in P /\ row'[u] = Leased(row[u], u, c)
    BY <1>1 DEF LeaseRows, Won
  <2>. QED BY <2>1, LeasedShape DEF TypeOK
<1>2. CASE u \notin Won(P)
  BY <1>2 DEF LeaseRows
<1>. QED BY <1>1, <1>2

LEMMA HeldAfterReserve ==
  ASSUME TypeOK, NEW c \in reserving, NEW P \in SUBSET URL, LeaseRows(c, P),
         Cardinality(P) <= c.batch, NEW w
  PROVE  /\ Cardinality(Held(w)') <= Cardinality(Held(w)) + c.batch
         /\ w # c.worker => Cardinality(Held(w)') <= Cardinality(Held(w))
<1>1. IsFiniteSet(P) /\ Cardinality(P) \in Nat /\ c.batch \in Nat
  BY FiniteAssumption, FS_Subset, FS_CardinalityType DEF TypeOK, ReserveCall
<1>2. IsFiniteSet(Held(w)) /\ Cardinality(Held(w)) \in Nat
  BY HeldType
<1>3. /\ IsFiniteSet(Held(w) \cup P)
      /\ Cardinality(Held(w) \cup P)
           = Cardinality(Held(w)) + Cardinality(P) - Cardinality(Held(w) \cap P)
  BY <1>1, <1>2, FS_Union
<1>4. Cardinality(Held(w) \cap P) \in Nat
  BY <1>1, <1>2, FS_Subset, FS_CardinalityType
<1>5. /\ Cardinality(Held(w)') \in Nat
      /\ Cardinality(Held(w)') <= Cardinality(Held(w) \cup P)
  BY <1>3, HeldByReserve, FS_Subset, FS_CardinalityType
<1>6. w # c.worker => Cardinality(Held(w)') <= Cardinality(Held(w))
  BY HeldByReserve, HeldShrinks
<1>. QED BY <1>1, <1>2, <1>3, <1>4, <1>5, <1>6

LEMMA RoomOfBatch ==
  ASSUME NEW w, NEW n \in Nat, MaxConcurrent > 0, EffectiveBatch(w, n) > 0
  PROVE  Cardinality(Held(w)) + EffectiveBatch(w, n) <= MaxConcurrent
BY HeldType, CountAssumption DEF EffectiveBatch

\* Every step but a reserve's own leaves the reserves in flight as they are,
\* ends some, or begins one.
LEMMA ReservingStep ==
  ASSUME TypeOK, [Next]_vars, ~ Reserve
  PROVE  \/ reserving' \subseteq reserving
         \/ \E w \in Worker, conn \in 1..ReservesPerWorker, n \in Batches :
              ReserveBegin(w, conn, n)
<1>1. CASE Answer
  BY <1>1 DEF Answer, Heartbeat, Complete, CompleteRow, Fail, FailRead, FailWrite
<1>2. CASE Link \/ CallFails
  BY <1>2 DEF Link, EnqueueMany, ScopeLink, CallFails
<1>3. CASE SweepExpired \/ Requeue \/ Tick \/ UNCHANGED vars
  BY <1>3 DEF SweepExpired, Requeue, RequeueByFilter, Tick, vars
<1>4. CASE Operate
  BY <1>4 DEF Operate, SeedDomain, SetActive, UpdateCrawlDelay,
       UpdateParallelFetches, UpdateRequiredCapability, SetDomain
<1>5. ASSUME NEW t \in issued, AnswerBegin(t) PROVE reserving' \subseteq reserving
  BY <1>5 DEF AnswerBegin
<1>6. ASSUME NEW u \in URL, NEW p \in Priorities, Enqueue(u, p)
      PROVE  reserving' \subseteq reserving
  BY <1>6 DEF Enqueue
<1>. QED BY <1>1, <1>2, <1>3, <1>4, <1>5, <1>6 DEF Next

LEMMA ConnectionsCount ==
  /\ IsFiniteSet(1..ReservesPerWorker) /\ Cardinality(1..ReservesPerWorker) = ReservesPerWorker
  /\ IsFiniteSet(1..MaxConcurrent) /\ Cardinality(1..MaxConcurrent) = MaxConcurrent
<1>1. \A n \in Nat : IsFiniteSet(1..n) /\ Cardinality(1..n) = n
  BY FS_Interval
<1>2. ReservesPerWorker \in Nat /\ MaxConcurrent \in Nat
  BY CountAssumption
<1>. QED BY <1>1, <1>2

LEMMA SlotsCount ==
  ASSUME NEW k, NEW n \in Nat
  PROVE  /\ IsFiniteSet({k} \X (1..n))
         /\ Cardinality({k} \X (1..n)) = n
<1>1. IsFiniteSet({k}) /\ Cardinality({k}) = 1
  BY FS_Singleton
<1>2. IsFiniteSet(1..n) /\ Cardinality(1..n) = n
  BY FS_Interval
<1>3. /\ IsFiniteSet({k} \X (1..n))
      /\ Cardinality({k} \X (1..n)) = Cardinality({k}) * Cardinality(1..n)
  BY <1>1, <1>2, FS_Product
<1>4. Cardinality({k}) * Cardinality(1..n) = n
  BY <1>1, <1>2
<1>. QED BY <1>3, <1>4

LEMMA GrantingType ==
  ASSUME NEW w
  PROVE  IsFiniteSet(Granting(w)) /\ Cardinality(Granting(w)) \in Nat
<1>1. IsFiniteSet(1..ReservesPerWorker) /\ IsFiniteSet(1..MaxConcurrent)
  BY ConnectionsCount
<1>2. IsFiniteSet((1..ReservesPerWorker) \X (1..MaxConcurrent))
  BY <1>1, FS_Product
<1>3. Granting(w) \subseteq (1..ReservesPerWorker) \X (1..MaxConcurrent)
  BY DEF Granting
<1>. QED BY <1>2, <1>3, FS_Subset, FS_CardinalityType

\* The same of the sets a step leaves.
LEMMA PrimedCounts ==
  ASSUME NEW w
  PROVE  Cardinality(Held(w)') \in Nat /\ Cardinality(Granting(w)') \in Nat
<1>1. IsFiniteSet(1..ReservesPerWorker) /\ IsFiniteSet(1..MaxConcurrent)
  BY ConnectionsCount
<1>2. IsFiniteSet((1..ReservesPerWorker) \X (1..MaxConcurrent))
  BY <1>1, FS_Product
<1>3. /\ Granting(w)' \subseteq (1..ReservesPerWorker) \X (1..MaxConcurrent)
      /\ Held(w)' \subseteq URL
  BY DEF Granting, Held
<1>. QED BY <1>2, <1>3, FiniteAssumption, FS_Subset, FS_CardinalityType

LEMMA GrantingShrinks ==
  ASSUME NEW w, Granting(w)' \subseteq Granting(w)
  PROVE  Cardinality(Granting(w)') <= Cardinality(Granting(w))
BY GrantingType, FS_Subset

\* The other connections of a worker were granted a cap each, at most.
LEMMA GrantingElsewhere ==
  ASSUME NEW w, NEW conn \in 1..ReservesPerWorker,
         \A c \in reserving : c.worker = w => c.conn # conn
  PROVE  Cardinality(Granting(w)) + MaxConcurrent <= ReservesPerWorker * MaxConcurrent
<1>. DEFINE All == (1..ReservesPerWorker) \X (1..MaxConcurrent)
            Own == {conn} \X (1..MaxConcurrent)
<1>4. IsFiniteSet(All) /\ Cardinality(All) = ReservesPerWorker * MaxConcurrent
  <2>1. /\ IsFiniteSet(All)
        /\ Cardinality(All) = Cardinality(1..ReservesPerWorker) * Cardinality(1..MaxConcurrent)
    BY ConnectionsCount, FS_Product
  <2>. HIDE DEF All
  <2>. QED BY <2>1, ConnectionsCount
<1>5. IsFiniteSet(Own) /\ Cardinality(Own) = MaxConcurrent
  BY SlotsCount, CountAssumption
<1>6. Granting(w) \cup Own \subseteq All
  BY DEF Granting
<1>7. Granting(w) \cap Own = {}
  BY DEF Granting
<1>. HIDE DEF All, Own
<1>8. Cardinality(Granting(w) \cup Own)
        = Cardinality(Granting(w)) + Cardinality(Own) - Cardinality({})
  BY <1>5, <1>7, GrantingType, FS_Union
<1>9. Cardinality({}) = 0
  BY FS_EmptySet
<1>10. Cardinality(Granting(w) \cup Own) <= Cardinality(All)
  BY <1>4, <1>6, FS_Subset
<1>11. Cardinality(Granting(w)) \in Nat /\ MaxConcurrent \in Nat
  BY GrantingType, CountAssumption
<1>. QED BY <1>4, <1>5, <1>8, <1>9, <1>10, <1>11

LEMMA GrantingBegins ==
  ASSUME NEW w, NEW new, reserving' = reserving \cup {new}, new.worker = w,
         new.batch \in Nat
  PROVE  Cardinality(Granting(w)') <= Cardinality(Granting(w)) + new.batch
<1>. DEFINE Own == {new.conn} \X (1..new.batch)
<1>1. Granting(w)' \subseteq Granting(w) \cup Own
  BY DEF Granting
<1>2. IsFiniteSet(Own) /\ Cardinality(Own) = new.batch
  BY SlotsCount
<1>. HIDE DEF Own
<1>3. /\ IsFiniteSet(Granting(w) \cup Own)
      /\ Cardinality(Granting(w) \cup Own)
           = Cardinality(Granting(w)) + Cardinality(Own) - Cardinality(Granting(w) \cap Own)
  BY <1>2, GrantingType, FS_Union
<1>4. Cardinality(Granting(w) \cap Own) \in Nat
  BY GrantingType, FS_Subset, FS_CardinalityType
<1>5. Cardinality(Granting(w)') <= Cardinality(Granting(w) \cup Own)
  BY <1>1, <1>3, FS_Subset
<1>6. Cardinality(Granting(w)') \in Nat /\ Cardinality(Granting(w)) \in Nat
  <2>1. Granting(w)' \subseteq Granting(w) \cup Own
    BY <1>1
  <2>. QED BY <1>3, <2>1, GrantingType, FS_Subset, FS_CardinalityType
<1>. QED BY <1>2, <1>3, <1>4, <1>5, <1>6

LEMMA GrantingEnds ==
  ASSUME CallsApart, NEW c \in reserving, reserving' = reserving \ {c}, c.batch \in Nat
  PROVE  Cardinality(Granting(c.worker)') + c.batch <= Cardinality(Granting(c.worker))
<1>. DEFINE Own == {c.conn} \X (1..c.batch)
            G == Granting(c.worker)
<1>1. Own \subseteq G
  BY CountAssumption DEF Granting, CallsApart
<1>2. Granting(c.worker)' \subseteq G \ Own
  BY DEF Granting, CallsApart
<1>3. IsFiniteSet(Own) /\ Cardinality(Own) = c.batch
  BY SlotsCount
<1>4. IsFiniteSet(G) /\ Cardinality(G) \in Nat
  BY GrantingType
<1>5. G \cap Own = Own
  BY <1>1
<1>. HIDE DEF G, Own
<1>6. IsFiniteSet(G \ Own) /\ Cardinality(G \ Own) = Cardinality(G) - Cardinality(Own)
  BY <1>4, <1>5, FS_Difference
<1>7. /\ Cardinality(Granting(c.worker)') <= Cardinality(G \ Own)
      /\ Cardinality(Granting(c.worker)') \in Nat
  BY <1>2, <1>6, FS_Subset, FS_CardinalityType
<1>8. Cardinality(Granting(c.worker)') + c.batch <= Cardinality(G)
  BY <1>3, <1>4, <1>6, <1>7
<1>. QED BY <1>8 DEF G

\* The registry's cap on a worker's leases.  A worker that sends its next reserve
\* after the last was answered holds MaxConcurrent leases at most; each further
\* one it keeps in flight is counted before the others commit and adds another
\* MaxConcurrent, and no more than that.
THEOREM CapIsKept == Spec => []HeldWithinCap
<1>. DEFINE Inv == MaxConcurrent > 0 => RoomKept /\ CallsApart
<1>1. Init => Inv
  <2>. SUFFICES ASSUME Init, MaxConcurrent > 0, NEW w \in Worker
                PROVE  Cardinality(Held(w)) + Cardinality(Granting(w))
                         <= ReservesPerWorker * MaxConcurrent
    BY DEF Init, RoomKept, CallsApart
  <2>1. Held(w) = {} /\ Granting(w) = {}
    BY DEF Init, Held, NoRow, Granting
  <2>2. ReservesPerWorker * MaxConcurrent \in Nat
    BY CountAssumption
  <2>. QED BY <2>1, <2>2, FS_EmptySet
<1>2. TypeOK /\ LeaseShape /\ Inv /\ [Next]_vars => Inv'
  <2>. SUFFICES ASSUME TypeOK, LeaseShape, MaxConcurrent > 0, RoomKept, CallsApart,
                       [Next]_vars
                PROVE  (RoomKept /\ CallsApart)'
    BY CountAssumption
  <2>0. \A c \in reserving : c.worker \in Worker /\ c.batch \in Nat
    BY DEF TypeOK, ReserveCall
  <2>1. \A w : /\ Cardinality(Held(w)) \in Nat /\ Cardinality(Held(w)') \in Nat
               /\ Cardinality(Granting(w)) \in Nat /\ Cardinality(Granting(w)') \in Nat
    BY HeldType, GrantingType, PrimedCounts
  <2>2. ReservesPerWorker * MaxConcurrent \in Nat
    BY CountAssumption
  <2>3. CASE ~ Reserve /\ reserving' \subseteq reserving
    <3>1. \A w : Cardinality(Held(w)') <= Cardinality(Held(w))
      BY <2>3, HeldWithoutReserve, HeldShrinks
    <3>2. \A w : Granting(w)' \subseteq Granting(w)
      BY <2>3 DEF Granting
    <3>3. \A w : Cardinality(Granting(w)') <= Cardinality(Granting(w))
      BY <3>2, GrantingShrinks
    <3>4. RoomKept'
      BY <2>1, <2>2, <3>1, <3>3 DEF RoomKept
    <3>. QED BY <2>3, <3>4 DEF CallsApart
  <2>4. ASSUME ~ Reserve, NEW w \in Worker, NEW conn \in 1..ReservesPerWorker,
               NEW n \in Batches, ReserveBegin(w, conn, n)
        PROVE  (RoomKept /\ CallsApart)'
    <3>. DEFINE new == [worker |-> w, conn |-> conn, batch |-> EffectiveBatch(w, n),
                        at |-> now, picked |-> FALSE, picks |-> {}]
    <3>1. reserving' = reserving \cup {new} /\ row' = row
      BY <2>4 DEF ReserveBegin
    <3>2. new.worker = w /\ new.conn = conn /\ new.picks = {}
      OBVIOUS
    <3>3. /\ new.batch \in Nat /\ new.batch > 0
          /\ Cardinality(Held(w)) + new.batch <= MaxConcurrent
      <4>1. n \in Nat /\ EffectiveBatch(w, n) > 0
        BY <2>4, CountAssumption DEF ReserveBegin
      <4>2. Cardinality(Held(w)) + EffectiveBatch(w, n) <= MaxConcurrent
        BY <4>1, RoomOfBatch
      <4>. QED BY <4>1, <4>2, EffectiveBatchType
    <3>4. \A c \in reserving : c.worker = w => c.conn # conn
      BY <2>4 DEF ReserveBegin
    <3>. HIDE DEF new
    <3>5. \A v : Held(v)' = Held(v)
      BY <3>1 DEF Held
    <3>6. Cardinality(Granting(w)) + MaxConcurrent <= ReservesPerWorker * MaxConcurrent
      BY <3>4, GrantingElsewhere
    <3>7. Cardinality(Granting(w)') <= Cardinality(Granting(w)) + new.batch
      BY <3>1, <3>2, <3>3, GrantingBegins
    <3>8. \A v : v # w => Granting(v)' = Granting(v)
      BY <3>1, <3>2 DEF Granting
    <3>9. RoomKept'
      <4>. SUFFICES ASSUME NEW v \in Worker
                    PROVE  Cardinality(Held(v)') + Cardinality(Granting(v)')
                             <= ReservesPerWorker * MaxConcurrent
        BY DEF RoomKept
      <4>1. CASE v = w
        BY <2>1, <2>2, <3>3, <3>5, <3>6, <3>7, <4>1, CountAssumption
      <4>2. CASE v # w
        BY <3>5, <3>8, <4>2 DEF RoomKept
      <4>. QED BY <4>1, <4>2
    <3>10. CallsApart'
      <4>1. Cardinality(new.picks) <= new.batch /\ new.batch <= MaxConcurrent
        BY <2>1, <3>2, <3>3, FS_EmptySet, CountAssumption
      <4>. QED BY <3>1, <3>2, <3>4, <4>1 DEF CallsApart
    <3>. QED BY <3>9, <3>10
  <2>5. ASSUME NEW c \in reserving, NEW P \in SUBSET URL, LeaseRows(c, P),
               Cardinality(P) <= c.batch, reserving' = reserving \ {c}
        PROVE  (RoomKept /\ CallsApart)'
    <3>1. \A w : /\ Cardinality(Held(w)') <= Cardinality(Held(w)) + c.batch
                 /\ w # c.worker => Cardinality(Held(w)') <= Cardinality(Held(w))
      BY <2>5, HeldAfterReserve
    <3>2. Cardinality(Granting(c.worker)') + c.batch <= Cardinality(Granting(c.worker))
      BY <2>0, <2>5, GrantingEnds
    <3>3. \A w : Granting(w)' \subseteq Granting(w)
      BY <2>5 DEF Granting
    <3>4. \A w : Cardinality(Granting(w)') <= Cardinality(Granting(w))
      BY <3>3, GrantingShrinks
    <3>5. RoomKept'
      <4>. SUFFICES ASSUME NEW w \in Worker
                    PROVE  Cardinality(Held(w)') + Cardinality(Granting(w)')
                             <= ReservesPerWorker * MaxConcurrent
        BY DEF RoomKept
      <4>1. Cardinality(Held(w)) + Cardinality(Granting(w))
              <= ReservesPerWorker * MaxConcurrent
        BY DEF RoomKept
      <4>2. CASE w = c.worker
        BY <2>0, <2>1, <2>2, <3>1, <3>2, <4>1, <4>2
      <4>3. CASE w # c.worker
        BY <2>1, <2>2, <3>1, <3>4, <4>1, <4>3
      <4>. QED BY <4>2, <4>3
    <3>6. CallsApart'
      BY <2>5 DEF CallsApart
    <3>. QED BY <3>5, <3>6
  <2>6. ASSUME NEW c \in reserving, ReserveCommit(c) PROVE (RoomKept /\ CallsApart)'
    <3>1. PICK P \in Picks(c) : LeaseRows(c, P)
      BY <2>6 DEF ReserveCommit
    <3>2. P \in SUBSET URL /\ Cardinality(P) <= c.batch
      BY PicksType DEF Picks
    <3>. QED BY <2>5, <2>6, <3>1, <3>2 DEF ReserveCommit
  <2>7. ASSUME NEW c \in reserving, ReserveLease(c) PROVE (RoomKept /\ CallsApart)'
    <3>1. c.picks \in SUBSET URL /\ Cardinality(c.picks) <= c.batch
      BY DEF CallsApart, TypeOK, ReserveCall
    <3>. QED BY <2>5, <2>7, <3>1 DEF ReserveLease
  <2>8. ASSUME NEW c \in reserving, ReservePick(c) PROVE (RoomKept /\ CallsApart)'
    <3>1. PICK P \in Picks(c) : reserving' = (reserving \ {c}) \cup
                                  {[c EXCEPT !.picked = TRUE, !.picks = P]}
      BY <2>8 DEF ReservePick
    <3>. DEFINE new == [c EXCEPT !.picked = TRUE, !.picks = P]
    <3>2. /\ new.worker = c.worker /\ new.conn = c.conn /\ new.batch = c.batch
          /\ new.picks = P /\ Cardinality(P) <= c.batch
      BY DEF TypeOK, ReserveCall, Picks
    <3>3. reserving' = (reserving \ {c}) \cup {new}
      BY <3>1
    <3>. HIDE DEF new
    <3>4. \A w : Held(w)' = Held(w)
      BY <2>8 DEF ReservePick, Held
    <3>5. \A w : Granting(w)' = Granting(w)
      BY <3>2, <3>3 DEF Granting
    <3>6. RoomKept'
      BY <3>4, <3>5 DEF RoomKept
    <3>7. CallsApart'
      BY <3>2, <3>3 DEF CallsApart
    <3>. QED BY <3>6, <3>7
  <2>. QED BY <2>3, <2>4, <2>6, <2>7, <2>8, ReservingStep DEF Reserve
<1>3. Inv => HeldWithinCap
  <2>. SUFFICES ASSUME MaxConcurrent > 0, RoomKept, NEW w \in Worker
                PROVE  Cardinality(Held(w)) <= ReservesPerWorker * MaxConcurrent
    BY DEF HeldWithinCap
  <2>1. Cardinality(Held(w)) \in Nat /\ Cardinality(Granting(w)) \in Nat
    BY HeldType, GrantingType
  <2>2. ReservesPerWorker * MaxConcurrent \in Nat
    BY CountAssumption
  <2>. QED BY <2>1, <2>2 DEF RoomKept
<1>. QED BY <1>1, <1>2, <1>3, Typing, WholeLeases, PTL DEF Spec

-----------------------------------------------------------------------------

\* A reserve in flight read the clock at most MaxWait ago, and the time a host
\* was last served, as its row tells it, is the time such a reserve began.
ReservesInTime ==
  \A c \in reserving : c.at <= now /\ now <= c.at + MaxWait
ServedIsKnown ==
  \A d \in Domain :
    /\ domain[d].active => domain[d].seeded
    /\ served[d] # None =>
         /\ domain[d].seeded
         /\ domain[d].last \in Nat /\ served[d] <= domain[d].last + MaxWait
\* What a reserve has picked and not yet leased (mysql) was of hosts that are known.
Picked(c) == {HostOf[u] : u \in c.picks}
PicksSeeded == \A c \in reserving : c.picked => \A d \in Picked(c) : domain[d].seeded

\* Whole seconds make a gap look at most one tick short of a second longer.
LEMMA DivGap ==
  ASSUME NEW a \in Nat, NEW b \in Nat, NEW T \in Nat \ {0}
  PROVE  (a \div T - b \div T) * T <= a - b + T - 1
<1>1. a \div T \in Nat /\ b \div T \in Nat
  BY DivNat
<1>2. (a \div T) * T <= a
  OBVIOUS
<1>3. b < (b \div T) * T + T
  BY DivBelow
<1>4. (a \div T - b \div T) * T = (a \div T) * T - (b \div T) * T
  BY <1>1
<1>5. (a \div T) * T \in Nat /\ (b \div T) * T \in Nat
  BY <1>1
<1>. QED BY <1>2, <1>3, <1>4, <1>5

LEMMA UpsertKnown ==
  ASSUME TypeOK, ServedIsKnown, NEW d \in Domain, NEW delay,
         NEW r, r = UpsertByHost(d, delay)
  PROVE  /\ r.seeded
         /\ served[d] # None =>
              r.last \in Nat /\ served[d] <= r.last + MaxWait
BY DEF UpsertByHost, NoDomain, ServedIsKnown

\* Any step that leaves "served" alone and rewrites at most one host row, which
\* it leaves seeded and served when it was.
LEMMA DomainEditStep ==
  ASSUME TypeOK, ServedIsKnown, UNCHANGED served, NEW d \in Domain, NEW r,
         domain' = [domain EXCEPT ![d] = r] \/ UNCHANGED domain,
         r.seeded,
         served[d] # None => r.last \in Nat /\ served[d] <= r.last + MaxWait
  PROVE  ServedIsKnown'
BY DEF ServedIsKnown, TypeOK

LEMMA GrantIsReserve ==
  ASSUME TypeOK, [Next]_vars, NEW d \in Domain, Granted(d)
  PROVE  \E c \in reserving, P \in SUBSET URL :
           /\ LeaseRows(c, P) /\ reserving' = reserving \ {c}
           /\ (P \in Picks(c) /\ Driver = "sqlite") \/ (c.picked /\ P = c.picks)
           /\ d \in {HostOf[u] : u \in P}
<1>1. PICK u \in URL : HostOf[u] = d /\ row'[u].attempts > row[u].attempts
  BY DEF Granted
<1>2. RowStep(u) /\ row[u] \in Row
  BY RowStepLemma DEF TypeOK
<1>3. row[u].attempts \in Nat
  BY <1>2 DEF Row
<1>4. row'[u].attempts # row[u].attempts /\ row'[u].attempts # 0
  BY <1>1, <1>3
<1>5. row'[u] # row[u] /\ ~ RowExtended(u)
  BY <1>2, <1>4 DEF RowExtended, Row
<1>6. ~ RowCompleted(u) /\ ~ RowSwept(u)
  BY <1>2, <1>4, UnleasedShape DEF RowCompleted, RowSwept, Status
<1>7. ~ RowFailed(u) /\ ~ RowFailedBlindly(u)
  BY <1>2, <1>4, FailedShape DEF RowFailed, RowFailedBlindly
<1>8. ~ RowRequeued(u)
  BY <1>2, <1>4 DEF RowRequeued, Unleased, Row
<1>9. ~ RowAdded(u)
  BY <1>2, <1>4, AddedShape DEF RowAdded
<1>10. Reserve
  BY <1>2, <1>5, <1>6, <1>7, <1>8, <1>9 DEF RowStep, RowGranted
<1>11. ~ \E c \in reserving : ReservePick(c)
  BY <1>5 DEF ReservePick
<1>12. ASSUME NEW c \in reserving, NEW P, LeaseRows(c, P) PROVE u \in P
  BY <1>5, <1>12 DEF LeaseRows, Won
<1>13. CASE \E c \in reserving : ReserveCommit(c)
  <2>1. PICK c \in reserving : ReserveCommit(c)
    BY <1>13
  <2>2. PICK P \in Picks(c) : LeaseRows(c, P)
    BY <2>1 DEF ReserveCommit
  <2>3. P \in SUBSET URL /\ u \in P
    BY <1>12, <2>2, PicksType
  <2>. QED BY <1>1, <2>1, <2>2, <2>3 DEF ReserveCommit
<1>14. CASE \E c \in reserving : ReserveLease(c)
  <2>1. PICK c \in reserving : ReserveLease(c)
    BY <1>14
  <2>2. LeaseRows(c, c.picks) /\ c.picks \in SUBSET URL
    BY <2>1 DEF ReserveLease, TypeOK, ReserveCall
  <2>3. u \in c.picks
    BY <1>12, <2>2
  <2>. QED BY <1>1, <2>1, <2>2, <2>3 DEF ReserveLease
<1>. QED BY <1>10, <1>11, <1>13, <1>14 DEF Reserve

LEMMA PoliteIsGap ==
  ASSUME TypeOK, ServedIsKnown, NEW d \in Domain, Polite(d), served[d] # None
  PROVE  now - served[d] >= domain[d].delay - (MaxWait + TicksPerSecond - 1)
<1>. DEFINE last == domain[d].last
<1>1. /\ now \in Nat /\ last \in Nat /\ served[d] \in Nat
      /\ served[d] <= last + MaxWait /\ domain[d].delay \in Int
  BY TimeAssumption DEF TypeOK, ServedIsKnown, DomainRow
<1>2. TicksPerSecond \in Nat \ {0} /\ MaxWait \in Nat
  BY TimeAssumption
<1>3. CASE Driver = "sqlite"
  <2>1. (now \div TicksPerSecond - last \div TicksPerSecond) * TicksPerSecond
          >= domain[d].delay
    BY <1>1, <1>3, NullAssumption DEF Polite
  <2>2. (now \div TicksPerSecond - last \div TicksPerSecond) * TicksPerSecond
          <= now - last + TicksPerSecond - 1
    BY <1>1, <1>2, DivGap
  <2>3. (now \div TicksPerSecond - last \div TicksPerSecond) * TicksPerSecond \in Int
    BY <1>1, <1>2, DivNat
  <2>. QED BY <1>1, <1>2, <2>1, <2>2, <2>3
<1>4. CASE Driver # "sqlite"
  <2>1. WholeSeconds(now) - last >= domain[d].delay
    BY <1>1, <1>4, NullAssumption DEF Polite
  <2>2. WholeSeconds(now) \in Nat /\ WholeSeconds(now) <= now
    BY <1>1, <1>2, DivNat DEF WholeSeconds
  <2>. QED BY <1>1, <1>2, <2>1, <2>2
<1>. QED BY <1>3, <1>4

-----------------------------------------------------------------------------
LEMMA ReservesInTimeStep ==
  ASSUME TypeOK, ReservesInTime, [Next]_vars
  PROVE  ReservesInTime'
<1>0. now \in Nat /\ \A c \in reserving : c.at \in Nat
  BY TimeAssumption DEF TypeOK, ReserveCall
<1>1. ASSUME UNCHANGED now, reserving' \subseteq reserving PROVE ReservesInTime'
  BY <1>1 DEF ReservesInTime
<1>2. CASE Reserve
  <2>1. ASSUME NEW c \in reserving, ReservePick(c) PROVE ReservesInTime'
    <3>1. PICK P : reserving' = (reserving \ {c}) \cup
                                  {[c EXCEPT !.picked = TRUE, !.picks = P]}
      BY <2>1 DEF ReservePick
    <3>2. [c EXCEPT !.picked = TRUE, !.picks = P].at = c.at
      BY DEF TypeOK, ReserveCall
    <3>. QED BY <2>1, <3>1, <3>2 DEF ReservePick, ReservesInTime
  <2>. QED BY <1>1, <1>2, <2>1 DEF Reserve, ReserveCommit, ReserveLease
<1>3. ASSUME NEW w \in Worker, NEW conn \in 1..ReservesPerWorker, NEW n \in Batches,
             ReserveBegin(w, conn, n)
      PROVE  ReservesInTime'
  BY <1>0, <1>3, TimeAssumption DEF ReserveBegin, ReservesInTime
<1>4. CASE Tick
  BY <1>0, <1>4, TimeAssumption DEF Tick, ReservesInTime
<1>5. CASE Answer
  BY <1>1, <1>5 DEF Answer, Heartbeat, Complete, CompleteRow, Fail, FailRead, FailWrite
<1>6. CASE Link \/ CallFails
  BY <1>1, <1>6 DEF Link, EnqueueMany, ScopeLink, CallFails
<1>7. CASE SweepExpired \/ Requeue \/ UNCHANGED vars
  BY <1>1, <1>7 DEF SweepExpired, Requeue, RequeueByFilter, vars
<1>8. CASE Operate
  BY <1>1, <1>8 DEF Operate, SeedDomain, SetActive, UpdateCrawlDelay,
       UpdateParallelFetches, UpdateRequiredCapability, SetDomain
<1>9. ASSUME NEW t \in issued, AnswerBegin(t) PROVE ReservesInTime'
  BY <1>1, <1>9 DEF AnswerBegin
<1>10. ASSUME NEW u \in URL, NEW p \in Priorities, Enqueue(u, p) PROVE ReservesInTime'
  BY <1>1, <1>10 DEF Enqueue
<1>. QED BY <1>2, <1>3, <1>4, <1>5, <1>6, <1>7, <1>8, <1>9, <1>10 DEF Next

LEMMA ServedIsKnownStep ==
  ASSUME TypeOK, ReservesInTime, ServedIsKnown, PicksSeeded, [Next]_vars
  PROVE  ServedIsKnown'
<1>1. ASSUME UNCHANGED <<domain, served>> PROVE ServedIsKnown'
  BY <1>1 DEF ServedIsKnown
<1>2. CASE Reserve
  <2>1. ASSUME NEW c \in reserving, NEW P, LeaseRows(c, P),
               \A u \in P : u \in URL /\ domain[HostOf[u]].seeded
        PROVE  ServedIsKnown'
    <3>. SUFFICES ASSUME NEW d \in Domain
                  PROVE  /\ domain'[d].active => domain'[d].seeded
                         /\ served'[d] # None =>
                              /\ domain'[d].seeded
                              /\ domain'[d].last \in Nat
                              /\ served'[d] <= domain'[d].last + MaxWait
      BY DEF ServedIsKnown
    <3>1. CASE d \in {HostOf[u] : u \in Won(P)}
      <4>1. domain[d].seeded
        BY <2>1, <3>1 DEF Won
      <4>2. served'[d] = now /\ domain'[d] = [domain[d] EXCEPT !.last = c.at]
        BY <2>1, <3>1 DEF LeaseRows
      <4>3. domain'[d].seeded /\ domain'[d].last = c.at
        BY <4>1, <4>2 DEF TypeOK, DomainRow
      <4>4. c.at \in Nat /\ now <= c.at + MaxWait
        BY DEF TypeOK, ReserveCall, ReservesInTime
      <4>. QED BY <4>2, <4>3, <4>4
    <3>2. CASE d \notin {HostOf[u] : u \in Won(P)}
      <4>1. domain'[d] = domain[d] /\ served'[d] = served[d]
        BY <2>1, <3>2 DEF LeaseRows
      <4>. QED BY <4>1 DEF ServedIsKnown
    <3>. QED BY <3>1, <3>2
  <2>2. ASSUME NEW c \in reserving, NEW P \in Picks(c), LeaseRows(c, P) PROVE ServedIsKnown'
    <3>1. \A u \in P : u \in URL /\ domain[HostOf[u]].seeded
      BY HostAssumption DEF Picks, Eligible, ServedIsKnown
    <3>. QED BY <2>1, <2>2, <3>1
  <2>3. ASSUME NEW c \in reserving, ReserveLease(c) PROVE ServedIsKnown'
    <3>1. \A u \in c.picks : u \in URL /\ domain[HostOf[u]].seeded
      BY <2>3 DEF ReserveLease, TypeOK, ReserveCall, PicksSeeded, Picked
    <3>. QED BY <2>1, <2>3, <3>1 DEF ReserveLease
  <2>4. ASSUME NEW c \in reserving, ReservePick(c) PROVE ServedIsKnown'
    BY <1>1, <2>4 DEF ReservePick
  <2>. QED BY <1>2, <2>2, <2>3, <2>4 DEF Reserve, ReserveCommit
<1>3. ASSUME NEW c \in linking, NEW u \in URL, ScopeLink(c, u) PROVE ServedIsKnown'
  <2>. DEFINE d == HostOf[u]
  <2>1. \/ domain' = [domain EXCEPT ![d] = UpsertByHost(d, DefaultDelay)]
        \/ UNCHANGED domain
    BY <1>3 DEF ScopeLink
  <2>2. d \in Domain /\ UNCHANGED served
    BY <1>3, HostAssumption DEF ScopeLink
  <2>. QED BY <2>1, <2>2, UpsertKnown, DomainEditStep
<1>4. ASSUME NEW u \in URL, NEW p \in Priorities, Enqueue(u, p) PROVE ServedIsKnown'
  <2>. DEFINE d == HostOf[u]
  <2>1. domain' = [domain EXCEPT ![d] = UpsertByHost(d, DefaultDelay)]
    BY <1>4 DEF Enqueue
  <2>2. d \in Domain /\ UNCHANGED served
    BY <1>4, HostAssumption DEF Enqueue
  <2>. QED BY <2>1, <2>2, UpsertKnown, DomainEditStep
<1>5. CASE Operate
  <2>1. ASSUME NEW d \in Domain, NEW delay \in Delays, NEW width \in Widths,
               SeedDomain(d, delay, width)
        PROVE  ServedIsKnown'
    <3>0. PICK n \in {1, width} :
            SetDomain(d, [UpsertByHost(d, delay) EXCEPT !.width = IF n > 1 THEN n ELSE @])
      BY <2>1 DEF SeedDomain
    <3>. DEFINE r == [UpsertByHost(d, delay) EXCEPT !.width = IF n > 1 THEN n ELSE @]
    <3>1. UpsertByHost(d, delay) \in DomainRow
      BY UpsertType, CountAssumption
    <3>2. r.seeded = UpsertByHost(d, delay).seeded /\ r.last = UpsertByHost(d, delay).last
      BY <3>1 DEF DomainRow
    <3>3. domain' = [domain EXCEPT ![d] = r] /\ UNCHANGED served
      BY <3>0 DEF SetDomain
    <3>. HIDE DEF r
    <3>. QED BY <3>2, <3>3, UpsertKnown, DomainEditStep
  <2>2. ASSUME NEW d \in Domain, NEW r, SetDomain(d, r), domain[d].seeded,
               r.seeded = domain[d].seeded, r.last = domain[d].last
        PROVE  ServedIsKnown'
    BY <2>2, DomainEditStep DEF SetDomain, ServedIsKnown
  <2>3. ASSUME NEW d \in Domain, NEW active \in BOOLEAN, SetActive(d, active)
        PROVE  ServedIsKnown'
    <3>1. LET r == [domain[d] EXCEPT !.active = active]
          IN  r.seeded = domain[d].seeded /\ r.last = domain[d].last
      BY DEF TypeOK, DomainRow
    <3>. QED BY <2>2, <2>3, <3>1 DEF SetActive
  <2>4. ASSUME NEW d \in Domain, NEW delay \in Delays, UpdateCrawlDelay(d, delay)
        PROVE  ServedIsKnown'
    <3>1. LET r == [domain[d] EXCEPT !.delay = delay]
          IN  r.seeded = domain[d].seeded /\ r.last = domain[d].last
      BY DEF TypeOK, DomainRow
    <3>. QED BY <2>2, <2>4, <3>1 DEF UpdateCrawlDelay
  <2>5. ASSUME NEW d \in Domain, NEW width \in Widths, UpdateParallelFetches(d, width)
        PROVE  ServedIsKnown'
    <3>1. LET r == [domain[d] EXCEPT !.width = width]
          IN  r.seeded = domain[d].seeded /\ r.last = domain[d].last
      BY DEF TypeOK, DomainRow
    <3>. QED BY <2>2, <2>5, <3>1 DEF UpdateParallelFetches
  <2>6. ASSUME NEW d \in Domain, NEW need \in Capability \cup {None},
               UpdateRequiredCapability(d, need)
        PROVE  ServedIsKnown'
    <3>1. LET r == [domain[d] EXCEPT !.need = need]
          IN  r.seeded = domain[d].seeded /\ r.last = domain[d].last
      BY DEF TypeOK, DomainRow
    <3>. QED BY <2>2, <2>6, <3>1 DEF UpdateRequiredCapability
  <2>. QED BY <1>5, <2>1, <2>3, <2>4, <2>5, <2>6 DEF Operate
<1>6. CASE Answer
  BY <1>1, <1>6 DEF Answer, Heartbeat, Complete, Fail, FailRead, FailWrite
<1>7. ASSUME NEW c \in linking, EnqueueMany(c) PROVE ServedIsKnown'
  BY <1>1, <1>7 DEF EnqueueMany
<1>8. CASE CallFails \/ SweepExpired \/ Requeue \/ Tick \/ UNCHANGED vars
  BY <1>1, <1>8 DEF CallFails, SweepExpired, Requeue, RequeueByFilter, Tick, vars
<1>9. ASSUME NEW w \in Worker, NEW conn \in 1..ReservesPerWorker, NEW n \in Batches,
             ReserveBegin(w, conn, n)
      PROVE  ServedIsKnown'
  BY <1>1, <1>9 DEF ReserveBegin
<1>10. ASSUME NEW t \in issued, AnswerBegin(t) PROVE ServedIsKnown'
  BY <1>1, <1>10 DEF AnswerBegin
<1>. QED BY <1>2, <1>3, <1>4, <1>5, <1>6, <1>7, <1>8, <1>9, <1>10 DEF Next, Link

\* What a step may do to the hosts: once known they stay known, and only the
\* operator's change of a delay touches the delay of a host that is known.
HostKept(d) ==
  domain[d].seeded =>
    /\ domain'[d].seeded
    /\ "delay" \notin OperatorEdits => domain'[d].delay = domain[d].delay

LEMMA HostKeptStep ==
  ASSUME TypeOK, [Next]_vars, NEW d \in Domain
  PROVE  HostKept(d)
<1>1. CASE domain' = domain
  BY <1>1 DEF HostKept
<1>2. ASSUME NEW e \in Domain, NEW r, domain' = [domain EXCEPT ![e] = r],
             domain[e].seeded =>
               r.seeded /\ ("delay" \notin OperatorEdits => r.delay = domain[e].delay)
      PROVE  HostKept(d)
  BY <1>2 DEF HostKept, TypeOK
<1>3. ASSUME NEW e \in Domain, NEW delay, domain' = [domain EXCEPT ![e] = UpsertByHost(e, delay)]
      PROVE  HostKept(d)
  <2>1. domain[e].seeded => UpsertByHost(e, delay) = domain[e]
    BY DEF UpsertByHost
  <2>. QED BY <1>2, <1>3, <2>1
<1>4. ASSUME NEW c \in reserving, NEW P, LeaseRows(c, P) PROVE HostKept(d)
  <2>1. domain'[d] \in {domain[d], [domain[d] EXCEPT !.last = c.at]}
    BY <1>4 DEF LeaseRows
  <2>. QED BY <2>1 DEF HostKept, TypeOK, DomainRow
<1>5. CASE Reserve
  BY <1>1, <1>4, <1>5 DEF Reserve, ReserveCommit, ReservePick, ReserveLease
<1>6. CASE Answer
  BY <1>1, <1>6 DEF Answer, Heartbeat, Complete, Fail, FailRead, FailWrite
<1>7. CASE Link
  <2>1. ASSUME NEW c \in linking, NEW u \in URL, ScopeLink(c, u) PROVE HostKept(d)
    <3>1. HostOf[u] \in Domain
      BY HostAssumption
    <3>2. \/ domain' = [domain EXCEPT ![HostOf[u]] = UpsertByHost(HostOf[u], DefaultDelay)]
          \/ domain' = domain
      BY <2>1 DEF ScopeLink
    <3>. QED BY <1>1, <1>3, <3>1, <3>2
  <2>2. ASSUME NEW c \in linking, EnqueueMany(c) PROVE HostKept(d)
    BY <1>1, <2>2 DEF EnqueueMany
  <2>. QED BY <1>7, <2>1, <2>2 DEF Link
<1>8. CASE CallFails \/ SweepExpired \/ Requeue \/ Tick \/ UNCHANGED vars
  BY <1>1, <1>8 DEF CallFails, SweepExpired, Requeue, RequeueByFilter, Tick, vars
<1>9. ASSUME NEW u \in URL, NEW p \in Priorities, Enqueue(u, p) PROVE HostKept(d)
  <2>1. HostOf[u] \in Domain
    BY HostAssumption
  <2>. QED BY <1>3, <1>9, <2>1 DEF Enqueue
<1>10. CASE Operate
  <2>1. ASSUME NEW e \in Domain, NEW delay \in Delays, NEW width \in Widths,
               SeedDomain(e, delay, width)
        PROVE  HostKept(d)
    <3>0. PICK n \in {1, width} :
            SetDomain(e, [UpsertByHost(e, delay) EXCEPT !.width = IF n > 1 THEN n ELSE @])
      BY <2>1 DEF SeedDomain
    <3>. DEFINE r == [UpsertByHost(e, delay) EXCEPT !.width = IF n > 1 THEN n ELSE @]
    <3>1. UpsertByHost(e, delay) \in DomainRow
      BY UpsertType, CountAssumption
    <3>2. r.seeded = UpsertByHost(e, delay).seeded /\ r.delay = UpsertByHost(e, delay).delay
      BY <3>1 DEF DomainRow
    <3>3. domain[e].seeded => UpsertByHost(e, delay) = domain[e]
      BY DEF UpsertByHost
    <3>4. domain' = [domain EXCEPT ![e] = r]
      BY <3>0 DEF SetDomain
    <3>. HIDE DEF r
    <3>. QED BY <1>2, <3>2, <3>3, <3>4
  <2>2. ASSUME NEW e \in Domain, NEW active \in BOOLEAN, SetActive(e, active)
        PROVE  HostKept(d)
    <3>. DEFINE r == [domain[e] EXCEPT !.active = active]
    <3>1. r.seeded = domain[e].seeded /\ r.delay = domain[e].delay
      BY DEF TypeOK, DomainRow
    <3>2. domain' = [domain EXCEPT ![e] = r]
      BY <2>2 DEF SetActive, SetDomain
    <3>. HIDE DEF r
    <3>. QED BY <1>2, <3>1, <3>2
  <2>3. ASSUME NEW e \in Domain, NEW delay \in Delays, UpdateCrawlDelay(e, delay)
        PROVE  HostKept(d)
    <3>. DEFINE r == [domain[e] EXCEPT !.delay = delay]
    <3>1. r.seeded = domain[e].seeded /\ "delay" \in OperatorEdits
      BY <2>3 DEF TypeOK, DomainRow, UpdateCrawlDelay
    <3>2. domain' = [domain EXCEPT ![e] = r]
      BY <2>3 DEF UpdateCrawlDelay, SetDomain
    <3>. HIDE DEF r
    <3>. QED BY <1>2, <3>1, <3>2
  <2>4. ASSUME NEW e \in Domain, NEW width \in Widths, UpdateParallelFetches(e, width)
        PROVE  HostKept(d)
    <3>. DEFINE r == [domain[e] EXCEPT !.width = width]
    <3>1. r.seeded = domain[e].seeded /\ r.delay = domain[e].delay
      BY DEF TypeOK, DomainRow
    <3>2. domain' = [domain EXCEPT ![e] = r]
      BY <2>4 DEF UpdateParallelFetches, SetDomain
    <3>. HIDE DEF r
    <3>. QED BY <1>2, <3>1, <3>2
  <2>5. ASSUME NEW e \in Domain, NEW need \in Capability \cup {None},
               UpdateRequiredCapability(e, need)
        PROVE  HostKept(d)
    <3>. DEFINE r == [domain[e] EXCEPT !.need = need]
    <3>1. r.seeded = domain[e].seeded /\ r.delay = domain[e].delay
      BY DEF TypeOK, DomainRow
    <3>2. domain' = [domain EXCEPT ![e] = r]
      BY <2>5 DEF UpdateRequiredCapability, SetDomain
    <3>. HIDE DEF r
    <3>. QED BY <1>2, <3>1, <3>2
  <2>. QED BY <1>10, <2>1, <2>2, <2>3, <2>4, <2>5 DEF Operate
<1>11. ASSUME NEW w \in Worker, NEW conn \in 1..ReservesPerWorker, NEW n \in Batches,
              ReserveBegin(w, conn, n)
       PROVE  HostKept(d)
  BY <1>1, <1>11 DEF ReserveBegin
<1>12. ASSUME NEW t \in issued, AnswerBegin(t) PROVE HostKept(d)
  BY <1>1, <1>12 DEF AnswerBegin
<1>. QED BY <1>5, <1>6, <1>7, <1>8, <1>9, <1>10, <1>11, <1>12 DEF Next

\* Where the calls with picks come from.
LEMMA PickingStep ==
  ASSUME TypeOK, [Next]_vars, NEW c \in reserving', c.picked
  PROVE  \/ c \in reserving
         \/ \E e \in reserving : /\ Driver = "mysql" /\ c.at = e.at
                                 /\ c.picks \in Picks(e)
                                 /\ UNCHANGED <<now, domain, served>>
<1>1. ASSUME reserving' \subseteq reserving PROVE c \in reserving
  BY <1>1
<1>2. CASE Reserve
  <2>1. ASSUME NEW e \in reserving, ReservePick(e), c \notin reserving
        PROVE  /\ Driver = "mysql" /\ c.at = e.at /\ c.picks \in Picks(e)
               /\ UNCHANGED <<now, domain, served>>
    <3>1. PICK P \in Picks(e) :
            reserving' = (reserving \ {e}) \cup {[e EXCEPT !.picked = TRUE, !.picks = P]}
      BY <2>1 DEF ReservePick
    <3>2. c = [e EXCEPT !.picked = TRUE, !.picks = P]
      BY <2>1, <3>1
    <3>3. c.at = e.at /\ c.picks = P
      BY <3>2 DEF TypeOK, ReserveCall
    <3>. QED BY <2>1, <3>3 DEF ReservePick
  <2>. QED BY <1>1, <1>2, <2>1 DEF Reserve, ReserveCommit, ReserveLease
<1>3. ASSUME NEW w \in Worker, NEW conn \in 1..ReservesPerWorker, NEW n \in Batches,
             ReserveBegin(w, conn, n)
      PROVE  c \in reserving
  BY <1>3 DEF ReserveBegin
<1>4. CASE Answer
  BY <1>1, <1>4 DEF Answer, Heartbeat, Complete, CompleteRow, Fail, FailRead, FailWrite
<1>5. CASE Link \/ CallFails
  BY <1>1, <1>5 DEF Link, EnqueueMany, ScopeLink, CallFails
<1>6. CASE SweepExpired \/ Requeue \/ Tick \/ UNCHANGED vars
  BY <1>1, <1>6 DEF SweepExpired, Requeue, RequeueByFilter, Tick, vars
<1>7. CASE Operate
  BY <1>1, <1>7 DEF Operate, SeedDomain, SetActive, UpdateCrawlDelay,
       UpdateParallelFetches, UpdateRequiredCapability, SetDomain
<1>8. ASSUME NEW t \in issued, AnswerBegin(t) PROVE c \in reserving
  BY <1>1, <1>8 DEF AnswerBegin
<1>9. ASSUME NEW u \in URL, NEW p \in Priorities, Enqueue(u, p) PROVE c \in reserving
  BY <1>1, <1>9 DEF Enqueue
<1>. QED BY <1>2, <1>3, <1>4, <1>5, <1>6, <1>7, <1>8, <1>9 DEF Next

LEMMA PickedHosts ==
  ASSUME TypeOK, ServedIsKnown, NEW e \in reserving, NEW P \in Picks(e),
         NEW d \in {HostOf[u] : u \in P}
  PROVE  d \in Domain /\ domain[d].seeded /\ Polite(d)
<1>1. PICK u \in P : d = HostOf[u]
  OBVIOUS
<1>2. u \in Eligible(e)
  BY DEF Picks
<1>3. d \in Domain
  BY <1>1, <1>2, HostAssumption DEF Eligible
<1>. QED BY <1>1, <1>2, <1>3 DEF Eligible, ServedIsKnown

LEMMA PicksSeededStep ==
  ASSUME TypeOK, ServedIsKnown, PicksSeeded, [Next]_vars
  PROVE  PicksSeeded'
<1>. SUFFICES ASSUME NEW c \in reserving', c.picked, NEW d \in Picked(c)
              PROVE  domain'[d].seeded
  BY DEF PicksSeeded
<1>1. CASE c \in reserving
  <2>1. domain[d].seeded /\ d \in Domain
    BY <1>1, HostAssumption DEF PicksSeeded, Picked, TypeOK, ReserveCall
  <2>. QED BY <2>1, HostKeptStep DEF HostKept
<1>2. CASE c \notin reserving
  <2>1. PICK e \in reserving : c.picks \in Picks(e) /\ UNCHANGED domain
    BY <1>2, PickingStep
  <2>. QED BY <2>1, PickedHosts DEF Picked
<1>. QED BY <1>1, <1>2

\* On SQLite no reserve stops between its pick and its updates.
NonePicked == \A c \in reserving : ~ c.picked

LEMMA NonePickedStep ==
  ASSUME TypeOK, NonePicked, [Next]_vars, Driver = "sqlite"
  PROVE  NonePicked'
<1>. SUFFICES ASSUME NEW c \in reserving', c.picked PROVE FALSE
  BY DEF NonePicked
<1>. QED BY PickingStep DEF NonePicked

\* Between two reserves that serve one host its crawl delay passes, up to the
\* wait for the writer and the part of a second that SQLite drops, however many
\* reserves are in flight and whatever the operator edits.
THEOREM HostsAreSparedOnSQLite ==
  ASSUME Driver = "sqlite" PROVE Spec => PoliteUpToSlack
<1>. DEFINE Inv == ReservesInTime /\ ServedIsKnown /\ PicksSeeded
<1>1. Init => Inv
  BY DEF Init, ReservesInTime, ServedIsKnown, NoDomain, PicksSeeded
<1>2. TypeOK /\ Inv /\ [Next]_vars => Inv'
  BY ReservesInTimeStep, ServedIsKnownStep, PicksSeededStep
<1>3. Init => NonePicked
  BY DEF Init, NonePicked
<1>4. TypeOK /\ NonePicked /\ [Next]_vars => NonePicked'
  BY NonePickedStep
<1>5. TypeOK /\ Inv /\ NonePicked /\ [Next]_vars
        => PoliteWithin(MaxWait + TicksPerSecond - 1)
  <2>. SUFFICES ASSUME TypeOK, Inv, NonePicked, [Next]_vars, NEW d \in Domain, Granted(d),
                       served[d] # None
                PROVE  now - served[d] >= domain[d].delay - (MaxWait + TicksPerSecond - 1)
    BY DEF PoliteWithin
  <2>1. \E c \in reserving : \E P \in Picks(c) : d \in {HostOf[u] : u \in P}
    BY GrantIsReserve DEF NonePicked
  <2>2. Polite(d)
    BY <2>1, PickedHosts
  <2>. QED BY <2>2, PoliteIsGap
<1>. QED BY <1>1, <1>2, <1>3, <1>4, <1>5, Typing, PTL DEF Spec, PoliteUpToSlack

-----------------------------------------------------------------------------
(***************************************************************************)
(* Politeness on either database.                                          *)
(***************************************************************************)

TooEarly(d) ==
  served[d] # None /\ now - served[d] < domain[d].delay - (MaxWait + TicksPerSecond - 1)

\* A host that a reserve has picked is served too early only when it was served since
\* the reserve read its clock.
PicksInTime ==
  \A c \in reserving : c.picked => \A d \in Picked(c) : TooEarly(d) => served[d] >= c.at

LEMMA ServedStep ==
  ASSUME TypeOK, [Next]_vars, NEW d \in Domain
  PROVE  \/ served'[d] = served[d] /\ now' \in {now, now + 1}
         \/ served'[d] = now /\ now' = now
<1>1. CASE UNCHANGED <<now, served>>
  BY <1>1
<1>2. CASE Reserve
  BY <1>1, <1>2 DEF Reserve, ReserveCommit, ReservePick, ReserveLease, LeaseRows
<1>3. CASE Answer
  BY <1>1, <1>3 DEF Answer, Heartbeat, Complete, Fail, FailRead, FailWrite
<1>4. CASE Link \/ CallFails
  BY <1>1, <1>4 DEF Link, EnqueueMany, ScopeLink, CallFails
<1>5. CASE SweepExpired \/ Requeue \/ UNCHANGED vars
  BY <1>1, <1>5 DEF SweepExpired, Requeue, RequeueByFilter, vars
<1>6. CASE Operate
  BY <1>1, <1>6 DEF Operate, SeedDomain, SetActive, UpdateCrawlDelay,
       UpdateParallelFetches, UpdateRequiredCapability, SetDomain
<1>7. ASSUME NEW w \in Worker, NEW conn \in 1..ReservesPerWorker, NEW n \in Batches,
             ReserveBegin(w, conn, n)
      PROVE  UNCHANGED <<now, served>>
  BY <1>7 DEF ReserveBegin
<1>8. ASSUME NEW t \in issued, AnswerBegin(t) PROVE UNCHANGED <<now, served>>
  BY <1>8 DEF AnswerBegin
<1>9. ASSUME NEW u \in URL, NEW p \in Priorities, Enqueue(u, p)
      PROVE  UNCHANGED <<now, served>>
  BY <1>9 DEF Enqueue
<1>10. CASE Tick
  BY <1>10 DEF Tick
<1>. QED BY <1>1, <1>2, <1>3, <1>4, <1>5, <1>6, <1>7, <1>8, <1>9, <1>10 DEF Next

LEMMA PicksInTimeStep ==
  ASSUME TypeOK, TypeOK', ReservesInTime, ServedIsKnown, PicksSeeded, PicksInTime,
         [Next]_vars, "delay" \notin OperatorEdits
  PROVE  PicksInTime'
<1>. SUFFICES ASSUME NEW c \in reserving', c.picked, NEW d \in Picked(c), TooEarly(d)'
              PROVE  served'[d] >= c.at
  BY DEF PicksInTime
<1>1. CASE c \in reserving
  <2>1. domain[d].seeded /\ d \in Domain
    BY <1>1, HostAssumption DEF PicksSeeded, Picked, TypeOK, ReserveCall
  <2>2. domain'[d].delay = domain[d].delay /\ domain[d].delay \in Int
    BY <2>1, HostKeptStep DEF HostKept, TypeOK, DomainRow
  <2>3. c.at \in Nat /\ c.at <= now /\ now \in Nat
    BY <1>1, TimeAssumption DEF ReservesInTime, TypeOK, ReserveCall
  <2>4. CASE served'[d] = now
    BY <2>3, <2>4
  <2>5. CASE served'[d] = served[d] /\ now' \in {now, now + 1}
    <3>1. served[d] \in Nat
      BY <2>1, <2>5 DEF TooEarly, TypeOK
    <3>2. TooEarly(d)
      BY <2>2, <2>3, <2>5, <3>1, TimeAssumption DEF TooEarly
    <3>. QED BY <1>1, <2>5, <3>2 DEF PicksInTime
  <2>. QED BY <2>1, <2>4, <2>5, ServedStep
<1>2. CASE c \notin reserving
  <2>1. PICK e \in reserving : c.picks \in Picks(e) /\ UNCHANGED <<now, domain, served>>
    BY <1>2, PickingStep
  <2>2. d \in Domain /\ Polite(d)
    BY <2>1, PickedHosts DEF Picked
  <2>3. TooEarly(d)
    BY <2>1 DEF TooEarly
  <2>4. now - served[d] >= domain[d].delay - (MaxWait + TicksPerSecond - 1)
    BY <2>2, <2>3, PoliteIsGap DEF TooEarly
  <2>5. now \in Int /\ served[d] \in Int /\ domain[d].delay \in Int
    BY <2>2, <2>3, TimeAssumption DEF TooEarly, TypeOK, DomainRow
  <2>. QED BY <2>3, <2>4, <2>5, TimeAssumption DEF TooEarly
<1>. QED BY <1>1, <1>2

\* On MySQL, where nothing keeps two reserves from picking one host at once, that is the
\* only way a host is served before its delay has passed: reserves that follow each
\* other spare it as they do on SQLite.
THEOREM OnlyRacesServeEarly ==
  ASSUME "delay" \notin OperatorEdits PROVE Spec => EarlyOnlyTogether
<1>. DEFINE Inv == ReservesInTime /\ ServedIsKnown /\ PicksSeeded /\ PicksInTime
<1>1. Init => Inv
  BY DEF Init, ReservesInTime, ServedIsKnown, NoDomain, PicksSeeded, PicksInTime
<1>2. TypeOK /\ TypeOK' /\ Inv /\ [Next]_vars => Inv'
  BY ReservesInTimeStep, ServedIsKnownStep, PicksSeededStep, PicksInTimeStep
<1>3. TypeOK /\ Inv /\ [Next]_vars =>
        [\A c \in reserving \ reserving', d \in Domain : Granted(d) /\ served[d] # None =>
           \/ served[d] >= c.at
           \/ now - served[d] >= domain[d].delay - (MaxWait + TicksPerSecond - 1)]_vars
  <2>. SUFFICES ASSUME TypeOK, Inv, [Next]_vars, NEW c \in reserving \ reserving',
                       NEW d \in Domain, Granted(d), served[d] # None,
                       ~ (now - served[d] >= domain[d].delay - (MaxWait + TicksPerSecond - 1))
                PROVE  served[d] >= c.at
    OBVIOUS
  <2>1. PICK e \in reserving, P \in SUBSET URL :
               /\ reserving' = reserving \ {e}
               /\ P \in Picks(e) \/ (e.picked /\ P = e.picks)
               /\ d \in {HostOf[u] : u \in P}
    BY GrantIsReserve
  <2>2. e = c
    BY <2>1
  <2>3. P \notin Picks(e)
    BY <2>1, PickedHosts, PoliteIsGap
  <2>4. c.picked /\ d \in Picked(c)
    BY <2>1, <2>2, <2>3 DEF Picked
  <2>5. now \in Int /\ served[d] \in Int /\ domain[d].delay \in Int
    BY TimeAssumption DEF TypeOK, DomainRow
  <2>6. TooEarly(d)
    BY <2>5, TimeAssumption DEF TooEarly
  <2>. QED BY <2>4, <2>6 DEF PicksInTime
<1>. QED BY <1>1, <1>2, <1>3, Typing, PTL DEF Spec, EarlyOnlyTogether
=============================================================================
