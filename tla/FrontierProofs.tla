--------------------------- MODULE FrontierProofs ---------------------------
(***************************************************************************)
(* Proofs about the crawl queue: its types and its leases.  RowStep lists  *)
(* everything one step of the system can do to one row; the theorems on    *)
(* leases argue about its cases and not about the handlers.                *)
(***************************************************************************)
EXTENDS Frontier, FiniteSetTheorems, TLAPS

LEMMA DivNat == \A a \in Nat, b \in Nat \ {0} : a \div b \in Nat
OBVIOUS

LEMMA DivBelow == \A a \in Nat, b \in Nat \ {0} : a < (a \div b) * b + b
OBVIOUS

LEMMA TokenOfType ==
  ASSUME NEW u \in URL, NEW c \in ReserveCall
  PROVE  TokenOf(u, c) \in Token
BY DivNat, TimeAssumption DEF TokenOf, Token, ReserveCall

LEMMA EffectiveBatchType ==
  ASSUME NEW w \in Worker, NEW n \in Nat
  PROVE  EffectiveBatch(w, n) \in Nat
<1>1. Held(w) \subseteq URL
  BY DEF Held
<1>2. Cardinality(Held(w)) \in Nat
  BY <1>1, FiniteAssumption, FS_Subset, FS_CardinalityType
<1>. QED BY <1>2, CountAssumption DEF EffectiveBatch

LEMMA UpsertType ==
  ASSUME TypeOK, NEW d \in Domain, NEW delay \in Int
  PROVE  UpsertByHost(d, delay) \in DomainRow
<1>1. NoDomain \in DomainRow
  BY DEF NoDomain, DomainRow
<1>2. [NoDomain EXCEPT !.seeded = TRUE, !.active = TRUE, !.delay = delay] \in DomainRow
  BY <1>1 DEF DomainRow
<1>. QED BY <1>2 DEF UpsertByHost, TypeOK

LEMMA NewRowType ==
  ASSUME TypeOK, NEW r \in Row, NEW p \in Nat
  PROVE  NewRow(r, p) \in Row
<1>1. now \in Nat
  BY TimeAssumption DEF TypeOK
<1>2. NoRow \in Row
  BY DEF NoRow, Row, Status
<1>3. [NoRow EXCEPT !.status = "queued", !.scheduled = now, !.priority = p] \in Row
  BY <1>1, <1>2 DEF Row, Status
<1>. QED BY <1>3 DEF NewRow

LEMMA UnleasedType ==
  ASSUME NEW r \in Row, NEW s \in Status
  PROVE  Unleased(r, s) \in Row
BY DEF Unleased, Row

LEMMA FailedType ==
  ASSUME NEW r \in Row, NEW v \in {"queued", "dead"}, NEW at \in Nat
  PROVE  Failed(r, v, at) \in Row
<1>1. Unleased(r, v) \in Row
  BY UnleasedType DEF Status
<1>. QED BY <1>1, TimeAssumption DEF Failed, Row

LEMMA LeasedType ==
  ASSUME NEW r \in Row, NEW u \in URL, NEW c \in ReserveCall
  PROVE  Leased(r, u, c) \in Row
<1>1. TokenOf(u, c) \in Token
  BY TokenOfType
<1>2. c.worker \in Worker /\ c.at + LeaseTTL \in Nat /\ r.attempts + 1 \in Nat
  BY TimeAssumption DEF ReserveCall, Row
<1>. QED BY <1>1, <1>2 DEF Leased, Row, Status

LEMMA LeaseRowsType ==
  ASSUME TypeOK, NEW c \in ReserveCall, NEW P \in SUBSET URL, LeaseRows(c, P)
  PROVE  /\ row' \in [URL -> Row]
         /\ domain' \in [Domain -> DomainRow]
         /\ served' \in [Domain -> Nat \cup {None}]
         /\ issued' \subseteq Token
<1>. DEFINE won == Won(P)
<1>1. won \subseteq URL
  BY DEF Won
<1>2. \A u \in won : TokenOf(u, c) \in Token
  BY <1>1, TokenOfType
<1>3. row' \in [URL -> Row]
  <2>1. \A u \in won : Leased(row[u], u, c) \in Row
    BY <1>1, LeasedType DEF TypeOK
  <2>. QED BY <2>1 DEF LeaseRows, TypeOK
<1>4. domain' \in [Domain -> DomainRow]
  BY DEF LeaseRows, TypeOK, DomainRow, ReserveCall
<1>5. served' \in [Domain -> Nat \cup {None}]
  BY TimeAssumption DEF LeaseRows, TypeOK
<1>6. issued' \subseteq Token
  BY <1>2 DEF LeaseRows, TypeOK
<1>. QED BY <1>3, <1>4, <1>5, <1>6

-----------------------------------------------------------------------------
\* Type correctness: one step for each action.

LEMMA PicksType ==
  ASSUME NEW c, NEW P \in Picks(c)
  PROVE  P \in SUBSET URL
BY DEF Picks, Eligible

LEMMA TypeStep ==
  ASSUME TypeOK, [Next]_vars
  PROVE  TypeOK'
<1>0. now \in Nat
  BY TimeAssumption DEF TypeOK
<1>1. ASSUME NEW w \in Worker, NEW conn \in 1..ReservesPerWorker, NEW n \in Batches,
             ReserveBegin(w, conn, n)
      PROVE  TypeOK'
  <2>1. EffectiveBatch(w, n) \in Nat
    BY EffectiveBatchType, CountAssumption
  <2>2. conn \in Nat
    BY CountAssumption
  <2>3. [worker |-> w, conn |-> conn, batch |-> EffectiveBatch(w, n), at |-> now,
         picked |-> FALSE, picks |-> {}] \in ReserveCall
    BY <1>0, <2>1, <2>2 DEF ReserveCall
  <2>. QED BY <1>1, <2>3 DEF ReserveBegin, TypeOK
<1>2. ASSUME NEW c \in reserving, ReserveCommit(c) PROVE TypeOK'
  <2>1. c \in ReserveCall
    BY DEF TypeOK
  <2>2. PICK P \in Picks(c) : LeaseRows(c, P)
    BY <1>2 DEF ReserveCommit
  <2>3. P \in SUBSET URL
    BY PicksType
  <2>. QED BY <1>2, <2>1, <2>2, <2>3, LeaseRowsType DEF ReserveCommit, TypeOK
<1>3. ASSUME NEW c \in reserving, ReservePick(c) PROVE TypeOK'
  <2>1. c \in ReserveCall
    BY DEF TypeOK
  <2>2. PICK P \in Picks(c) : reserving' = (reserving \ {c}) \cup
                                {[c EXCEPT !.picked = TRUE, !.picks = P]}
    BY <1>3 DEF ReservePick
  <2>3. P \in SUBSET URL
    BY PicksType
  <2>4. [c EXCEPT !.picked = TRUE, !.picks = P] \in ReserveCall
    BY <2>1, <2>3 DEF ReserveCall
  <2>. QED BY <1>3, <2>2, <2>4 DEF ReservePick, TypeOK
<1>4. ASSUME NEW c \in reserving, ReserveLease(c) PROVE TypeOK'
  <2>1. c \in ReserveCall /\ c.picks \in SUBSET URL
    BY DEF TypeOK, ReserveCall
  <2>. QED BY <1>4, <2>1, LeaseRowsType DEF ReserveLease, TypeOK
<1>5. ASSUME NEW t \in issued, AnswerBegin(t) PROVE TypeOK'
  <2>1. [token |-> t, at |-> now, verdict |-> None] \in AnswerCall
    BY <1>0 DEF AnswerCall, TypeOK
  <2>. QED BY <1>5, <2>1 DEF AnswerBegin, TypeOK
<1>6. ASSUME NEW c \in answering, Heartbeat(c) PROVE TypeOK'
  <2>1. c.at + HeartbeatExtend \in Nat
    BY TimeAssumption DEF TypeOK, AnswerCall
  <2>2. \A r \in Row : [r EXCEPT !.expires = c.at + HeartbeatExtend] \in Row
    BY <2>1 DEF Row
  <2>. QED BY <1>6, <2>2 DEF Heartbeat, UpdateRows, TypeOK
<1>7. ASSUME NEW c \in answering, Complete(c) PROVE TypeOK'
  <2>1. row' \in [URL -> Row]
    BY <1>7, UnleasedType DEF Complete, CompleteRow, UpdateRows, TypeOK, Status
  <2>2. ASSUME Holds(c.token), NEW links \in LinkSets
        PROVE  NewLinkCall(c.token.url, row[c.token.url].attempts, links) \subseteq LinkCall
    <3>1. c.token.url \in URL
      BY DEF TypeOK, AnswerCall, Token
    <3>2. row[c.token.url].attempts \in Nat
      BY <3>1 DEF TypeOK, Row
    <3>. QED BY <3>1, <3>2, OperatorAssumption DEF NewLinkCall, LinkCall
  <2>3. linking' \subseteq LinkCall
    BY <1>7, <2>2 DEF Complete, TypeOK
  <2>. QED BY <1>7, <2>1, <2>3 DEF Complete, CompleteRow, TypeOK
<1>8. ASSUME NEW c \in answering, NEW retryable \in BOOLEAN, Fail(c, retryable)
      PROVE  TypeOK'
  <2>1. \A r \in Row : Failed(r, Verdict(r, retryable), now) \in Row
    BY <1>0, FailedType DEF Verdict
  <2>. QED BY <1>8, <2>1 DEF Fail, UpdateRows, TypeOK
<1>9. ASSUME NEW c \in answering, NEW retryable \in BOOLEAN, FailRead(c, retryable)
      PROVE  TypeOK'
  <2>1. [c EXCEPT !.verdict = Verdict(row[c.token.url], retryable), !.at = now]
          \in AnswerCall
    BY <1>0 DEF Verdict, AnswerCall, TypeOK
  <2>. QED BY <1>9, <2>1 DEF FailRead, TypeOK
<1>10. ASSUME NEW c \in answering, FailWrite(c) PROVE TypeOK'
  <2>1. c.verdict \in {"queued", "dead"} /\ c.at \in Nat
    BY <1>10 DEF FailWrite, TypeOK, AnswerCall
  <2>2. \A r \in Row : Failed(r, c.verdict, c.at) \in Row
    BY <2>1, FailedType
  <2>. QED BY <1>10, <2>2 DEF FailWrite, UpdateRows, TypeOK
<1>11. ASSUME NEW c \in linking, EnqueueMany(c) PROVE TypeOK'
  <2>1. \A r \in Row : NewRow(r, 0) \in Row
    BY NewRowType
  <2>. QED BY <1>11, <2>1 DEF EnqueueMany, UpdateRows, TypeOK
<1>12. ASSUME NEW c \in linking, NEW u \in URL, ScopeLink(c, u) PROVE TypeOK'
  <2>1. [c EXCEPT !.links = @ \ {u}] \in LinkCall
    BY DEF TypeOK, LinkCall
  <2>2. [c EXCEPT !.links = @ \ {u}, !.jobs = @ \cup {u}] \in LinkCall
    BY DEF TypeOK, LinkCall
  <2>3. UpsertByHost(HostOf[u], DefaultDelay) \in DomainRow
    BY HostAssumption, TimeAssumption, UpsertType
  <2>. QED BY <1>12, <2>1, <2>2, <2>3 DEF ScopeLink, TypeOK
<1>13. CASE CallFails
  BY <1>13 DEF CallFails, TypeOK
<1>14. CASE SweepExpired
  BY <1>14, UnleasedType DEF SweepExpired, UpdateRows, TypeOK, Status
<1>15. ASSUME NEW f \in RequeueFilters, RequeueByFilter(f) PROVE TypeOK'
  <2>1. \A r \in Row : [Unleased(r, "queued") EXCEPT !.nextRetry = None] \in Row
    <3>. TAKE r \in Row
    <3>1. Unleased(r, "queued") \in Row
      BY UnleasedType DEF Status
    <3>. QED BY <3>1 DEF Row
  <2>. QED BY <1>15, <2>1 DEF RequeueByFilter, UpdateRows, TypeOK
<1>16. CASE Operate
  <2>1. ASSUME NEW d \in Domain, NEW r \in DomainRow, SetDomain(d, r)
        PROVE  TypeOK'
    BY <2>1 DEF SetDomain, TypeOK
  <2>2. ASSUME NEW d \in Domain, NEW delay \in Delays, NEW width \in Widths,
               SeedDomain(d, delay, width)
        PROVE  TypeOK'
    <3>1. UpsertByHost(d, delay) \in DomainRow
      BY UpsertType, CountAssumption
    <3>2. PICK n \in {1, width} :
            SetDomain(d, [UpsertByHost(d, delay) EXCEPT
                            !.width = IF n > 1 THEN n ELSE @])
      BY <2>2 DEF SeedDomain
    <3>3. [UpsertByHost(d, delay) EXCEPT !.width = IF n > 1 THEN n ELSE @]
            \in DomainRow
      BY <3>1, CountAssumption DEF DomainRow
    <3>. QED BY <2>1, <3>2, <3>3
  <2>3. ASSUME NEW d \in Domain, NEW active \in BOOLEAN, SetActive(d, active)
        PROVE  TypeOK'
    <3>1. [domain[d] EXCEPT !.active = active] \in DomainRow
      BY DEF TypeOK, DomainRow
    <3>. QED BY <2>1, <2>3, <3>1 DEF SetActive
  <2>4. ASSUME NEW d \in Domain, NEW delay \in Delays, UpdateCrawlDelay(d, delay)
        PROVE  TypeOK'
    <3>1. [domain[d] EXCEPT !.delay = delay] \in DomainRow
      BY CountAssumption DEF TypeOK, DomainRow
    <3>. QED BY <2>1, <2>4, <3>1 DEF UpdateCrawlDelay
  <2>5. ASSUME NEW d \in Domain, NEW width \in Widths, UpdateParallelFetches(d, width)
        PROVE  TypeOK'
    <3>1. width \in Nat \ {0}
      BY <2>5, CountAssumption DEF UpdateParallelFetches
    <3>2. [domain[d] EXCEPT !.width = width] \in DomainRow
      BY <3>1 DEF TypeOK, DomainRow
    <3>. QED BY <2>1, <2>5, <3>2 DEF UpdateParallelFetches
  <2>6. ASSUME NEW d \in Domain, NEW need \in Capability \cup {None},
               UpdateRequiredCapability(d, need)
        PROVE  TypeOK'
    <3>1. [domain[d] EXCEPT !.need = need] \in DomainRow
      BY DEF TypeOK, DomainRow
    <3>. QED BY <2>1, <2>6, <3>1 DEF UpdateRequiredCapability
  <2>. QED BY <1>16, <2>2, <2>3, <2>4, <2>5, <2>6 DEF Operate
<1>17. ASSUME NEW u \in URL, NEW p \in Priorities, Enqueue(u, p) PROVE TypeOK'
  <2>1. \A r \in Row : NewRow(r, p) \in Row
    BY NewRowType, CountAssumption
  <2>2. UpsertByHost(HostOf[u], DefaultDelay) \in DomainRow
    BY HostAssumption, TimeAssumption, UpsertType
  <2>. QED BY <1>17, <2>1, <2>2 DEF Enqueue, UpdateRows, TypeOK
<1>18. CASE Tick
  BY <1>18, TimeAssumption DEF Tick, TypeOK
<1>19. CASE UNCHANGED vars
  BY <1>19 DEF vars, TypeOK
<1>. QED
  BY <1>1, <1>2, <1>3, <1>4, <1>5, <1>6, <1>7, <1>8, <1>9, <1>10, <1>11, <1>12,
     <1>13, <1>14, <1>15, <1>16, <1>17, <1>18, <1>19
     DEF Next, Reserve, Answer, Link, Requeue

\* Whatever the calls, the sweeper and the operator do, every variable of the
\* crawl queue keeps its type.
THEOREM Typing == Spec => []TypeOK
<1>1. Init => TypeOK
  <2>1. NoRow \in Row /\ NoDomain \in DomainRow
    BY DEF NoRow, Row, Status, NoDomain, DomainRow
  <2>. QED BY <2>1, TimeAssumption DEF Init, TypeOK
<1>. QED BY <1>1, TypeStep, PTL DEF Spec
-----------------------------------------------------------------------------
RowGranted(u) ==
  /\ Reserve
  /\ \E c \in reserving : /\ row[u].status = "queued"
                          /\ row'[u] = Leased(row[u], u, c)
                          /\ TokenOf(u, c) \in issued'
RowExtended(u) ==
  \E c \in answering : /\ c.verdict = None /\ c.token.url = u /\ Holds(c.token)
                       /\ row'[u] = [row[u] EXCEPT !.expires = c.at + HeartbeatExtend]
RowCompleted(u) ==
  \E c \in answering : /\ c.token.url = u /\ Holds(c.token)
                       /\ row'[u] = Unleased(row[u], "done")
RowFailed(u) ==
  /\ Driver = "sqlite"
  /\ \E c \in answering, v \in {"queued", "dead"} :
       /\ c.token.url = u /\ row[u].token = c.token
       /\ row'[u] = Failed(row[u], v, now)
RowFailedBlindly(u) ==
  /\ Driver = "mysql"
  /\ \E v \in {"queued", "dead"}, at \in Nat : row'[u] = Failed(row[u], v, at)
RowAdded(u) ==
  row[u].status = "absent" /\ \E p \in Nat : row'[u] = NewRow(row[u], p)
RowSwept(u) == Expired(u) /\ row'[u] = Unleased(row[u], "queued")
RowRequeued(u) ==
  /\ Requeue /\ row[u].status # "absent"
  /\ row'[u] = [Unleased(row[u], "queued") EXCEPT !.nextRetry = None]

RowStep(u) ==
  \/ row'[u] = row[u]
  \/ RowGranted(u) \/ RowExtended(u) \/ RowCompleted(u)
  \/ RowFailed(u) \/ RowFailedBlindly(u)
  \/ RowAdded(u) \/ RowSwept(u) \/ RowRequeued(u)

LEMMA LeaseRowsStep ==
  ASSUME TypeOK, Reserve, NEW c \in reserving, NEW P, LeaseRows(c, P), NEW u \in URL
  PROVE  RowStep(u) /\ issued \subseteq issued'
<1>1. issued \subseteq issued'
  BY DEF LeaseRows
<1>2. CASE u \in Won(P)
  <2>1. row[u].status = "queued" /\ row'[u] = Leased(row[u], u, c)
    BY <1>2 DEF LeaseRows, Won
  <2>2. TokenOf(u, c) \in issued'
    BY <1>2 DEF LeaseRows
  <2>. QED BY <1>1, <2>1, <2>2 DEF RowStep, RowGranted
<1>3. CASE u \notin Won(P)
  <2>1. row'[u] = row[u]
    BY <1>3 DEF LeaseRows
  <2>. QED BY <1>1, <2>1 DEF RowStep
<1>. QED BY <1>2, <1>3

LEMMA NewRowStep ==
  ASSUME TypeOK, NEW u \in URL, NEW p \in Nat, row'[u] = NewRow(row[u], p)
  PROVE  RowStep(u)
<1>1. CASE row[u].status = "absent"
  BY <1>1 DEF RowStep, RowAdded
<1>2. CASE row[u].status # "absent"
  BY <1>2 DEF RowStep, NewRow
<1>. QED BY <1>1, <1>2

\* What one step does to one row, and that tokens are only ever added.
LEMMA RowStepLemma ==
  ASSUME TypeOK, [Next]_vars, NEW u \in URL
  PROVE  RowStep(u) /\ issued \subseteq issued'
<1>1. ASSUME UNCHANGED <<row, issued>> PROVE RowStep(u) /\ issued \subseteq issued'
  BY <1>1 DEF RowStep
<1>2. CASE UNCHANGED vars
  BY <1>1, <1>2 DEF vars
<1>3. ASSUME NEW w \in Worker, NEW conn \in 1..ReservesPerWorker, NEW n \in Batches,
             ReserveBegin(w, conn, n)
      PROVE  RowStep(u) /\ issued \subseteq issued'
  BY <1>1, <1>3 DEF ReserveBegin
<1>4. ASSUME NEW c \in reserving, ReserveCommit(c) \/ ReserveLease(c)
      PROVE  RowStep(u) /\ issued \subseteq issued'
  <2>1. Reserve
    BY <1>4 DEF Reserve
  <2>. QED BY <1>4, <2>1, LeaseRowsStep DEF ReserveCommit, ReserveLease
<1>5. ASSUME NEW c \in reserving, ReservePick(c)
      PROVE  RowStep(u) /\ issued \subseteq issued'
  BY <1>1, <1>5 DEF ReservePick
<1>6. ASSUME NEW t \in issued, AnswerBegin(t)
      PROVE  RowStep(u) /\ issued \subseteq issued'
  BY <1>1, <1>6 DEF AnswerBegin
<1>7. ASSUME NEW c \in answering, Heartbeat(c)
      PROVE  RowStep(u) /\ issued \subseteq issued'
  BY <1>7 DEF Heartbeat, UpdateRows, RowStep, RowExtended
<1>8. ASSUME NEW c \in answering, Complete(c)
      PROVE  RowStep(u) /\ issued \subseteq issued'
  BY <1>8 DEF Complete, CompleteRow, UpdateRows, RowStep, RowCompleted
<1>9. ASSUME NEW c \in answering, NEW retryable \in BOOLEAN, Fail(c, retryable)
      PROVE  RowStep(u) /\ issued \subseteq issued'
  <2>1. Verdict(row[u], retryable) \in {"queued", "dead"}
    BY DEF Verdict
  <2>. QED BY <1>9, <2>1 DEF Fail, UpdateRows, RowStep, RowFailed
<1>10. ASSUME NEW c \in answering, NEW retryable \in BOOLEAN, FailRead(c, retryable)
       PROVE  RowStep(u) /\ issued \subseteq issued'
  BY <1>1, <1>10 DEF FailRead
<1>11. ASSUME NEW c \in answering, FailWrite(c)
       PROVE  RowStep(u) /\ issued \subseteq issued'
  <2>1. c.verdict \in {"queued", "dead"} /\ c.at \in Nat
    BY <1>11 DEF FailWrite, TypeOK, AnswerCall
  <2>. QED BY <1>11, <2>1 DEF FailWrite, UpdateRows, RowStep, RowFailedBlindly
<1>12. ASSUME NEW c \in linking, EnqueueMany(c)
       PROVE  RowStep(u) /\ issued \subseteq issued'
  <2>1. row'[u] = row[u] \/ row'[u] = NewRow(row[u], 0)
    BY <1>12 DEF EnqueueMany, UpdateRows
  <2>2. RowStep(u)
    BY <2>1, NewRowStep DEF RowStep
  <2>. QED BY <1>12, <2>2 DEF EnqueueMany
<1>13. ASSUME NEW c \in linking, NEW v \in URL, ScopeLink(c, v)
       PROVE  RowStep(u) /\ issued \subseteq issued'
  BY <1>1, <1>13 DEF ScopeLink
<1>14. CASE CallFails
  BY <1>1, <1>14 DEF CallFails
<1>15. CASE SweepExpired
  BY <1>15 DEF SweepExpired, UpdateRows, RowStep, RowSwept
<1>16. ASSUME NEW f \in RequeueFilters, RequeueByFilter(f)
       PROVE  RowStep(u) /\ issued \subseteq issued'
  <2>1. Requeue
    BY <1>16 DEF Requeue
  <2>. QED BY <1>16, <2>1 DEF RequeueByFilter, UpdateRows, Matches, RowStep, RowRequeued
<1>17. CASE Operate
  BY <1>1, <1>17 DEF Operate, SeedDomain, SetActive, UpdateCrawlDelay,
       UpdateParallelFetches, UpdateRequiredCapability, SetDomain
<1>18. ASSUME NEW v \in URL, NEW p \in Priorities, Enqueue(v, p)
       PROVE  RowStep(u) /\ issued \subseteq issued'
  <2>1. p \in Nat
    BY CountAssumption
  <2>2. row'[u] = row[u] \/ row'[u] = NewRow(row[u], p)
    BY <1>18 DEF Enqueue, UpdateRows
  <2>3. RowStep(u)
    BY <2>1, <2>2, NewRowStep DEF RowStep
  <2>. QED BY <1>18, <2>3 DEF Enqueue
<1>19. CASE Tick
  BY <1>1, <1>19 DEF Tick
<1>. QED
  BY <1>2, <1>3, <1>4, <1>5, <1>6, <1>7, <1>8, <1>9, <1>10, <1>11, <1>12, <1>13, <1>14,
     <1>15, <1>16, <1>17, <1>18, <1>19
     DEF Next, Reserve, Answer, Link, Requeue

-----------------------------------------------------------------------------
\* The shape of a lease.

LEMMA UnleasedShape ==
  ASSUME NEW r \in Row, NEW s \in Status \ {"leased"}
  PROVE  LET q == Unleased(r, s)
         IN  /\ q.status = s /\ q.token = None /\ q.holder = None /\ q.expires = None
             /\ q.attempts = r.attempts
BY DEF Unleased, Row

LEMMA FailedShape ==
  ASSUME NEW r \in Row, NEW v \in {"queued", "dead"}, NEW at
  PROVE  LET q == Failed(r, v, at)
         IN  /\ q.status = v /\ q.token = None /\ q.holder = None /\ q.expires = None
             /\ q.attempts = r.attempts
BY DEF Failed, Unleased, Row

LEMMA LeasedShape ==
  ASSUME NEW r \in Row, NEW u, NEW c
  PROVE  LET q == Leased(r, u, c)
         IN  /\ q.status = "leased" /\ q.token = TokenOf(u, c)
             /\ q.holder = c.worker /\ q.expires = c.at + LeaseTTL
BY DEF Leased, Row

LEMMA AddedShape ==
  ASSUME NEW r \in Row, NEW p, r.status = "absent"
  PROVE  LET q == NewRow(r, p)
         IN  /\ q.status = "queued" /\ q.token = None /\ q.holder = None
             /\ q.expires = None /\ q.attempts = 0
BY DEF NewRow, NoRow

LEMMA LeaseShapeStep ==
  ASSUME TypeOK, LeaseShape, \A u \in URL : RowStep(u) /\ issued \subseteq issued'
  PROVE  LeaseShape'
<1>. SUFFICES ASSUME NEW u \in URL PROVE WellLeased(u)'
  BY DEF LeaseShape
<1>1. RowStep(u) /\ issued \subseteq issued'
  OBVIOUS
<1>2. row[u] \in Row /\ WellLeased(u)
  BY DEF TypeOK, LeaseShape
<1>3. CASE row'[u] = row[u]
  BY <1>1, <1>2, <1>3 DEF WellLeased
<1>4. CASE RowGranted(u)
  <2>1. PICK c \in reserving : /\ row'[u] = Leased(row[u], u, c)
                               /\ TokenOf(u, c) \in issued'
    BY <1>4 DEF RowGranted
  <2>2. c \in ReserveCall
    BY DEF TypeOK
  <2>3. TokenOf(u, c) # None /\ c.worker # None /\ c.at + LeaseTTL # None
    BY <2>2, TokenOfType, NullAssumption, TimeAssumption DEF ReserveCall
  <2>4. TokenOf(u, c).url = u /\ TokenOf(u, c).worker = c.worker
    BY DEF TokenOf
  <2>. QED BY <1>2, <2>1, <2>3, <2>4, LeasedShape DEF WellLeased
<1>5. CASE RowExtended(u)
  <2>1. PICK c \in answering : /\ Holds(c.token) /\ c.token.url = u
                               /\ row'[u] = [row[u] EXCEPT !.expires = c.at + HeartbeatExtend]
    BY <1>5 DEF RowExtended
  <2>2. c.at + HeartbeatExtend \in Nat
    BY TimeAssumption DEF TypeOK, AnswerCall
  <2>3. row[u].status = "leased" /\ c.at + HeartbeatExtend # None
    BY <2>1, <2>2, NullAssumption DEF Holds
  <2>4. /\ row'[u].status = row[u].status /\ row'[u].token = row[u].token
        /\ row'[u].holder = row[u].holder
        /\ row'[u].expires = c.at + HeartbeatExtend
    BY <1>2, <2>1 DEF Row
  <2>. QED BY <1>1, <1>2, <2>3, <2>4 DEF WellLeased
<1>6. CASE RowCompleted(u)
  BY <1>2, <1>6, UnleasedShape DEF RowCompleted, WellLeased, Status
<1>7. CASE RowFailed(u) \/ RowFailedBlindly(u)
  <2>1. PICK v \in {"queued", "dead"}, at \in Nat \cup {now} :
          row'[u] = Failed(row[u], v, at)
    BY <1>7 DEF RowFailed, RowFailedBlindly
  <2>. QED BY <1>2, <2>1, FailedShape DEF WellLeased
<1>8. CASE RowAdded(u)
  BY <1>2, <1>8, AddedShape DEF RowAdded, WellLeased
<1>9. CASE RowSwept(u)
  BY <1>2, <1>9, UnleasedShape DEF RowSwept, WellLeased, Status
<1>10. CASE RowRequeued(u)
  <2>1. row'[u] = [Unleased(row[u], "queued") EXCEPT !.nextRetry = None]
    BY <1>10 DEF RowRequeued
  <2>2. /\ row'[u].status = "queued" /\ row'[u].token = None
        /\ row'[u].holder = None /\ row'[u].expires = None
    BY <1>2, <2>1 DEF Unleased, Row
  <2>. QED BY <2>2 DEF WellLeased
<1>. QED BY <1>1, <1>3, <1>4, <1>5, <1>6, <1>7, <1>8, <1>9, <1>10 DEF RowStep

\* However reserves, answers, sweeps and requeues interleave, on either
\* database, a row carries a whole lease or none.
THEOREM WholeLeases == Spec => []LeaseShape
<1>1. Init => LeaseShape
  BY DEF Init, LeaseShape, WellLeased, NoRow
<1>2. TypeOK /\ LeaseShape /\ [Next]_vars => LeaseShape'
  <2>. SUFFICES ASSUME TypeOK, LeaseShape, [Next]_vars PROVE LeaseShape'
    OBVIOUS
  <2>1. \A u \in URL : RowStep(u) /\ issued \subseteq issued'
    BY RowStepLemma
  <2>. QED BY <2>1, LeaseShapeStep
<1>. QED BY <1>1, <1>2, Typing, PTL DEF Spec

-----------------------------------------------------------------------------
\* The bound on a lease.  It needs what AnswerBegin verified to be remembered:
\* an answer in flight read the clock before its token expired.

AnswersInTime ==
  \A c \in answering : c.verdict = None => c.at <= c.token.exp * TicksPerSecond

LEMMA AnswersInTimeStep ==
  ASSUME TypeOK, AnswersInTime, [Next]_vars
  PROVE  AnswersInTime'
<1>1. ASSUME answering' \subseteq answering PROVE AnswersInTime'
  BY <1>1 DEF AnswersInTime
<1>2. ASSUME NEW t \in issued, AnswerBegin(t) PROVE AnswersInTime'
  BY <1>2 DEF AnswerBegin, Verify, AnswersInTime
<1>3. ASSUME NEW c \in answering, NEW retryable \in BOOLEAN, FailRead(c, retryable)
      PROVE  AnswersInTime'
  <2>. DEFINE decided == [c EXCEPT !.verdict = Verdict(row[c.token.url], retryable),
                                   !.at = now]
  <2>1. decided.verdict # None
    BY NullAssumption DEF Verdict, Status, TypeOK, AnswerCall
  <2>. QED BY <1>3, <2>1 DEF FailRead, AnswersInTime
<1>4. CASE Reserve
  BY <1>1, <1>4 DEF Reserve, ReserveCommit, ReservePick, ReserveLease
<1>5. ASSUME NEW c \in answering, Heartbeat(c) \/ Complete(c) \/ FailWrite(c)
      PROVE  AnswersInTime'
  BY <1>1, <1>5 DEF Heartbeat, Complete, CompleteRow, FailWrite
<1>6. ASSUME NEW c \in answering, NEW retryable \in BOOLEAN, Fail(c, retryable)
      PROVE  AnswersInTime'
  BY <1>1, <1>6 DEF Fail
<1>7. CASE Link
  BY <1>1, <1>7 DEF Link, EnqueueMany, ScopeLink
<1>8. CASE CallFails
  BY <1>1, <1>8 DEF CallFails
<1>9. CASE SweepExpired \/ Requeue \/ Tick \/ UNCHANGED vars
  BY <1>1, <1>9 DEF SweepExpired, Requeue, RequeueByFilter, Tick, vars
<1>10. CASE Operate
  BY <1>1, <1>10 DEF Operate, SeedDomain, SetActive, UpdateCrawlDelay,
       UpdateParallelFetches, UpdateRequiredCapability, SetDomain
<1>11. ASSUME NEW u \in URL, NEW p \in Priorities, Enqueue(u, p) PROVE AnswersInTime'
  BY <1>1, <1>11 DEF Enqueue
<1>12. ASSUME NEW w \in Worker, NEW conn \in 1..ReservesPerWorker, NEW n \in Batches,
              ReserveBegin(w, conn, n)
       PROVE  AnswersInTime'
  BY <1>1, <1>12 DEF ReserveBegin
<1>. QED
  BY <1>2, <1>3, <1>4, <1>5, <1>6, <1>7, <1>8, <1>9, <1>10, <1>11, <1>12
     DEF Next, Answer

\* A lease is over in bounded time whatever its worker sends: the expiry in the
\* row never runs ahead of the one signed into the token by more than a
\* heartbeat or the rounding of a second.
THEOREM BoundedLeases == Spec => []LeaseBounded
<1>. DEFINE Inv == AnswersInTime /\ LeaseBounded
<1>1. Init => Inv
  BY DEF Init, AnswersInTime, LeaseBounded, NoRow
<1>2. TypeOK /\ LeaseShape /\ Inv /\ [Next]_vars => Inv'
  <2>. SUFFICES ASSUME TypeOK, LeaseShape, Inv, [Next]_vars, NEW u \in URL,
                       row'[u].status = "leased"
                PROVE  row'[u].expires <= row'[u].token.exp * TicksPerSecond + LeaseSlack
    BY AnswersInTimeStep DEF LeaseBounded, LeaseSlack
  <2>1. RowStep(u)
    BY RowStepLemma
  <2>2. row[u] \in Row /\ WellLeased(u)
    BY DEF TypeOK, LeaseShape
  <2>3. CASE row'[u] = row[u]
    BY <2>3 DEF LeaseBounded
  <2>4. CASE RowGranted(u)
    <3>1. PICK c \in reserving : row'[u] = Leased(row[u], u, c)
      BY <2>4 DEF RowGranted
    <3>2. c.at + LeaseTTL \in Nat
      BY TimeAssumption DEF TypeOK, ReserveCall
    <3>3. /\ row'[u].expires = c.at + LeaseTTL
          /\ row'[u].token.exp = (c.at + LeaseTTL) \div TicksPerSecond
      <4>1. row'[u].expires = c.at + LeaseTTL /\ row'[u].token = TokenOf(u, c)
        BY <2>2, <3>1, LeasedShape
      <4>2. TokenOf(u, c).exp = (c.at + LeaseTTL) \div TicksPerSecond
        BY DEF TokenOf
      <4>. QED BY <4>1, <4>2
    <3>4. row'[u].expires < row'[u].token.exp * TicksPerSecond + TicksPerSecond
      BY <3>2, <3>3, DivBelow, TimeAssumption
    <3>5. row'[u].expires \in Nat /\ row'[u].token.exp \in Nat
      BY <3>2, <3>3, DivNat, TimeAssumption
    <3>6. row'[u].token.exp * TicksPerSecond \in Nat
      BY <3>5, TimeAssumption
    <3>. QED BY <3>4, <3>5, <3>6, TimeAssumption DEF LeaseSlack
  <2>5. CASE RowExtended(u)
    <3>1. PICK c \in answering : /\ c.verdict = None /\ Holds(c.token) /\ c.token.url = u
                                 /\ row'[u] = [row[u] EXCEPT !.expires = c.at + HeartbeatExtend]
      BY <2>5 DEF RowExtended
    <3>2. c \in AnswerCall /\ c.at \in Nat /\ c.token.exp \in Nat
      BY DEF TypeOK, AnswerCall, Token
    <3>3. row'[u].token = c.token /\ row'[u].expires = c.at + HeartbeatExtend
      BY <2>2, <3>1 DEF Row, Holds
    <3>4. c.at <= c.token.exp * TicksPerSecond
      BY <3>1 DEF AnswersInTime
    <3>5. c.token.exp * TicksPerSecond \in Nat
      BY <3>2, TimeAssumption
    <3>. QED BY <3>2, <3>3, <3>4, <3>5, TimeAssumption DEF LeaseSlack
  <2>6. CASE RowCompleted(u)
    BY <2>2, <2>6, UnleasedShape DEF RowCompleted, Status
  <2>7. CASE RowFailed(u) \/ RowFailedBlindly(u)
    <3>1. PICK v \in {"queued", "dead"}, at \in Nat \cup {now} :
            row'[u] = Failed(row[u], v, at)
      BY <2>7 DEF RowFailed, RowFailedBlindly
    <3>. QED BY <2>2, <3>1, FailedShape
  <2>8. CASE RowAdded(u)
    BY <2>2, <2>8, AddedShape DEF RowAdded
  <2>9. CASE RowSwept(u)
    BY <2>2, <2>9, UnleasedShape DEF RowSwept, Status
  <2>10. CASE RowRequeued(u)
    BY <2>2, <2>10 DEF RowRequeued, Unleased, Row
  <2>. QED BY <2>1, <2>3, <2>4, <2>5, <2>6, <2>7, <2>8, <2>9, <2>10 DEF RowStep
<1>. QED BY <1>1, <1>2, Typing, WholeLeases, PTL DEF Spec

\* A sweep ends every lease whose token ran out more than a heartbeat, or the
\* rounding of a second, ago: the safety half of "every lease ends", which the
\* clock and the sweeper's ticks complete.
THEOREM SweepsTakeRowsBack == Spec => SweepsReclaim
<1>1. TypeOK /\ LeaseShape /\ LeaseBounded /\ SweepExpired =>
        \A u \in URL : row'[u].status = "leased" =>
          now <= row'[u].token.exp * TicksPerSecond + LeaseSlack
  <2>. SUFFICES ASSUME TypeOK, LeaseShape, LeaseBounded, SweepExpired, NEW u \in URL,
                       row'[u].status = "leased"
                PROVE  now <= row'[u].token.exp * TicksPerSecond + LeaseSlack
    OBVIOUS
  <2>1. row[u] \in Row /\ now \in Nat
    BY TimeAssumption DEF TypeOK
  <2>2. ~ Expired(u) /\ row'[u] = row[u]
    BY <2>1, UnleasedShape DEF SweepExpired, UpdateRows, Status
  <2>3. WellLeased(u)
    BY DEF LeaseShape
  <2>4. /\ now <= row[u].expires /\ row[u].expires \in Nat
        /\ row[u].token \in Token
    BY <2>1, <2>2, <2>3 DEF Expired, WellLeased, Row
  <2>5. row[u].expires <= row[u].token.exp * TicksPerSecond + LeaseSlack
    BY <2>2 DEF LeaseBounded
  <2>6. row[u].token.exp \in Nat
    BY <2>4 DEF Token
  <2>7. row[u].token.exp * TicksPerSecond \in Nat /\ LeaseSlack \in Nat
    BY <2>6, TimeAssumption DEF LeaseSlack
  <2>. QED BY <2>1, <2>2, <2>4, <2>5, <2>7
<1>. QED BY <1>1, Typing, WholeLeases, BoundedLeases, PTL DEF Spec, SweepsReclaim

-----------------------------------------------------------------------------
\* What a step may never do to a lease or to a settled row.

\* Neither a reserve that picked a row before another took it, nor an answer,
\* moves a lease from one token to another without releasing it first.
THEOREM LeasesAreNotStolen == Spec => NoStolenLease
<1>1. TypeOK /\ [Next]_vars =>
        \A u \in URL : row[u].status = "leased" /\ row'[u].status = "leased" =>
          row'[u].token = row[u].token
  <2>. SUFFICES ASSUME TypeOK, [Next]_vars, NEW u \in URL,
                       row[u].status = "leased", row'[u].status = "leased"
                PROVE  row'[u].token = row[u].token
    OBVIOUS
  <2>1. RowStep(u) /\ row[u] \in Row
    BY RowStepLemma DEF TypeOK
  <2>2. ~ RowGranted(u) /\ ~ RowAdded(u)
    BY DEF RowGranted, RowAdded
  <2>3. ~ RowCompleted(u) /\ ~ RowSwept(u)
    BY <2>1, UnleasedShape DEF RowCompleted, RowSwept, Status
  <2>4. ~ RowFailed(u) /\ ~ RowFailedBlindly(u)
    BY <2>1, FailedShape DEF RowFailed, RowFailedBlindly
  <2>5. ~ RowRequeued(u)
    BY <2>1 DEF RowRequeued, Unleased, Row
  <2>6. row'[u] = row[u] \/ RowExtended(u)
    BY <2>1, <2>2, <2>3, <2>4, <2>5 DEF RowStep
  <2>. QED BY <2>1, <2>6 DEF RowExtended, Row
<1>. QED BY <1>1, Typing, PTL DEF Spec, NoStolenLease

\* On SQLite, where Fail reads and writes in one transaction, no answer, sweep
\* or link reopens a row that is done or dead: only the operator does.
THEOREM SettledRowsStay ==
  ASSUME Driver = "sqlite" PROVE Spec => SettledIsFinal
<1>1. TypeOK /\ LeaseShape /\ [Next]_vars =>
        \/ \A u \in URL : row[u].status \in Settled => row'[u].status = row[u].status
        \/ Requeue
  <2>. SUFFICES ASSUME TypeOK, LeaseShape, [Next]_vars, ~ Requeue,
                       NEW u \in URL, row[u].status \in Settled
                PROVE  row'[u].status = row[u].status
    OBVIOUS
  <2>1. RowStep(u) /\ WellLeased(u)
    BY RowStepLemma DEF LeaseShape
  <2>2. row[u].status \notin {"absent", "queued", "leased"} /\ row[u].token = None
    BY <2>1 DEF Settled, WellLeased
  <2>3. ~ RowFailed(u)
    <3>1. \A c \in answering : c.token # None
      BY NullAssumption DEF TypeOK, AnswerCall
    <3>. QED BY <2>2, <3>1 DEF RowFailed
  <2>4. ~ RowExtended(u) /\ ~ RowCompleted(u)
    BY <2>2 DEF RowExtended, RowCompleted, Holds
  <2>5. ~ RowGranted(u) /\ ~ RowAdded(u) /\ ~ RowSwept(u)
    BY <2>2 DEF RowGranted, RowAdded, RowSwept, Expired
  <2>6. ~ RowRequeued(u) /\ ~ RowFailedBlindly(u)
    BY DEF RowRequeued, RowFailedBlindly
  <2>. QED BY <2>1, <2>3, <2>4, <2>5, <2>6 DEF RowStep
<1>. QED BY <1>1, Typing, WholeLeases, PTL DEF Spec, SettledIsFinal
=============================================================================
