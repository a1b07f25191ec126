------------------------------ MODULE Frontier ------------------------------
(***************************************************************************)
(* The crawl queue: table crawl_frontier with its domains, the reserve,    *)
(* heartbeat, result and fail handlers of the registry, the sweeper and    *)
(* the operator's commands, which run in a process of their own against    *)
(* the same database.                                                      *)
(*                                                                         *)
(* A handler reads the clock and verifies the lease token BEFORE it waits  *)
(* for the database writer, so every call is two steps or more: it is      *)
(* begun, and later commits its transaction.  A begun call remembers in    *)
(* "at" the time it read.  What a worker may still send is every token it  *)
(* was ever handed, any number of times: answers are lost, duplicated and  *)
(* delayed at will.                                                        *)
(***************************************************************************)
EXTENDS Integers, FiniteSets

CONSTANTS
  URL, Domain, HostOf,      \* canonical URLs, hosts, and the host of each URL
  Worker, CapsOf,           \* workers and their stored capabilities ({}: any)
  Capability,
  None,                     \* SQL NULL, the zero field of a filter, "no value"
  Driver,                   \* "sqlite" or "mysql"
  TicksPerSecond,           \* one tick of the model is a fraction of a second
  LeaseTTL, HeartbeatExtend, DefaultBackoff, MaxAttempts,
  MaxConcurrent,            \* the workers' cap on held leases, 0: unlimited
  AllowAutoDomains,
  LinkSets,                 \* the sets of links a fetched page may report
  Batches, Priorities,      \* arguments of the calls and of the operator
  Delays, Widths, DefaultDelay,
  RequeueFilters,           \* the filters the operator requeues by
  OperatorEdits             \* the domain settings the operator changes

\* Bounds of the model, none of them in the code.
CONSTANTS
  MaxTime,                  \* the clock stops here
  LastReserve,              \* no reserve begins after this time
  MaxWait,                  \* how long a reserve may wait for the writer
  ReservesPerWorker,        \* reserves of one worker in flight together
  MaxCalls,                 \* calls in flight together
  LeaseBound                \* leases one row is given

\* "absent" stands for no row.
Status == {"absent", "queued", "leased", "done", "dead"}
Settled == {"done", "dead"}
Edit == {"delay", "width", "need", "active"}

\* What identifies a signed token: the expiry it carries is in whole seconds,
\* so two leases of one URL to one worker may carry equal tokens.
Token == [url : URL, worker : Worker, exp : Nat]
Filter == [status : Status \cup {None}, worker : Worker \cup {None},
           domain : Domain \cup {None}]

ASSUME FiniteAssumption == IsFiniteSet(URL)
ASSUME HostAssumption == HostOf \in [URL -> Domain]
ASSUME CapAssumption == CapsOf \in [Worker -> SUBSET Capability]
ASSUME NullAssumption ==
  /\ None \notin Nat /\ None \notin Worker /\ None \notin Domain
  /\ None \notin Capability /\ None \notin Token /\ None \notin Status
ASSUME DriverAssumption == Driver \in {"sqlite", "mysql"}
ASSUME TimeAssumption ==
  /\ TicksPerSecond \in Nat \ {0}
  /\ LeaseTTL \in Nat /\ HeartbeatExtend \in Nat /\ DefaultBackoff \in Nat
  /\ DefaultDelay \in Int
  /\ MaxTime \in Nat /\ LastReserve \in Nat /\ MaxWait \in Nat
ASSUME CountAssumption ==
  /\ MaxAttempts \in Nat /\ MaxConcurrent \in Nat
  /\ LeaseBound \in Nat /\ ReservesPerWorker \in Nat /\ MaxCalls \in Nat
  /\ Batches \subseteq Nat \ {0} /\ Priorities \subseteq Nat
  /\ Delays \subseteq Int /\ Widths \subseteq Int
ASSUME OperatorAssumption ==
  /\ AllowAutoDomains \in BOOLEAN /\ LinkSets \subseteq SUBSET URL
  /\ RequeueFilters \subseteq Filter /\ OperatorEdits \subseteq Edit

VARIABLES
  now,        \* the clock
  row,        \* crawl_frontier, one row per URL
  domain,     \* domains, one row per host
  served,     \* history: when a lease of the host was last committed
  issued,     \* the tokens handed out so far
  reserving,  \* reserve calls in flight
  answering,  \* heartbeat, result and fail calls in flight
  linking     \* accepted results whose links are still to be enqueued

vars == <<now, row, domain, served, issued, reserving, answering, linking>>

Row == [status : Status, token : Token \cup {None},
        holder : Worker \cup {None}, expires : Nat \cup {None},
        attempts : Nat, nextRetry : Nat \cup {None},
        scheduled : Nat, priority : Nat]
DomainRow == [seeded : BOOLEAN, active : BOOLEAN, delay : Int,
              width : Nat \ {0}, need : Capability \cup {None},
              last : Nat \cup {None}]

\* conn tells a worker's concurrent reserves apart.
\* picks: the rows a reserve has selected and not yet leased (mysql).
ReserveCall == [worker : Worker, conn : Nat, batch : Nat, at : Nat,
                picked : BOOLEAN, picks : SUBSET URL]
\* A heartbeat, a result or a fail: which of them shows when it commits.
\* verdict: the status a fail has decided on and not yet written (mysql).
AnswerCall == [token : Token, at : Nat, verdict : {"queued", "dead", None}]
\* The links of the result accepted for a page's lease number "attempt".
\* links: reported and not yet looked at; jobs: in scope, not yet inserted.
LinkCall == [page : URL, attempt : Nat, links : SUBSET URL, jobs : SUBSET URL]

TypeOK ==
  /\ now \in 0..MaxTime
  /\ row \in [URL -> Row]
  /\ domain \in [Domain -> DomainRow]
  /\ served \in [Domain -> Nat \cup {None}]
  /\ issued \subseteq Token
  /\ reserving \subseteq ReserveCall
  /\ answering \subseteq AnswerCall
  /\ linking \subseteq LinkCall

NoRow == [status |-> "absent", token |-> None, holder |-> None,
          expires |-> None, attempts |-> 0, nextRetry |-> None,
          scheduled |-> 0, priority |-> 0]
NoDomain == [seeded |-> FALSE, active |-> FALSE, delay |-> 0, width |-> 1,
             need |-> None, last |-> None]

Init ==
  /\ now = 0
  /\ row = [u \in URL |-> NoRow]
  /\ domain = [d \in Domain |-> NoDomain]
  /\ served = [d \in Domain |-> None]
  /\ issued = {} /\ reserving = {} /\ answering = {} /\ linking = {}

-----------------------------------------------------------------------------
(***************************************************************************)
(* The statements the handlers run.                                        *)
(***************************************************************************)

Calls == Cardinality(reserving) + Cardinality(answering) + Cardinality(linking)

\* UPDATE crawl_frontier SET (what new does) WHERE url_hash IN S
UpdateRows(S, new(_)) == row' = [u \in URL |-> IF u \in S THEN new(row[u])
                                                          ELSE row[u]]

\* The update of Fail, Complete, the sweeper and the requeue drops the lease.
UnleasedKeepingExpiry(r, s) ==
  [r EXCEPT !.status = s, !.token = None, !.holder = None]
Unleased(r, s) == [r EXCEPT !.status = s, !.token = None, !.holder = None,
                            !.expires = None]

\* FirstOrCreate by url_hash: a row that exists is left as it is.
NewRowResets(r, p) ==
  [NoRow EXCEPT !.status = "queued", !.scheduled = now, !.priority = p]
NewRow(r, p) ==
  IF r.status = "absent"
    THEN [NoRow EXCEPT !.status = "queued", !.scheduled = now, !.priority = p]
    ELSE r

\* A host row that exists is left as it is.
UpsertByHost(d, delay) ==
  IF domain[d].seeded THEN domain[d]
  ELSE [NoDomain EXCEPT !.seeded = TRUE, !.active = TRUE, !.delay = delay]

\* The lease's HMAC expiry, compared with the clock of the handler.
VerifyForgetsExpiry(t) == t \in issued
Verify(t) == t \in issued /\ now <= t.exp * TicksPerSecond

Held(w) == {u \in URL : row[u].status = "leased" /\ row[u].holder = w}

\* What MaxConcurrent leaves of a requested batch.
EffectiveBatchPerCall(w, n) ==
  IF MaxConcurrent = 0 \/ n <= MaxConcurrent THEN n ELSE MaxConcurrent
EffectiveBatch(w, n) ==
  LET room == MaxConcurrent - Cardinality(Held(w))
  IN  IF MaxConcurrent = 0 THEN n
      ELSE IF room < 0 THEN 0
      ELSE IF room < n THEN room ELSE n

PoliteWhileIdle(d) == \A u \in URL : HostOf[u] = d => row[u].status # "leased"

\* Elapsed time since the domain was last served, as each database computes
\* it: SQLite subtracts whole seconds, MySQL's NOW() drops the clock's fraction.
WholeSeconds(t) == (t \div TicksPerSecond) * TicksPerSecond
Polite(d) ==
  \/ domain[d].last = None
  \/ IF Driver = "sqlite"
       THEN (now \div TicksPerSecond - domain[d].last \div TicksPerSecond)
              * TicksPerSecond >= domain[d].delay
       ELSE WholeSeconds(now) - domain[d].last >= domain[d].delay

\* An empty stored set is a worker from before capabilities: it serves any host.
Serves(w, d) == CapsOf[w] = {} \/ domain[d].need \in CapsOf[w] \cup {None}

Eligible(c) ==
  {u \in URL : /\ row[u].status = "queued"
               /\ row[u].scheduled <= c.at
               /\ row[u].nextRetry = None \/ row[u].nextRetry <= c.at
               /\ domain[HostOf[u]].active
               /\ Polite(HostOf[u])
               /\ Serves(c.worker, HostOf[u])
               /\ row[u].attempts < LeaseBound}

Precedes(u, v) ==
  \/ row[u].priority > row[v].priority
  \/ row[u].priority = row[v].priority /\ row[u].scheduled < row[v].scheduled

\* ROW_NUMBER() per domain, at most width of them; ties are the database's.
Ranked(c) ==
  {R \in SUBSET Eligible(c) :
     \A d \in Domain :
       LET here == {u \in Eligible(c) : HostOf[u] = d}
           mine == here \cap R
       IN  /\ Cardinality(mine) <= domain[d].width
           /\ here # mine => Cardinality(mine) = domain[d].width
           /\ \A u \in mine, v \in here \ mine : ~ Precedes(v, u)}

\* LIMIT batch, in no order.
Picks(c) ==
  {P \in SUBSET Eligible(c) :
     \E R \in Ranked(c) :
       /\ P \subseteq R
       /\ Cardinality(P) <= c.batch
       /\ P # R => Cardinality(P) = c.batch}

TokenOf(u, c) == [url |-> u, worker |-> c.worker,
                  exp |-> (c.at + LeaseTTL) \div TicksPerSecond]

Leased(r, u, c) ==
  [r EXCEPT !.status = "leased", !.token = TokenOf(u, c), !.holder = c.worker,
            !.expires = c.at + LeaseTTL, !.attempts = @ + 1]

\* AND status = 'queued' in the update: rows another reserve took are skipped.
WonUnchecked(P) == P
Won(P) == {u \in P : row[u].status = "queued"}

\* Lease the picked rows that are still queued and touch their domains with
\* the time the call began.
LeaseRows(c, P) ==
  LET won == Won(P)
      hosts == {HostOf[u] : u \in won}
  IN  /\ row' = [u \in URL |-> IF u \in won THEN Leased(row[u], u, c) ELSE row[u]]
      /\ domain' = [d \in Domain |-> IF d \in hosts
                                       THEN [domain[d] EXCEPT !.last = c.at]
                                       ELSE domain[d]]
      /\ served' = [d \in Domain |-> IF d \in hosts THEN now ELSE served[d]]
      /\ issued' = issued \cup {TokenOf(u, c) : u \in won}

-----------------------------------------------------------------------------
(***************************************************************************)
(* Reserve.                                                                *)
(***************************************************************************)

\* The handler counts the worker's leases and reads the clock.
ReserveBegin(w, conn, n) ==
  /\ now <= LastReserve /\ Calls < MaxCalls
  /\ \A c \in reserving : <<c.worker, c.conn>> # <<w, conn>>
  /\ EffectiveBatch(w, n) > 0
  /\ reserving' = reserving \cup
       {[worker |-> w, conn |-> conn, batch |-> EffectiveBatch(w, n), at |-> now,
         picked |-> FALSE, picks |-> {}]}
  /\ UNCHANGED <<now, row, domain, served, issued, answering, linking>>

\* SQLite has one writer: the pick and the updates are one step.
ReserveCommit(c) ==
  /\ Driver = "sqlite"
  /\ \E P \in Picks(c) : LeaseRows(c, P)
  /\ reserving' = reserving \ {c}
  /\ UNCHANGED <<now, answering, linking>>

\* MySQL has many writers: the pick reads a snapshot and others commit before
\* the updates, which check the status of the rows as they are.
ReservePick(c) ==
  /\ Driver = "mysql" /\ ~ c.picked
  /\ \E P \in Picks(c) :
       reserving' = (reserving \ {c}) \cup {[c EXCEPT !.picked = TRUE, !.picks = P]}
  /\ UNCHANGED <<now, row, domain, served, issued, answering, linking>>

ReserveLease(c) ==
  /\ Driver = "mysql" /\ c.picked
  /\ LeaseRows(c, c.picks)
  /\ reserving' = reserving \ {c}
  /\ UNCHANGED <<now, answering, linking>>

-----------------------------------------------------------------------------
(***************************************************************************)
(* Heartbeat, result and fail.                                             *)
(***************************************************************************)

\* The service verifies the signature and the expiry inside the token.
AnswerBegin(t) ==
  /\ Calls < MaxCalls
  /\ Verify(t)
  /\ answering' = answering \cup
       {[token |-> t, at |-> now, verdict |-> None]}
  /\ UNCHANGED <<now, row, domain, served, issued, reserving, linking>>

\* WHERE url_hash = ? AND status = 'leased' AND lease_token = ?
HoldsAnyToken(t) == row[t.url].status = "leased"
Holds(t) == row[t.url].status = "leased" /\ row[t.url].token = t

Heartbeat(c) ==
  /\ c.verdict = None
  /\ LET extended(r) == [r EXCEPT !.expires = c.at + HeartbeatExtend]
     IN  UpdateRows({u \in {c.token.url} : Holds(c.token)}, extended)
  /\ answering' = answering \ {c}
  /\ UNCHANGED <<now, domain, served, issued, reserving, linking>>

\* The row becomes done; a token that no longer holds it is refused.
CompleteRow(c) ==
  /\ c.verdict = None
  /\ LET completed(r) == Unleased(r, "done")
     IN  UpdateRows({u \in {c.token.url} : Holds(c.token)}, completed)
  /\ answering' = answering \ {c}

\* EnqueueMany returns at once when there is nothing to insert.
NewLinkCall(u, attempt, links) ==
  {[page |-> u, attempt |-> attempt, links |-> l, jobs |-> {}] : l \in {links} \ {{}}}

\* AcceptResult, as the queue sees it: the page's links are looked at only
\* once the row is done.
Complete(c) ==
  /\ CompleteRow(c)
  /\ IF Holds(c.token)
       THEN \E links \in LinkSets :
              linking' = linking \cup
                NewLinkCall(c.token.url, row[c.token.url].attempts, links)
       ELSE UNCHANGED linking
  /\ UNCHANGED <<now, domain, served, issued, reserving>>

\* Dead when it may not be retried or has used its attempts; the status
\* "failed" of the domain model is written nowhere.
VerdictFailed(r, retryable) ==
  IF retryable /\ r.attempts < MaxAttempts THEN "queued" ELSE "failed"
Verdict(r, retryable) ==
  IF retryable /\ r.attempts < MaxAttempts THEN "queued" ELSE "dead"

Failed(r, verdict, at) ==
  [Unleased(r, verdict) EXCEPT
     !.nextRetry = IF verdict = "queued" THEN at + DefaultBackoff ELSE None]

Fail(c, retryable) ==
  /\ Driver = "sqlite"
  /\ LET failed(r) == Failed(r, Verdict(r, retryable), now)
     IN  UpdateRows({u \in {c.token.url} : row[u].token = c.token}, failed)
  /\ answering' = answering \ {c}
  /\ UNCHANGED <<now, domain, served, issued, reserving, linking>>

\* On MySQL the row is read from a snapshot, and written by url_hash alone.
FailRead(c, retryable) ==
  /\ Driver = "mysql" /\ c.verdict = None
  /\ row[c.token.url].token = c.token
  /\ answering' = (answering \ {c}) \cup
       {[c EXCEPT !.verdict = Verdict(row[c.token.url], retryable),
                  !.at = now]}
  /\ UNCHANGED <<now, row, domain, served, issued, reserving, linking>>

FailWrite(c) ==
  /\ Driver = "mysql" /\ c.verdict # None
  /\ LET failed(r) == Failed(r, c.verdict, c.at)
     IN  UpdateRows({c.token.url}, failed)
  /\ answering' = answering \ {c}
  /\ UNCHANGED <<now, domain, served, issued, reserving, linking>>

\* FindByHost for one reported link: it is kept when its host is known and
\* active, and dropped otherwise or when the read fails.
ScopeLink(c, u) ==
  LET d == HostOf[u]
      added == AllowAutoDomains /\ ~ domain[d].seeded
      kept == IF domain[d].seeded THEN domain[d].active ELSE added
  IN  /\ u \in c.links
      /\ \/ /\ kept
            /\ linking' = (linking \ {c}) \cup
                 {[c EXCEPT !.links = @ \ {u}, !.jobs = @ \cup {u}]}
            /\ domain' = [domain EXCEPT ![d] = UpsertByHost(d, DefaultDelay)]
         \/ /\ linking' = (linking \ {c}) \cup {[c EXCEPT !.links = @ \ {u}]}
            /\ UNCHANGED domain
      /\ UNCHANGED <<now, row, served, issued, reserving, answering>>

\* EnqueueMany: every job kept goes in with one transaction.
EnqueueMany(c) ==
  /\ c.links = {}
  /\ LET queued(r) == NewRow(r, 0) IN UpdateRows(c.jobs, queued)
  /\ linking' = linking \ {c}
  /\ UNCHANGED <<now, domain, served, issued, reserving, answering>>

\* A call in flight ends without its effect: the client hangs up, the database
\* refuses, or the registry is killed.
CallFails ==
  /\ \/ \E c \in reserving : reserving' = reserving \ {c}
                             /\ UNCHANGED <<answering, linking>>
     \/ \E c \in answering : answering' = answering \ {c}
                             /\ UNCHANGED <<reserving, linking>>
     \/ \E c \in linking : linking' = linking \ {c}
                           /\ UNCHANGED <<reserving, answering>>
  /\ UNCHANGED <<now, row, domain, served, issued>>

-----------------------------------------------------------------------------
(***************************************************************************)
(* The sweeper and the operator.                                           *)
(***************************************************************************)

Expired(u) == row[u].status = "leased" /\ row[u].expires < now

SweepExpired ==
  /\ LET requeued(r) == Unleased(r, "queued")
     IN  UpdateRows({u \in URL : Expired(u)}, requeued)
  /\ UNCHANGED <<now, domain, served, issued, reserving, answering, linking>>

\* Zero fields of the filter constrain nothing.
Matches(u, f) ==
  /\ row[u].status # "absent"
  /\ f.status # None => row[u].status = f.status
  /\ f.worker # None => row[u].holder = f.worker
  /\ f.domain # None => HostOf[u] = f.domain

RequeueByFilter(f) ==
  /\ LET requeued(r) == [Unleased(r, "queued") EXCEPT !.nextRetry = None]
     IN  UpdateRows({u \in URL : Matches(u, f)}, requeued)
  /\ UNCHANGED <<now, domain, served, issued, reserving, answering, linking>>

SetDomain(d, r) ==
  /\ domain' = [domain EXCEPT ![d] = r]
  /\ UNCHANGED <<now, row, served, issued, reserving, answering, linking>>

\* seed-domain writes a width above one by a second statement, which is lost
\* when the command dies between the two.
SeedDomain(d, delay, width) ==
  \E n \in {1, width} :
    SetDomain(d, [UpsertByHost(d, delay) EXCEPT !.width = IF n > 1 THEN n ELSE @])

\* The CLI's enqueue first creates the host, with the default delay.
Enqueue(u, p) ==
  /\ \/ LET queued(r) == NewRow(r, p) IN UpdateRows({u}, queued)
     \/ UNCHANGED row
  /\ domain' = [domain EXCEPT ![HostOf[u]] = UpsertByHost(HostOf[u], DefaultDelay)]
  /\ UNCHANGED <<now, served, issued, reserving, answering, linking>>

SetActive(d, active) ==
  /\ "active" \in OperatorEdits /\ domain[d].seeded
  /\ SetDomain(d, [domain[d] EXCEPT !.active = active])
\* update-domain passes on only delays from 0 and widths from 1.
UpdateCrawlDelay(d, delay) ==
  /\ "delay" \in OperatorEdits /\ domain[d].seeded /\ delay >= 0
  /\ SetDomain(d, [domain[d] EXCEPT !.delay = delay])
UpdateParallelFetches(d, width) ==
  /\ "width" \in OperatorEdits /\ domain[d].seeded /\ width >= 1
  /\ SetDomain(d, [domain[d] EXCEPT !.width = width])
UpdateRequiredCapability(d, need) ==
  /\ "need" \in OperatorEdits /\ domain[d].seeded
  /\ SetDomain(d, [domain[d] EXCEPT !.need = need])

Tick ==
  /\ now < MaxTime
  /\ \A c \in reserving : now < c.at + MaxWait
  /\ now' = now + 1
  /\ UNCHANGED <<row, domain, served, issued, reserving, answering, linking>>

-----------------------------------------------------------------------------
Reserve == \E c \in reserving : ReserveCommit(c) \/ ReservePick(c) \/ ReserveLease(c)
Answer == \E c \in answering :
            \/ Heartbeat(c) \/ Complete(c) \/ FailWrite(c)
            \/ \E retryable \in BOOLEAN : Fail(c, retryable) \/ FailRead(c, retryable)
Link == \E c \in linking : EnqueueMany(c) \/ \E u \in URL : ScopeLink(c, u)
Requeue == \E f \in RequeueFilters : RequeueByFilter(f)
Operate == \E d \in Domain :
             \/ \E delay \in Delays, width \in Widths : SeedDomain(d, delay, width)
             \/ \E active \in BOOLEAN : SetActive(d, active)
             \/ \E delay \in Delays : UpdateCrawlDelay(d, delay)
             \/ \E width \in Widths : UpdateParallelFetches(d, width)
             \/ \E need \in Capability \cup {None} : UpdateRequiredCapability(d, need)

Next ==
  \/ \E w \in Worker, conn \in 1..ReservesPerWorker, n \in Batches :
       ReserveBegin(w, conn, n)
  \/ Reserve
  \/ \E t \in issued : AnswerBegin(t)
  \/ Answer \/ Link \/ CallFails
  \/ SweepExpired \/ Requeue \/ Operate
  \/ \E u \in URL, p \in Priorities : Enqueue(u, p)
  \/ Tick

Spec == Init /\ [][Next]_vars

\* The clock runs and the registry's sweeper goroutine keeps ticking.
FairSpec == Spec /\ WF_vars(Tick) /\ WF_vars(SweepExpired)

-----------------------------------------------------------------------------
(***************************************************************************)
(* Properties.                                                             *)
(***************************************************************************)

\* The three lease columns of a row are set exactly while it is leased, and
\* they name a token handed out for that URL to that worker: no transaction
\* of Reserve, Complete, Fail, the sweeper or a requeue leaves half a lease.
WellLeased(u) ==
  /\ row[u].status = "leased" <=> row[u].token # None
  /\ row[u].status = "leased" <=> row[u].holder # None
  /\ row[u].status = "leased" <=> row[u].expires # None
  /\ row[u].status = "leased" =>
       /\ row[u].token \in issued
       /\ row[u].token.url = u /\ row[u].token.worker = row[u].holder
LeaseShape == \A u \in URL : WellLeased(u)

\* However often and however late a worker heartbeats, the row's expiry stays
\* within one heartbeat of the expiry signed into its token, so a lease is
\* always reclaimed in bounded time ...
LeaseSlack == IF HeartbeatExtend > TicksPerSecond THEN HeartbeatExtend ELSE TicksPerSecond
LeaseBounded ==
  \A u \in URL : row[u].status = "leased" =>
    row[u].expires <= row[u].token.exp * TicksPerSecond + LeaseSlack

\* ... for a sweep leaves no lease behind whose token ran out longer ago than that.
SweepsReclaim ==
  [][SweepExpired => \A u \in URL : row'[u].status = "leased" =>
       now <= row'[u].token.exp * TicksPerSecond + LeaseSlack]_vars

\* A worker never holds more leases than MaxConcurrent for each reserve call it
\* keeps in flight, so MaxConcurrent itself when it keeps one, whatever the
\* sweeper, its answers and the operator do between the count and the commit.
HeldWithinCap ==
  MaxConcurrent > 0 =>
    \A w \in Worker : Cardinality(Held(w)) <= ReservesPerWorker * MaxConcurrent

\* On SQLite a host is not served again before its crawl delay has passed,
\* short of the time a reserve may have waited for the writer and of the part of
\* a second the politeness expression drops.  (On MySQL two reserves may pick
\* from one host together.)
Granted(d) == \E u \in URL : HostOf[u] = d /\ row'[u].attempts > row[u].attempts
PoliteWithin(slack) ==
  \A d \in Domain : Granted(d) /\ served[d] # None =>
    now - served[d] >= domain[d].delay - slack
PoliteUpToSlack == [][PoliteWithin(MaxWait + TicksPerSecond - 1)]_vars

\* On either database, where the operator leaves the delays alone, only reserves
\* in flight together serve a host too early: one that does had read its clock
\* before the host was last served.
EarlyOnlyTogether ==
  [][\A c \in reserving \ reserving', d \in Domain : Granted(d) /\ served[d] # None =>
       \/ served[d] >= c.at
       \/ now - served[d] >= domain[d].delay - (MaxWait + TicksPerSecond - 1)]_vars

\* A settled row is only reopened by the operator's requeue.
SettledIsFinal ==
  [][\/ \A u \in URL : row[u].status \in Settled => row'[u].status = row[u].status
     \/ Requeue]_vars

\* No reserve takes a row from the worker that holds it: a leased row changes
\* its token only by being released first.
NoStolenLease ==
  [][\A u \in URL : row[u].status = "leased" /\ row'[u].status = "leased" =>
       row'[u].token = row[u].token]_vars

\* Once scheduled work is leased it is settled or queued again, even when the
\* worker is silent or heartbeats for ever.
EveryLeaseEnds == \A u \in URL : row[u].status = "leased" ~> row[u].status # "leased"

\* eidos/spec - infra - gormrepo, line 18: Fail is a no-op unless the caller's
\* token matches the stored token.  So one that comes too late spares the lease that
\* another worker has on the row by then.
HeldByAnother(t) == row[t.url].status = "leased" /\ row[t.url].token.worker # t.worker
FailSparesOthers ==
  [][\A c \in answering : FailWrite(c) /\ HeldByAnother(c.token) => UNCHANGED row]_vars
=============================================================================
