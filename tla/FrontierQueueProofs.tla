------------------------ MODULE FrontierQueueProofs -------------------------
(***************************************************************************)
(* On SQLite the crawl frontier implements the leased work queue.  What    *)
(* one step does to one row (RowStep) is a step of the abstract queue on   *)
(* that item, or leaves it alone.                                          *)
(***************************************************************************)
EXTENDS FrontierQueue, FrontierProofs

Answering == {c.token : c \in answering}
ItemStep(u) ==
  \/ Queue!Add(u) \/ Queue!Grant(u) \/ Queue!Finish(u)
  \/ Queue!Release(u) \/ Queue!Revive(u) \/ Queue!Keep(u)

LEMMA ItemStates ==
  /\ ItemState("absent") = "absent" /\ ItemState("queued") = "idle"
  /\ ItemState("leased") = "held"
  /\ ItemState("done") = "finished" /\ ItemState("dead") = "finished"
BY DEF ItemState, Settled

LEMMA ItemStateType ==
  ASSUME NEW s \in Status
  PROVE  ItemState(s) \in {"absent", "idle", "held", "finished"}
BY ItemStates DEF Status

LEMMA RowIsItem ==
  ASSUME TypeOK, TypeOK', LeaseShape, Driver = "sqlite", NEW u \in URL, RowStep(u)
  PROVE  ItemStep(u)
<1>1. /\ RowStep(u) /\ row[u] \in Row /\ row'[u] \in Row /\ WellLeased(u)
  BY DEF TypeOK, LeaseShape
<1>2. CASE row'[u] = row[u]
  BY <1>2 DEF ItemStep, Queue!Keep, Queue!Becomes
<1>3. CASE RowGranted(u)
  <2>1. PICK c \in reserving : row[u].status = "queued" /\ row'[u] = Leased(row[u], u, c)
    BY <1>3 DEF RowGranted
  <2>2. row'[u].status = "leased" /\ row'[u].token = TokenOf(u, c)
    BY <1>1, <2>1, LeasedShape
  <2>3. TokenOf(u, c) \in Token
    BY TokenOfType DEF TypeOK
  <2>. QED BY <2>1, <2>2, <2>3, ItemStates DEF ItemStep, Queue!Grant
<1>4. CASE RowExtended(u)
  <2>1. row'[u].status = row[u].status /\ row'[u].token = row[u].token
    BY <1>1, <1>4 DEF RowExtended, Row
  <2>. QED BY <2>1 DEF ItemStep, Queue!Keep, Queue!Becomes
<1>5. CASE RowCompleted(u)
  <2>1. PICK c \in answering : /\ c.token.url = u /\ Holds(c.token)
                               /\ row'[u] = Unleased(row[u], "done")
    BY <1>5 DEF RowCompleted
  <2>2. row'[u].status = "done" /\ row'[u].token = None
    BY <1>1, <2>1, UnleasedShape DEF Status
  <2>3. row[u].status = "leased" /\ row[u].token \in Answering
    BY <2>1 DEF Holds, Answering
  <2>. QED BY <2>2, <2>3, ItemStates DEF ItemStep, Queue!Finish, Queue!Becomes, Answering
<1>6. CASE RowFailed(u)
  <2>1. PICK c \in answering, v \in {"queued", "dead"} :
          row[u].token = c.token /\ row'[u] = Failed(row[u], v, now)
    BY <1>6 DEF RowFailed
  <2>2. row'[u].status = v /\ row'[u].token = None
    BY <1>1, <2>1, FailedShape
  <2>3. row[u].status = "leased" /\ row[u].token \in Answering
    BY <1>1, <2>1, NullAssumption DEF WellLeased, Answering, TypeOK, AnswerCall
  <2>4. CASE v = "queued"
    BY <2>2, <2>3, <2>4, ItemStates DEF ItemStep, Queue!Release, Queue!Becomes
  <2>5. CASE v = "dead"
    BY <2>2, <2>3, <2>5, ItemStates DEF ItemStep, Queue!Finish, Queue!Becomes, Answering
  <2>. QED BY <2>4, <2>5
<1>7. CASE RowAdded(u)
  <2>1. row[u].status = "absent" /\ row'[u].status = "queued" /\ row'[u].token = None
    BY <1>1, <1>7, AddedShape DEF RowAdded
  <2>. QED BY <2>1, ItemStates DEF ItemStep, Queue!Add, Queue!Becomes
<1>8. CASE RowSwept(u)
  <2>1. row[u].status = "leased" /\ row'[u].status = "queued" /\ row'[u].token = None
    BY <1>1, <1>8, UnleasedShape DEF RowSwept, Expired, Status
  <2>. QED BY <2>1, ItemStates DEF ItemStep, Queue!Release, Queue!Becomes
<1>9. CASE RowRequeued(u)
  <2>1. /\ row[u].status \in {"queued", "leased", "done", "dead"}
        /\ row'[u].status = "queued" /\ row'[u].token = None
    BY <1>1, <1>9 DEF RowRequeued, Unleased, Row, Status
  <2>2. CASE row[u].status = "queued"
    <3>1. row[u].token = None
      BY <1>1, <2>2 DEF WellLeased
    <3>. QED BY <2>1, <2>2, <3>1 DEF ItemStep, Queue!Keep, Queue!Becomes
  <2>3. CASE row[u].status = "leased"
    BY <2>1, <2>3, ItemStates DEF ItemStep, Queue!Release, Queue!Becomes
  <2>4. CASE row[u].status \in {"done", "dead"}
    BY <2>1, <2>4, ItemStates DEF ItemStep, Queue!Revive, Queue!Becomes
  <2>. QED BY <2>1, <2>2, <2>3, <2>4
<1>10. ~ RowFailedBlindly(u)
  BY DEF RowFailedBlindly
<1>. QED BY <1>1, <1>2, <1>3, <1>4, <1>5, <1>6, <1>7, <1>8, <1>9, <1>10 DEF RowStep

LEMMA RowsAreItems ==
  ASSUME TypeOK, TypeOK', LeaseShape, Driver = "sqlite", \A u \in URL : RowStep(u)
  PROVE  Queue!Next
<1>1. \A u \in URL : ItemStep(u)
  BY RowIsItem
<1>2. \A u \in URL : /\ ItemState(row'[u].status) \in {"absent", "idle", "held", "finished"}
                     /\ row'[u].token \in Token \cup {None}
  BY ItemStateType DEF TypeOK, Row
<1>3. \A c \in answering' : c.token \in Token
  BY DEF TypeOK, AnswerCall
<1>. QED BY <1>1, <1>2, <1>3 DEF Queue!Next, ItemStep

LEMMA QueueBegins ==
  ASSUME Init
  PROVE  Queue!Init
<1>1. \A u \in URL : row[u].status = "absent" /\ row[u].token = None
  BY DEF Init, NoRow
<1>2. answering = {}
  BY DEF Init
<1>. QED BY <1>1, <1>2, ItemStates DEF Queue!Init

\* On SQLite every behaviour of the frontier is one of the abstract queue: a URL
\* is worked on under one token at a time and finished only by an answer that
\* carries it.  (On MySQL Fail writes by url_hash alone and breaks this.)
THEOREM FrontierIsALeaseQueue ==
  ASSUME Driver = "sqlite" PROVE Spec => ImplementsLeaseQueue
<1>1. TypeOK /\ TypeOK' /\ LeaseShape /\ [Next]_vars => [Queue!Next]_Queue!vars
  BY RowsAreItems, RowStepLemma
<1>. QED BY <1>1, QueueBegins, Typing, WholeLeases, PTL
         DEF Spec, ImplementsLeaseQueue, Queue!Spec
=============================================================================
