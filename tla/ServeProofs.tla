---------------------------- MODULE ServeProofs ----------------------------
(* Theorems about Serve for every number of requests, routes and configurations, *)
(* and that Serve implements SharedFetch.                                        *)
EXTENDS ServeRefinement, FiniteSetTheorems, TLAPS

(***************************************************************************)
(* The inductive invariant.  OneFetchPerRoute and WaitersCounted are not   *)
(* inductive on their own: a thread that leads must also be known to own   *)
(* the operation in the table (or a second leader could be elected), and a *)
(* thread that joined must be known to be joined to it (or the counters    *)
(* would count threads of another operation).                              *)
(***************************************************************************)
Holding == Leading \cup {"lookup", "queued", "joined"}

HoldersHaveFingerprint ==
  \A t \in Requests : pc[t] \in Holding => fp[t] \in Fingerprints

LeadersOwn ==
  \A t \in Requests : pc[t] \in Leading =>
    /\ operations[route[t]].running
    /\ operations[route[t]].generation = gen[t]
    /\ operations[route[t]].generation # 0
    /\ operations[route[t]].fingerprint = fp[t]

OneLeader ==
  \A t, u \in Requests :
    pc[t] \in Leading /\ pc[u] \in Leading /\ route[t] = route[u] => t = u

JoinersOwn ==
  \A t \in Requests : pc[t] = "joined" =>
    /\ operations[route[t]].generation = gen[t]
    /\ gen[t] # 0
    /\ operations[route[t]].fingerprint = fp[t]

JoinersCounted ==
  \A r \in Routes :
    (IF operations[r].running THEN operations[r].waiters ELSE operations[r].remaining)
      = Cardinality(Joined(r))

FlightInv ==
  /\ LeadersOwn
  /\ OneLeader
  /\ JoinersOwn
  /\ JoinersCounted
  /\ OperationsHaveOwners

----------------------------------------------------------------------------
(* Types *)

\* What stands for NULL, an empty entry or a plain status has its type.
LEMMA NullTypes ==
  ASSUME NEW status \in Nat
  PROVE  /\ Absent \in Row
         /\ NoResponse \in Response
         /\ Plain(status) \in Response
         /\ NoEntry \in CacheEntry
         /\ NoRow \in LastGoodRow
         /\ NoOperation \in Operation
         /\ NoWork \in Work
         /\ DefaultRoute \in Routes
<1>1. Absent \in Row
  BY DEF Absent, Row
<1>2. NoResponse \in Response
  BY <1>1 DEF NoResponse, Response, ConfigValues
<1>3. Plain(status) \in Response
  BY <1>2 DEF Plain, Response
<1>4. NoEntry \in CacheEntry /\ NoRow \in LastGoodRow
  BY <1>1, <1>2 DEF NoEntry, CacheEntry, NoRow, LastGoodRow, Age
<1>5. NoOperation \in Operation
  BY <1>2 DEF NoOperation, Operation, ConfigValues
<1>6. NoWork \in Work
  BY DEF NoWork, Work
<1>7. DefaultRoute \in Routes
  BY ServeAssumption DEF ServeAssumption, DefaultRoute
<1> QED BY <1>1, <1>2, <1>3, <1>4, <1>5, <1>6, <1>7

\* The response a leader publishes is one, with last-good rows restored or not.
LEMMA PublishedType ==
  ASSUME TypeOK, NEW t \in Requests, fp[t] \in Fingerprints
  PROVE  Published(t) \in Response
<1> DEFINE r == route[t]
           f == fp[t]
<1>1. /\ r \in Routes /\ reply[t] \in Response
      /\ lastGoodDashboard[r][f].response \in Response
      /\ \A a \in Accounts : lastGoodRows[r][f][a].row \in Row
  BY DEF TypeOK, CacheEntry, LastGoodRow
<1>2. \A a \in Accounts : RestoredRow(lastGoodRows[r][f][a], reply[t].rows[a]) \in Row
  BY <1>1 DEF RestoredRow, Response
<1>3. [reply[t] EXCEPT !.rows =
         [a \in Accounts |-> RestoredRow(lastGoodRows[r][f][a], reply[t].rows[a])]] \in Response
  BY <1>1, <1>2 DEF Response
<1> QED
  BY <1>1, <1>3 DEF Published

\* The server starts well typed.
LEMMA InitTypeOK == Init => TypeOK
<1> SUFFICES ASSUME Init PROVE TypeOK
  OBVIOUS
<1> USE NullTypes
<1>1. NoEntry \in CacheEntry /\ NoRow \in LastGoodRow /\ NoOperation \in Operation
      /\ NoWork \in Work /\ DefaultRoute \in Routes /\ NoResponse \in Response
  BY NullTypes
<1> QED
  BY <1>1 DEF Init, TypeOK, ConfigValues, PC

\* Replacing one entry of a table keeps the table's type.
LEMMA EntryUpdate ==
  ASSUME NEW S, NEW T, NEW E, NEW table \in [S -> [T -> E]],
         NEW s \in S, NEW u \in T, NEW e \in E
  PROVE  [table EXCEPT ![s][u] = e] \in [S -> [T -> E]]
OBVIOUS

\* An expired entry is still an entry.
LEMMA ExpiredType ==
  /\ \A e \in CacheEntry : Expired(e) \in CacheEntry
  /\ \A e \in LastGoodRow : Expired(e) \in LastGoodRow
BY DEF Expired, CacheEntry, LastGoodRow, Age

\* Edits, expiry, shutdown and spurious wakeups keep the types.
LEMMA EnvironmentKeepsTypes ==
  ASSUME TypeOK, RewriteConfig \/ Expire \/ Stop \/ Drain
                 \/ \E t \in Requests \cup {Main} : WakeSpuriously(t)
  PROVE  TypeOK'
<1> USE DEF environment, tables, flights, scheduling, request
<1>1. CASE RewriteConfig
  BY <1>1 DEF RewriteConfig, TypeOK
<1>2. CASE Expire
  <2>1. PICK r \in Routes, f \in Fingerprints :
       \/ /\ cache' = [cache EXCEPT ![r][f] = Expired(@)]
          /\ UNCHANGED <<lastGoodRows, lastGoodDashboard>>
       \/ /\ \E a \in Accounts :
               lastGoodRows' = [lastGoodRows EXCEPT ![r][f][a] = Expired(@)]
          /\ UNCHANGED <<cache, lastGoodDashboard>>
       \/ /\ lastGoodDashboard' = [lastGoodDashboard EXCEPT ![r][f] = Expired(@)]
          /\ UNCHANGED <<cache, lastGoodRows>>
    BY <1>2 DEF Expire
  <2>2. Expired(cache[r][f]) \in CacheEntry /\ Expired(lastGoodDashboard[r][f]) \in CacheEntry
        /\ \A a \in Accounts : Expired(lastGoodRows[r][f][a]) \in LastGoodRow
    BY ExpiredType DEF TypeOK
  <2>3. [cache EXCEPT ![r][f] = Expired(@)] \in [Routes -> [Fingerprints -> CacheEntry]]
    BY <2>2, EntryUpdate DEF TypeOK
  <2>4. [lastGoodDashboard EXCEPT ![r][f] = Expired(@)] \in [Routes -> [Fingerprints -> CacheEntry]]
    BY <2>2, EntryUpdate DEF TypeOK
  <2>5. ASSUME NEW a \in Accounts
        PROVE  [lastGoodRows EXCEPT ![r][f][a] = Expired(@)]
                 \in [Routes -> [Fingerprints -> [Accounts -> LastGoodRow]]]
    BY <2>2 DEF TypeOK
  <2>6. /\ cache' \in [Routes -> [Fingerprints -> CacheEntry]]
        /\ lastGoodDashboard' \in [Routes -> [Fingerprints -> CacheEntry]]
        /\ lastGoodRows' \in [Routes -> [Fingerprints -> [Accounts -> LastGoodRow]]]
    <3>1. CASE cache' = [cache EXCEPT ![r][f] = Expired(@)]
               /\ UNCHANGED <<lastGoodRows, lastGoodDashboard>>
      BY <3>1, <2>3 DEF TypeOK
    <3>2. CASE /\ \E a \in Accounts : lastGoodRows' = [lastGoodRows EXCEPT ![r][f][a] = Expired(@)]
               /\ UNCHANGED <<cache, lastGoodDashboard>>
      BY <3>2, <2>5 DEF TypeOK
    <3>3. CASE lastGoodDashboard' = [lastGoodDashboard EXCEPT ![r][f] = Expired(@)]
               /\ UNCHANGED <<cache, lastGoodRows>>
      BY <3>3, <2>4 DEF TypeOK
    <3> QED BY <2>1, <3>1, <3>2, <3>3
  <2>7. UNCHANGED <<environment, flights, scheduling, pc, request>>
    BY <1>2 DEF Expire
  <2> QED BY <2>6, <2>7 DEF TypeOK
<1>3. CASE Stop
  BY <1>3 DEF Stop, TypeOK, PC
<1>4. CASE Drain
  BY <1>4 DEF Drain, TypeOK
<1>5. CASE \E t \in Requests \cup {Main} : WakeSpuriously(t)
  BY <1>5 DEF WakeSpuriously, TypeOK
<1> QED BY <1>1, <1>2, <1>3, <1>4, <1>5

\* Connecting, being refused or answered, and waiting in the queue keep the types.
LEMMA ConnectionKeepsTypes ==
  ASSUME TypeOK, HoldersHaveFingerprint, NEW t \in Requests,
         Connect(t) \/ Accept(t) \/ Refuse(t) \/ AnswerDirectly(t) \/ LoadConfig(t)
         \/ HitCache(t) \/ TimeOutQueued(t)
  PROVE  TypeOK'
<1> USE DEF environment, tables, flights, scheduling, request, PC, Active, Leading
<1>1. CASE Connect(t)
  BY <1>1 DEF Connect, TypeOK
<1>2. CASE Accept(t)
  BY <1>2 DEF Accept, TypeOK
<1>3. CASE Refuse(t)
  BY <1>3 DEF Refuse, TypeOK
<1>4. CASE AnswerDirectly(t)
  BY <1>4, NullTypes DEF AnswerDirectly, TypeOK
<1>5. CASE LoadConfig(t)
  <2>1. route' \in [Requests -> Routes]
    BY <1>5 DEF LoadConfig, TypeOK
  <2>2. pc' \in [Requests -> PC] /\ fp' \in [Requests -> ConfigValues]
    BY <1>5 DEF LoadConfig, TypeOK
  <2>3. reply' \in [Requests -> Response]
    BY <1>5, NullTypes DEF LoadConfig, TypeOK
  <2> QED BY <1>5, <2>1, <2>2, <2>3 DEF LoadConfig, TypeOK
<1>6. CASE HitCache(t)
  <2>1. fp[t] \in Fingerprints
    BY <1>6 DEF HitCache, HoldersHaveFingerprint, Holding
  <2>2. reply' \in [Requests -> Response]
    BY <1>6, <2>1 DEF HitCache, TypeOK, CacheEntry
  <2> QED BY <1>6, <2>1, <2>2 DEF HitCache, TypeOK
<1>7. CASE TimeOutQueued(t)
  BY <1>7, NullTypes DEF TimeOutQueued, TypeOK
<1> QED BY <1>1, <1>2, <1>3, <1>4, <1>5, <1>6, <1>7

\* The threads joined to a route can be counted, since requests are finitely many.
LEMMA JoinedFinite ==
  ASSUME NEW r \in Routes
  PROVE  /\ IsFiniteSet(Joined(r))
         /\ Cardinality(Joined(r)) \in Nat
         /\ Cardinality(Joined(r)) = 0 <=> Joined(r) = {}
<1>1. Joined(r) \in SUBSET Requests
  BY DEF Joined
<1>2. IsFiniteSet(Joined(r))
  BY <1>1, FS_Subset, ServeAssumption DEF ServeAssumption
<1> QED BY <1>2, FS_EmptySet, FS_CardinalityType

\* A thread that joined is counted, so the counter it leaves is not zero.
LEMMA JoinerIsCounted ==
  ASSUME TypeOK, JoinersCounted, NEW t \in Requests, pc[t] = "joined"
  PROVE  /\ operations[route[t]] \in Operation
         /\ operations[route[t]].running => operations[route[t]].waiters > 0
         /\ ~operations[route[t]].running => operations[route[t]].remaining > 0
<1> DEFINE r == route[t]
<1>1. r \in Routes /\ operations[r] \in Operation
  BY DEF TypeOK
<1>2. t \in Joined(r)
  BY DEF Joined
<1>3. Cardinality(Joined(r)) > 0
  BY <1>1, <1>2, JoinedFinite
<1> QED BY <1>1, <1>3 DEF JoinersCounted

\* A turn of the loop of route_response keeps the types.
LEMMA TurnKeepsTypes ==
  ASSUME TypeOK, HoldersHaveFingerprint, NEW t \in Requests, MissCache(t) \/ RetryTurn(t)
  PROVE  TypeOK'
<1> USE DEF environment, tables, flights, scheduling, request, PC, Active, Leading
<1>1. fp[t] \in Fingerprints /\ route[t] \in Routes
  BY DEF MissCache, RetryTurn, HoldersHaveFingerprint, Holding, TypeOK
<1>2. TakeTurn(t)
  BY DEF MissCache, RetryTurn
<1>3. operations' \in [Routes -> Operation] /\ nextGeneration' \in Nat
  <2>1. CASE Lead(t)
    <3> DEFINE op == [NoOperation EXCEPT !.fingerprint = fp[t],
                        !.generation = nextGeneration + 1, !.running = TRUE]
    <3>1. op \in Operation
      <4>1. NoOperation \in Operation /\ nextGeneration + 1 \in Nat /\ fp[t] \in ConfigValues
        BY <1>1, NullTypes DEF TypeOK, ConfigValues
      <4> QED BY <4>1 DEF Operation
    <3> QED BY <1>1, <2>1, <3>1 DEF Lead, TypeOK
  <2>2. CASE Join(t)
    <3>1. WithWaiter(operations[route[t]]) \in Operation
      <4>1. operations[route[t]] \in Operation
        BY <1>1 DEF TypeOK
      <4> QED BY <4>1 DEF WithWaiter, Operation
    <3> QED BY <1>1, <2>2, <3>1 DEF Join, TypeOK
  <2>3. CASE Queue(t)
    BY <2>3 DEF Queue, TypeOK
  <2> QED BY <1>2, <2>1, <2>2, <2>3 DEF TakeTurn
<1>4. gen' \in [Requests -> Nat] /\ pc' \in [Requests -> PC]
  <2>1. operations[route[t]].generation \in Nat /\ nextGeneration + 1 \in Nat
    BY <1>1 DEF TypeOK, Operation
  <2>2. CASE Lead(t)
    BY <2>1, <2>2 DEF Lead, TypeOK
  <2>3. CASE Join(t)
    BY <2>1, <2>3 DEF Join, TypeOK
  <2>4. CASE Queue(t)
    BY <2>1, <2>4 DEF Queue, TypeOK
  <2> QED BY <1>2, <2>2, <2>3, <2>4 DEF TakeTurn
<1>5. work' \in [Requests -> Work]
  <2>1. [work[t] EXCEPT !.waited = TRUE] \in Work
    <3>1. work[t] \in Work
      BY DEF TypeOK
    <3> QED BY <3>1 DEF Work
  <2> QED BY <1>2, <2>1 DEF TakeTurn, Lead, Join, Queue, TypeOK
<1>6. asleep' \subseteq Requests \cup {Main}
  BY <1>2 DEF TakeTurn, Lead, Join, Queue, TypeOK
<1>7. cache' \in [Routes -> [Fingerprints -> CacheEntry]]
  <2>1. [cache EXCEPT ![route[t]][fp[t]] = NoEntry] \in [Routes -> [Fingerprints -> CacheEntry]]
    BY <1>1, NullTypes, EntryUpdate DEF TypeOK
  <2> QED BY <2>1 DEF MissCache, RetryTurn, TypeOK
<1> QED BY <1>3, <1>4, <1>5, <1>6, <1>7 DEF MissCache, RetryTurn, TypeOK

\* Collecting a result or giving up keeps the types: no waiter is subtracted that was not counted.
LEMMA JoinedKeepsTypes ==
  ASSUME TypeOK, JoinersCounted, NEW t \in Requests, WakeJoined(t) \/ TimeOutJoined(t)
  PROVE  TypeOK'
<1> USE DEF environment, tables, flights, scheduling, request, PC, Active, Leading
<1> DEFINE op == operations[route[t]]
<1>1. /\ pc[t] = "joined" /\ route[t] \in Routes
      /\ op \in Operation
      /\ op.running => op.waiters > 0
      /\ ~op.running => op.remaining > 0
  BY JoinerIsCounted DEF WakeJoined, TimeOutJoined, TypeOK
<1>2. CASE Finished(t) /\ Collect(t)
  <2>1. [op EXCEPT !.remaining = @ - 1] \in Operation
    BY <1>1, <1>2 DEF Finished, Operation
  <2>2. operations' \in [Routes -> Operation]
    BY <1>1, <1>2, <2>1, NullTypes DEF Collect, TypeOK
  <2>3. reply' \in [Requests -> Response] /\ pc' \in [Requests -> PC]
    BY <1>1, <1>2 DEF Collect, TypeOK, Operation
  <2>4. asleep' \subseteq Requests \cup {Main}
    BY <1>2 DEF Collect, TypeOK
  <2> QED BY <2>2, <2>3, <2>4 DEF WakeJoined, TimeOutJoined, TypeOK
<1>3. CASE WakeJoined(t) /\ ~Finished(t)
  BY <1>3 DEF WakeJoined, TypeOK
<1>4. CASE TimeOutJoined(t) /\ ~Finished(t)
  <2>1. op.generation = gen[t] => WithoutWaiter(op) \in Operation
    BY <1>1, <1>4 DEF WithoutWaiter, Operation, Finished
  <2>2. operations' \in [Routes -> Operation]
    <3>1. operations \in [Routes -> Operation]
      BY DEF TypeOK
    <3>2. operations' = IF op.generation = gen[t]
                        THEN [operations EXCEPT ![route[t]] = WithoutWaiter(@)] ELSE operations
      BY <1>4 DEF TimeOutJoined
    <3>3. CASE op.generation = gen[t]
      <4>1. operations' = [operations EXCEPT ![route[t]] = WithoutWaiter(op)]
        BY <3>2, <3>3
      <4>2. WithoutWaiter(op) \in Operation
        BY <2>1, <3>3
      <4> HIDE DEF op
      <4> QED BY <1>1, <3>1, <4>1, <4>2
    <3> QED BY <3>1, <3>2, <3>3
  <2>3. reply' \in [Requests -> Response] /\ pc' \in [Requests -> PC]
    <3>1. Plain(504) \in Response
      BY NullTypes
    <3>2. reply' = [reply EXCEPT ![t] = Plain(504)] /\ pc' = [pc EXCEPT ![t] = "replying"]
      BY <1>4 DEF TimeOutJoined
    <3> QED BY <3>1, <3>2 DEF TypeOK
  <2> QED BY <1>4, <2>2, <2>3 DEF TimeOutJoined, TypeOK
<1> QED BY <1>2, <1>3, <1>4 DEF WakeJoined, TimeOutJoined

\* The worker's steps and the leader's wait for it keep the types.
LEMMA FetchKeepsTypes ==
  ASSUME TypeOK, NEW t \in Requests,
         StartWorker(t) \/ LeaderOutOfTime(t) \/ WorkerLoadsConfig(t) \/ WorkerFails(t)
         \/ WorkerPrints(t) \/ ReloadConfig(t)
  PROVE  TypeOK'
<1> USE DEF environment, tables, flights, scheduling, request, PC, Active, Leading
<1>1. /\ gen[t] \in Nat /\ fp[t] \in ConfigValues /\ config \in ConfigValues
      /\ work[t] \in Work /\ route[t] \in Routes
  BY DEF TypeOK
<1>2. ASSUME NEW status \in Nat
      PROVE  Failed(t, status) \in Response
  <2>1. Plain(status) \in Response
    BY NullTypes
  <2> QED BY <1>1, <2>1 DEF Failed, Response
<1>3. CASE StartWorker(t)
  BY <1>3 DEF StartWorker, TypeOK
<1>4. CASE LeaderOutOfTime(t)
  BY <1>2, <1>4 DEF LeaderOutOfTime, TypeOK
<1>5. CASE WorkerLoadsConfig(t)
  <2>1. [work[t] EXCEPT !.seen = @ \cup {config}] \in Work
    BY <1>1 DEF Work
  <2> QED BY <1>5, <2>1 DEF WorkerLoadsConfig, TypeOK
<1>6. CASE WorkerFails(t)
  <2>1. PICK status \in Outcomes : reply' = [reply EXCEPT ![t] = Failed(t, status)]
    BY ZenonT(60), <1>6 DEF WorkerFails
  <2>2. Failed(t, status) \in Response
    BY <1>2, ServeAssumption DEF ServeAssumption
  <2> QED BY <1>6, <2>1, <2>2 DEF WorkerFails, TypeOK
<1>7. CASE WorkerPrints(t)
  <2>1. PICK rows \in [Accounts -> {"absent", "good", "error"}], bare \in BOOLEAN :
          reply' = [reply EXCEPT ![t] = Printed(t, rows, bare)]
    BY <1>7 DEF WorkerPrints
  <2>2. work[t].seen \in SUBSET ConfigValues /\ work[t].runs \in Nat
    BY <1>1 DEF Work
  <2>3. ASSUME NEW a \in Accounts
        PROVE  (IF rows[a] = "good"
                THEN [kind |-> "good", gen |-> gen[t], seen |-> work[t].seen]
                ELSE [Absent EXCEPT !.kind = rows[a]]) \in Row
    BY <1>1, <2>2 DEF Row, Absent
  <2>4. Printed(t, rows, bare) \in Response
    BY <1>1, <2>2, <2>3 DEF Printed, Response
  <2>5. [work[t] EXCEPT !.runs = @ + 1] \in Work
    BY <1>1 DEF Work
  <2> QED BY <1>7, <2>1, <2>4, <2>5 DEF WorkerPrints, TypeOK
<1>8. CASE ReloadConfig(t)
  <2>1. [work[t] EXCEPT !.unchanged = StillCurrent(t)] \in Work
    BY <1>1 DEF Work, StillCurrent
  <2> QED BY <1>8, <2>1 DEF ReloadConfig, TypeOK
<1> QED BY <1>3, <1>4, <1>5, <1>6, <1>7, <1>8

\* Publishing keeps the types of the cache, the last-good tables and the operation.
LEMMA PublishKeepsTypes ==
  ASSUME TypeOK, HoldersHaveFingerprint, NEW t \in Requests, Publish(t)
  PROVE  TypeOK'
<1> USE DEF environment, tables, flights, scheduling, request, PC, Active, Leading
<1> DEFINE r == route[t]
           f == fp[t]
<1>1. /\ r \in Routes /\ f \in Fingerprints
      /\ reply[t] \in Response /\ operations[r] \in Operation
      /\ lastGoodDashboard[r][f] \in CacheEntry
      /\ \A a \in Accounts : lastGoodRows[r][f][a] \in LastGoodRow /\ reply[t].rows[a] \in Row
  BY DEF Publish, HoldersHaveFingerprint, Holding, TypeOK, Response
<1>2. Published(t) \in Response
  BY <1>1, PublishedType
<1>3. cache' \in [Routes -> [Fingerprints -> CacheEntry]]
  <2>1. [age |-> "fresh", response |-> Published(t)] \in CacheEntry
    BY <1>2 DEF CacheEntry, Age
  <2>2. [cache EXCEPT ![r][f] = [age |-> "fresh", response |-> Published(t)]]
          \in [Routes -> [Fingerprints -> CacheEntry]]
    BY <1>1, <2>1, EntryUpdate DEF TypeOK
  <2> QED BY <2>2 DEF Publish, UpdateTables, TypeOK
<1>4. lastGoodDashboard' \in [Routes -> [Fingerprints -> CacheEntry]]
  <2>1. KeptDashboard(lastGoodDashboard[r][f], reply[t]) \in CacheEntry
    <3>1. [age |-> "fresh", response |-> reply[t]] \in CacheEntry
      BY <1>1 DEF CacheEntry, Age
    <3> QED BY <1>1, <3>1, NullTypes DEF KeptDashboard
  <2>2. [lastGoodDashboard EXCEPT ![r][f] = KeptDashboard(@, reply[t])]
          \in [Routes -> [Fingerprints -> CacheEntry]]
    BY <1>1, <2>1, EntryUpdate DEF TypeOK
  <2> QED BY <2>2 DEF Publish, UpdateTables, TypeOK
<1>5. lastGoodRows' \in [Routes -> [Fingerprints -> [Accounts -> LastGoodRow]]]
  <2>1. ASSUME NEW a \in Accounts
        PROVE  KeptRow(lastGoodRows[r][f][a], reply[t].rows[a]) \in LastGoodRow
    <3>1. [age |-> "fresh", row |-> reply[t].rows[a]] \in LastGoodRow
      BY <1>1 DEF LastGoodRow, Age
    <3> QED BY <1>1, <3>1, NullTypes DEF KeptRow
  <2>2. [a \in Accounts |-> KeptRow(lastGoodRows[r][f][a], reply[t].rows[a])]
          \in [Accounts -> LastGoodRow]
    BY <2>1
  <2>3. [lastGoodRows EXCEPT ![r][f] =
           [a \in Accounts |-> KeptRow(lastGoodRows[r][f][a], reply[t].rows[a])]]
          \in [Routes -> [Fingerprints -> [Accounts -> LastGoodRow]]]
    BY <1>1, <2>2, EntryUpdate DEF TypeOK
  <2> QED BY <2>3 DEF Publish, UpdateTables, TypeOK
<1>6. operations' \in [Routes -> Operation] /\ asleep' \subseteq Requests \cup {Main}
  <2>1. Settled(operations[r], Published(t)) \in Operation
    BY <1>1, <1>2, NullTypes DEF Settled, Operation
  <2> QED BY ZenonT(60), <1>1, <2>1 DEF Publish, FinishOperation, TypeOK
<1> QED BY <1>2, <1>3, <1>4, <1>5, <1>6 DEF Publish, TypeOK

\* Sending the answer keeps the types; the client that leaves was counted.
LEMMA SendKeepsTypes ==
  ASSUME TypeOK, NEW t \in Requests, Send(t), activeClients # 0
  PROVE  TypeOK'
<1> USE DEF environment, tables, flights, scheduling, request, PC, Active, Leading
<1>1. NoResponse \in Response /\ NoWork \in Work /\ DefaultRoute \in Routes
  BY NullTypes
<1> QED BY <1>1 DEF Send, AsleepAfterSend, TypeOK, ConfigValues

----------------------------------------------------------------------------
(* Single flight *)

\* The thread leads an operation or waits for its result.
Aboard(t) == pc[t] \in Leading \/ pc[t] = "joined"

\* A step that leaves the operations and all who take part in them alone.
QuietStep ==
  /\ UNCHANGED operations
  /\ \A u \in Requests :
       /\ pc'[u] \in Leading <=> pc[u] \in Leading
       /\ pc'[u] = "joined" <=> pc[u] = "joined"
       /\ Aboard(u) => UNCHANGED <<route[u], fp[u], gen[u]>>

\* A step that changes neither the operations nor who leads or waits keeps the single flight.
LEMMA QuietStepKeepsFlights == FlightInv /\ QuietStep => FlightInv'
<1> SUFFICES ASSUME FlightInv, QuietStep PROVE FlightInv'
  OBVIOUS
<1> USE DEF FlightInv, QuietStep, Aboard
<1>1. LeadersOwn'
  BY DEF LeadersOwn
<1>2. OneLeader'
  BY DEF OneLeader
<1>3. JoinersOwn'
  BY DEF JoinersOwn
<1>4. \A r \in Routes : Joined(r)' = Joined(r) /\ Leaders(r)' = Leaders(r)
  BY DEF Joined, Leaders
<1>5. JoinersCounted' /\ OperationsHaveOwners'
  BY <1>4 DEF JoinersCounted, OperationsHaveOwners
<1> QED BY <1>1, <1>2, <1>3, <1>5

\* Everything but taking a turn, leaving an operation and publishing is quiet.
LEMMA MostStepsAreQuiet ==
  ASSUME TypeOK,
         \/ RewriteConfig \/ Expire \/ Stop \/ Drain
         \/ \E t \in Requests :
              \/ Connect(t) \/ Accept(t) \/ Refuse(t) \/ AnswerDirectly(t) \/ LoadConfig(t)
              \/ HitCache(t) \/ TimeOutQueued(t) \/ StartWorker(t) \/ LeaderOutOfTime(t)
              \/ WorkerLoadsConfig(t) \/ WorkerFails(t) \/ WorkerPrints(t) \/ ReloadConfig(t)
              \/ Send(t)
         \/ \E t \in Requests \cup {Main} : WakeSpuriously(t)
         \/ UNCHANGED vars
  PROVE  QuietStep
<1> USE DEF QuietStep, Aboard, Leading, vars, environment, tables, flights, scheduling, request
<1>1. CASE RewriteConfig \/ Expire \/ Stop \/ Drain
  BY <1>1 DEF RewriteConfig, Expire, Stop, Drain, TypeOK
<1>2. ASSUME NEW t \in Requests,
             Connect(t) \/ Accept(t) \/ Refuse(t) \/ AnswerDirectly(t) \/ LoadConfig(t)
      PROVE  QuietStep
  BY <1>2 DEF Connect, Accept, Refuse, AnswerDirectly, LoadConfig, TypeOK
<1>3. ASSUME NEW t \in Requests, HitCache(t) \/ TimeOutQueued(t) \/ Send(t)
      PROVE  QuietStep
  BY <1>3 DEF HitCache, TimeOutQueued, Send, TypeOK
<1>4. ASSUME NEW t \in Requests,
             StartWorker(t) \/ LeaderOutOfTime(t) \/ WorkerLoadsConfig(t) \/ WorkerFails(t)
             \/ WorkerPrints(t) \/ ReloadConfig(t)
      PROVE  QuietStep
  BY <1>4 DEF StartWorker, LeaderOutOfTime, WorkerLoadsConfig, WorkerFails, WorkerPrints,
              ReloadConfig, TypeOK
<1>5. CASE \E t \in Requests \cup {Main} : WakeSpuriously(t)
  BY <1>5 DEF WakeSpuriously
<1>6. CASE UNCHANGED vars
  BY <1>6
<1> QED BY <1>1, <1>2, <1>3, <1>4, <1>5, <1>6

\* A new leader takes a free route under a number nobody uses.
LEMMA LeadKeepsFlights ==
  ASSUME TypeOK, FlightInv, NEW t \in Requests, MissCache(t) \/ RetryTurn(t), Lead(t)
  PROVE  FlightInv'
<1>0. PICK r \in Routes : r = route[t]
  BY DEF TypeOK
<1> DEFINE g == nextGeneration + 1
<1>1. /\ r = route[t] /\ UNCHANGED <<route, fp>>
      /\ ~Aboard(t)
      /\ operations[r].generation = 0
      /\ operations'[r].running /\ operations'[r].generation = g /\ g \in Nat \ {0}
      /\ operations'[r].fingerprint = fp[t] /\ operations'[r].waiters = 0
      /\ \A q \in Routes \ {r} : operations'[q] = operations[q]
      /\ gen' = [gen EXCEPT ![t] = g] /\ pc' = [pc EXCEPT ![t] = "fetch"]
  BY <1>0 DEF MissCache, RetryTurn, Lead, RouteIsFree, NoOperation, TypeOK, Aboard, Leading
<1>2. \A u \in Requests : Aboard(u) => route[u] # r
  BY <1>1 DEF FlightInv, LeadersOwn, JoinersOwn, Aboard
<1>3. \A u \in Requests \ {t} : pc'[u] = pc[u] /\ gen'[u] = gen[u]
  BY <1>1 DEF TypeOK
<1>4. pc'[t] = "fetch" /\ gen'[t] = g
  BY <1>1 DEF TypeOK
<1>5. LeadersOwn' /\ OneLeader' /\ JoinersOwn'
  BY <1>1, <1>2, <1>3, <1>4 DEF FlightInv, LeadersOwn, OneLeader, JoinersOwn, Leading, Aboard, TypeOK
<1>6. \A q \in Routes : Joined(q)' = Joined(q)
  BY <1>1, <1>3, <1>4 DEF Joined, Aboard
<1>7. Joined(r) = {}
  BY <1>2 DEF Joined, Aboard
<1>8. JoinersCounted'
  BY ZenonT(60), <1>1, <1>6, <1>7, FS_EmptySet DEF FlightInv, JoinersCounted
<1>9. \A q \in Routes : Leaders(q) \subseteq Leaders(q)' /\ t \in Leaders(r)'
  BY <1>1, <1>3, <1>4 DEF Leaders, Leading, Aboard
<1>10. OperationsHaveOwners'
  BY <1>1, <1>6, <1>9 DEF FlightInv, OperationsHaveOwners
<1> QED BY <1>5, <1>8, <1>10 DEF FlightInv

\* A thread that joins a running operation is counted with it.
LEMMA JoinKeepsFlights ==
  ASSUME TypeOK, FlightInv, NEW t \in Requests, MissCache(t) \/ RetryTurn(t), Join(t)
  PROVE  FlightInv'
<1>0. PICK r \in Routes : r = route[t]
  BY DEF TypeOK
<1> DEFINE op == operations[r]
<1>1. /\ r = route[t] /\ UNCHANGED <<route, fp>> /\ op \in Operation
      /\ ~Aboard(t)
      /\ op.running /\ op.generation # 0 /\ op.fingerprint = fp[t]
      /\ operations' = [operations EXCEPT ![r] = WithWaiter(op)]
      /\ gen' = [gen EXCEPT ![t] = op.generation] /\ pc' = [pc EXCEPT ![t] = "joined"]
  BY <1>0 DEF MissCache, RetryTurn, Join, RouteIsFree, CanJoin, TypeOK, Aboard, Leading
<1>2. /\ WithWaiter(op).running /\ WithWaiter(op).generation = op.generation
      /\ WithWaiter(op).fingerprint = op.fingerprint
      /\ WithWaiter(op).waiters = op.waiters + 1 /\ op.waiters \in Nat
  BY <1>1 DEF WithWaiter, Operation
<1>3. /\ operations'[r] = WithWaiter(op)
      /\ \A q \in Routes \ {r} : operations'[q] = operations[q]
      /\ pc'[t] = "joined" /\ gen'[t] = op.generation
      /\ \A u \in Requests \ {t} : pc'[u] = pc[u] /\ gen'[u] = gen[u]
  BY <1>1 DEF TypeOK
<1>4. LeadersOwn' /\ OneLeader' /\ JoinersOwn'
  BY <1>1, <1>2, <1>3 DEF FlightInv, LeadersOwn, OneLeader, JoinersOwn, Leading, TypeOK
<1>5. /\ t \notin Joined(r) /\ Joined(r)' = Joined(r) \cup {t}
      /\ \A q \in Routes \ {r} : Joined(q)' = Joined(q)
      /\ \A q \in Routes : Leaders(q)' = Leaders(q)
  BY <1>1, <1>3 DEF Joined, Leaders, Leading, Aboard
<1>6. Cardinality(Joined(r)') = Cardinality(Joined(r)) + 1
  <2>1. t \notin Joined(r) /\ IsFiniteSet(Joined(r))
    BY <1>5, JoinedFinite
  <2>2. Cardinality(Joined(r) \cup {t}) = Cardinality(Joined(r)) + 1
    BY ONLY <2>1, FS_AddElement
  <2> QED BY ONLY <1>5, <2>2
<1>7. JoinersCounted'
  <2>1. op.waiters = Cardinality(Joined(r))
    BY <1>1 DEF FlightInv, JoinersCounted
  <2>2. operations'[r].running /\ operations'[r].waiters = Cardinality(Joined(r)')
    BY <1>1, <1>2, <1>3, <1>6, <2>1
  <2> QED BY <1>3, <1>5, <2>2 DEF FlightInv, JoinersCounted
<1>8. OperationsHaveOwners'
  BY <1>1, <1>2, <1>3, <1>5 DEF FlightInv, OperationsHaveOwners
<1> QED BY <1>4, <1>7, <1>8 DEF FlightInv

\* The result is collected, by a broadcast or at the deadline.
LEMMA CollectKeepsFlights ==
  ASSUME TypeOK, FlightInv, NEW t \in Requests, WakeJoined(t) \/ TimeOutJoined(t),
         Finished(t)
  PROVE  FlightInv'
<1>0. PICK r \in Routes : r = route[t]
  BY DEF TypeOK
<1> DEFINE op == operations[r]
           left == [op EXCEPT !.remaining = @ - 1]
<1>1. /\ r = route[t] /\ UNCHANGED <<route, fp, gen>> /\ op \in Operation
      /\ pc[t] = "joined" /\ ~op.running
      /\ operations' = [operations EXCEPT ![r] = IF op.remaining = 1 THEN NoOperation ELSE left]
      /\ pc' = [pc EXCEPT ![t] = "replying"]
  BY <1>0 DEF WakeJoined, TimeOutJoined, Collect, Finished, TypeOK, request
<1>2. /\ ~left.running /\ left.generation = op.generation
      /\ left.fingerprint = op.fingerprint
      /\ left.remaining = op.remaining - 1 /\ op.remaining \in Nat
      /\ ~NoOperation.running /\ NoOperation.generation = 0 /\ NoOperation.remaining = 0
  BY <1>1 DEF Operation, NoOperation
<1>3. /\ operations'[r] = IF op.remaining = 1 THEN NoOperation ELSE left
      /\ \A q \in Routes \ {r} : operations'[q] = operations[q]
      /\ pc'[t] = "replying"
      /\ \A u \in Requests \ {t} : pc'[u] = pc[u]
  BY <1>1 DEF TypeOK
<1>4. \A u \in Requests : pc[u] \in Leading => route[u] # r
  BY <1>1 DEF FlightInv, LeadersOwn
<1>5. /\ t \in Joined(r) /\ Joined(r)' = Joined(r) \ {t}
      /\ \A q \in Routes \ {r} : Joined(q)' = Joined(q)
      /\ \A q \in Routes : Leaders(q)' = Leaders(q)
  BY <1>1, <1>3 DEF Joined, Leaders, Leading
<1>6. op.remaining = Cardinality(Joined(r))
  BY <1>1 DEF FlightInv, JoinersCounted
<1>7. IsFiniteSet(Joined(r)') /\ Cardinality(Joined(r)') = op.remaining - 1
  <2>1. IsFiniteSet(Joined(r) \ {t}) /\ Cardinality(Joined(r) \ {t}) = Cardinality(Joined(r)) - 1
    BY <1>5, JoinedFinite, FS_RemoveElement
  <2> QED BY <1>5, <1>6, <2>1
<1>8. (op.remaining = 1) <=> (Joined(r)' = {})
  BY <1>2, <1>7, FS_EmptySet
<1>9. \A u \in Requests : pc'[u] = "joined" /\ route[u] = r => op.remaining # 1
  BY <1>1, <1>8 DEF Joined
<1>10. LeadersOwn' /\ OneLeader'
  BY <1>1, <1>3, <1>4 DEF FlightInv, LeadersOwn, OneLeader, Leading, TypeOK
<1>11. JoinersOwn'
  BY <1>1, <1>2, <1>3, <1>9 DEF FlightInv, JoinersOwn, TypeOK
<1>12. JoinersCounted'
  <2>1. ~operations'[r].running /\ operations'[r].remaining = Cardinality(Joined(r)')
    BY <1>2, <1>3, <1>7, <1>8
  <2>2. ASSUME NEW q \in Routes \ {r}
        PROVE  operations'[q] = operations[q] /\ Joined(q)' = Joined(q)
    BY <1>3, <1>5
  <2>3. JoinersCounted
    BY DEF FlightInv
  <2> HIDE DEF op
  <2> QED BY <2>1, <2>2, <2>3 DEF JoinersCounted
<1>13. OperationsHaveOwners'
  BY <1>2, <1>3, <1>5, <1>8 DEF FlightInv, OperationsHaveOwners
<1> QED BY <1>10, <1>11, <1>12, <1>13 DEF FlightInv

\* The deadline passes while the operation runs.
LEMMA GivingUpKeepsFlights ==
  ASSUME TypeOK, FlightInv, NEW t \in Requests, TimeOutJoined(t), ~Finished(t)
  PROVE  FlightInv'
<1>0. PICK r \in Routes : r = route[t]
  BY DEF TypeOK
<1> DEFINE op == operations[r]
<1>1. /\ r = route[t] /\ UNCHANGED <<route, fp, gen>> /\ op \in Operation
      /\ pc[t] = "joined"
      /\ op.generation = gen[t] /\ op.running
  BY <1>0 DEF TimeOutJoined, Finished, TypeOK, request, FlightInv, JoinersOwn
<1>2. /\ operations' = [operations EXCEPT ![r] = WithoutWaiter(op)]
      /\ pc' = [pc EXCEPT ![t] = "replying"]
  BY <1>1 DEF TimeOutJoined
<1>3. /\ WithoutWaiter(op).running /\ WithoutWaiter(op).generation = op.generation
      /\ WithoutWaiter(op).fingerprint = op.fingerprint
      /\ WithoutWaiter(op).waiters = op.waiters - 1 /\ op.waiters \in Nat
  BY <1>1 DEF WithoutWaiter, Operation
<1>4. /\ operations'[r] = WithoutWaiter(op)
      /\ \A q \in Routes \ {r} : operations'[q] = operations[q]
      /\ pc'[t] = "replying"
      /\ \A u \in Requests \ {t} : pc'[u] = pc[u]
  BY <1>1, <1>2 DEF TypeOK
<1>5. LeadersOwn' /\ OneLeader' /\ JoinersOwn'
  <2>1. \A u \in Requests :
          /\ pc'[u] \in Leading => pc[u] \in Leading
          /\ pc'[u] = "joined" => pc[u] = "joined"
    BY <1>4 DEF Leading
  <2>2. \A q \in Routes :
          /\ operations[q].running => operations'[q].running
          /\ operations'[q].generation = operations[q].generation
          /\ operations'[q].fingerprint = operations[q].fingerprint
    BY <1>1, <1>3, <1>4
  <2>3. LeadersOwn' /\ JoinersOwn'
    <3>1. \A u \in Requests :
            /\ route'[u] \in Routes /\ route'[u] = route[u]
            /\ gen'[u] = gen[u] /\ fp'[u] = fp[u]
      BY <1>1 DEF TypeOK
    <3>2. LeadersOwn'
      BY <2>1, <2>2, <3>1 DEF FlightInv, LeadersOwn
    <3>3. JoinersOwn'
      BY <2>1, <2>2, <3>1 DEF FlightInv, JoinersOwn
    <3> QED BY <3>2, <3>3
  <2>4. OneLeader'
    BY <1>1, <2>1 DEF FlightInv, OneLeader
  <2> QED BY <2>3, <2>4
<1>6. /\ t \in Joined(r) /\ Joined(r)' = Joined(r) \ {t}
      /\ \A q \in Routes \ {r} : Joined(q)' = Joined(q)
      /\ \A q \in Routes : Leaders(q)' = Leaders(q)
  BY <1>1, <1>4 DEF Joined, Leaders, Leading
<1>7. op.waiters = Cardinality(Joined(r))
  BY <1>1 DEF FlightInv, JoinersCounted
<1>8. Cardinality(Joined(r)') = op.waiters - 1
  <2>1. Cardinality(Joined(r) \ {t}) = Cardinality(Joined(r)) - 1
    BY <1>6, JoinedFinite, FS_RemoveElement
  <2> QED BY <1>6, <1>7, <2>1
<1>9. JoinersCounted'
  BY ZenonT(60), <1>3, <1>4, <1>6, <1>8 DEF FlightInv, JoinersCounted
<1>10. OperationsHaveOwners'
  BY <1>1, <1>3, <1>4, <1>6 DEF FlightInv, OperationsHaveOwners
<1> QED BY <1>5, <1>9, <1>10 DEF FlightInv

\* A leader that publishes leaves its operation to those who joined it, or to nobody.
LEMMA PublishKeepsFlights ==
  ASSUME TypeOK, FlightInv, NEW t \in Requests, Publish(t)
  PROVE  FlightInv'
<1>0. PICK r \in Routes : r = route[t]
  BY DEF TypeOK
<1> DEFINE op == operations[r]
           settled == Settled(op, Published(t))
<1>1. /\ r = route[t] /\ UNCHANGED <<route, fp, gen>> /\ op \in Operation
      /\ pc[t] \in Leading
      /\ op.running /\ op.generation = gen[t] /\ op.generation # 0
  BY <1>0 DEF Publish, TypeOK, FlightInv, LeadersOwn, Leading
<1>2. /\ operations' = [operations EXCEPT ![r] = settled]
      /\ pc' = [pc EXCEPT ![t] = "replying"]
  BY <1>1 DEF Publish, FinishOperation
<1>3. op.waiters = Cardinality(Joined(r)) /\ op.waiters \in Nat
  BY <1>1 DEF FlightInv, JoinersCounted, Operation
<1>4. /\ ~settled.running
      /\ settled.remaining = op.waiters
      /\ op.waiters # 0 =>
           settled.generation = op.generation /\ settled.fingerprint = op.fingerprint
      /\ op.waiters = 0 => settled.generation = 0
  BY <1>1 DEF Settled, Operation, NoOperation
<1>5. /\ operations'[r] = settled
      /\ \A q \in Routes \ {r} : operations'[q] = operations[q]
      /\ pc'[t] = "replying"
      /\ \A u \in Requests \ {t} : pc'[u] = pc[u]
  BY <1>1, <1>2 DEF TypeOK
<1>6. \A u \in Requests \ {t} : pc[u] \in Leading => route[u] # r
  BY <1>1 DEF FlightInv, OneLeader
<1>7. /\ \A q \in Routes : Joined(q)' = Joined(q)
      /\ \A q \in Routes \ {r} : Leaders(q)' = Leaders(q)
      /\ op.waiters = 0 <=> Joined(r) = {}
  BY <1>1, <1>3, <1>5, JoinedFinite DEF Joined, Leaders, Leading
<1>8. LeadersOwn' /\ OneLeader'
  <2>1. \A u \in Requests : pc'[u] \in Leading => pc[u] \in Leading /\ u # t
    BY <1>5 DEF Leading
  <2>2. LeadersOwn'
    BY <1>1, <1>5, <1>6, <2>1 DEF FlightInv, LeadersOwn, TypeOK
  <2>3. OneLeader'
    BY <1>1, <2>1 DEF FlightInv, OneLeader
  <2> QED BY <2>2, <2>3
<1>9. JoinersOwn'
  <2>1. ASSUME NEW u \in Requests, pc'[u] = "joined"
        PROVE  pc[u] = "joined" /\ (route[u] = r => op.waiters # 0)
    BY <1>5, <1>7, <2>1 DEF Joined
  <2>2. \A u \in Requests : pc[u] = "joined" =>
          /\ operations[route[u]].generation = gen[u] /\ gen[u] # 0
          /\ operations[route[u]].fingerprint = fp[u]
    BY DEF FlightInv, JoinersOwn
  <2>3. \A u \in Requests : route[u] \in Routes
    BY DEF TypeOK
  <2> QED BY <1>1, <1>4, <1>5, <2>1, <2>2, <2>3 DEF JoinersOwn
<1>10. JoinersCounted'
  BY <1>3, <1>4, <1>5, <1>7 DEF FlightInv, JoinersCounted
<1>11. OperationsHaveOwners'
  BY <1>4, <1>5, <1>7 DEF FlightInv, OperationsHaveOwners
<1> QED BY <1>8, <1>9, <1>10, <1>11 DEF FlightInv

\* At the start there are no operations.
LEMMA InitFlights == Init => FlightInv
<1> SUFFICES ASSUME Init PROVE FlightInv
  OBVIOUS
<1>1. \A t \in Requests : pc[t] = "away"
  BY DEF Init
<1>2. \A r \in Routes : operations[r] = NoOperation /\ Joined(r) = {}
  BY <1>1 DEF Init, Joined
<1>3. LeadersOwn /\ OneLeader /\ JoinersOwn
  BY <1>1 DEF LeadersOwn, OneLeader, JoinersOwn, Leading
<1>4. JoinersCounted /\ OperationsHaveOwners
  BY <1>2, FS_EmptySet DEF JoinersCounted, OperationsHaveOwners, NoOperation
<1> QED BY <1>3, <1>4 DEF FlightInv

----------------------------------------------------------------------------
(* Client threads, and who owns a fingerprint *)

\* A thread that looks things up under a fingerprint has one, at every step.
LEMMA HoldersKeepFingerprint ==
  ASSUME TypeOK, HoldersHaveFingerprint, [Next]_vars
  PROVE  HoldersHaveFingerprint'
<1> USE DEF HoldersHaveFingerprint, Holding, Leading, environment, tables, flights, scheduling,
            request, TypeOK
<1>1. CASE RewriteConfig \/ Expire \/ Stop \/ Drain
  BY <1>1 DEF RewriteConfig, Expire, Stop, Drain
<1>2. ASSUME NEW t \in Requests, Connect(t) \/ Accept(t) \/ Refuse(t)
      PROVE  HoldersHaveFingerprint'
  BY <1>2 DEF Connect, Accept, Refuse
<1>3. ASSUME NEW t \in Requests, Client(t)
      PROVE  HoldersHaveFingerprint'
  <2>1. CASE AnswerDirectly(t) \/ HitCache(t) \/ TimeOutQueued(t) \/ Send(t)
    BY <2>1 DEF AnswerDirectly, HitCache, TimeOutQueued, Send
  <2>2. CASE LoadConfig(t)
    BY <2>2 DEF LoadConfig, ConfigValues
  <2>3. CASE MissCache(t) \/ RetryTurn(t)
    BY <2>3 DEF MissCache, RetryTurn, TakeTurn, Lead, Join, Queue
  <2>4. CASE WakeJoined(t) \/ TimeOutJoined(t)
    BY <2>4 DEF WakeJoined, TimeOutJoined, Collect
  <2>5. CASE StartWorker(t) \/ LeaderOutOfTime(t) \/ WorkerLoadsConfig(t) \/ WorkerFails(t)
    BY <2>5 DEF StartWorker, LeaderOutOfTime, WorkerLoadsConfig, WorkerFails
  <2>6. CASE WorkerPrints(t) \/ ReloadConfig(t) \/ Publish(t)
    BY <2>6 DEF WorkerPrints, ReloadConfig, Publish
  <2> QED BY <1>3, <2>1, <2>2, <2>3, <2>4, <2>5, <2>6 DEF Client
<1>4. CASE \E t \in Requests \cup {Main} : WakeSpuriously(t)
  BY <1>4 DEF WakeSpuriously
<1>5. CASE UNCHANGED vars
  BY <1>5 DEF vars
<1> QED BY <1>1, <1>2, <1>3, <1>4, <1>5 DEF Next, Halted

Clients == {t \in Requests : pc[t] \in Active}

\* The client threads can be counted, since requests are finitely many.
LEMMA ClientsFinite ==
  IsFiniteSet(Clients) /\ Cardinality(Clients) \in Nat /\ (Cardinality(Clients) = 0 <=> Clients = {})
<1>1. Clients \in SUBSET Requests
  BY DEF Clients
<1>2. IsFiniteSet(Clients)
  BY <1>1, FS_Subset, ServeAssumption DEF ServeAssumption
<1> QED BY <1>2, FS_EmptySet, FS_CardinalityType

\* Only Accept and Send change who is a client, and both change active_clients.
LEMMA ClientsStayCounted ==
  ASSUME TypeOK, ClientsCounted, [Next]_vars
  PROVE  ClientsCounted'
<1> USE DEF environment, tables, flights, scheduling, request
<1>0. activeClients = Cardinality(Clients)
  BY DEF ClientsCounted, Clients
<1> DEFINE Same == Clients' = Clients /\ activeClients' = activeClients
<1>1. ASSUME Same, server' = server
      PROVE  ClientsCounted'
  <2>1. activeClients' = Cardinality(Clients')
    BY <1>0, <1>1
  <2>2. server' = "stopped" => \A t \in Requests : pc'[t] \notin Active
    BY <1>1 DEF ClientsCounted, Clients
  <2> QED BY <1>1, <2>1, <2>2 DEF ClientsCounted, Clients
<1>2. CASE RewriteConfig \/ Expire
  BY <1>1, <1>2 DEF RewriteConfig, Expire, Clients
<1>3. CASE Stop
  <2>1. Clients' = Clients /\ server' = "draining" /\ UNCHANGED activeClients
    BY <1>3 DEF Stop, Clients, Active, Leading, TypeOK
  <2> QED BY <1>0, <2>1 DEF ClientsCounted, Clients
<1>4. CASE Drain
  <2>1. UNCHANGED <<pc, activeClients>>
    BY <1>4 DEF Drain
  <2>2. CASE activeClients > 0
    BY <1>1, <1>4, <2>1, <2>2 DEF Drain, Clients
  <2>3. CASE ~(activeClients > 0)
    <3>1. Cardinality(Clients) = 0
      BY <1>0, <2>3, ClientsFinite
    <3>2. Clients = {}
      BY <3>1, ClientsFinite
    <3> QED BY <2>1, <3>2 DEF ClientsCounted, Clients
  <2> QED BY <2>2, <2>3
<1>5. ASSUME NEW t \in Requests, Accept(t)
      PROVE  ClientsCounted'
  <2>1. /\ t \notin Clients /\ Clients' = Clients \cup {t}
        /\ activeClients' = activeClients + 1 /\ activeClients < MaxClients
        /\ server' = "serving"
    BY <1>5, ServeAssumption DEF Accept, AtLimit, Clients, Active, Leading, TypeOK, ServeAssumption
  <2>2. Cardinality(Clients \cup {t}) = Cardinality(Clients) + 1
    BY <2>1, ClientsFinite, FS_AddElement
  <2>3. activeClients' = Cardinality(Clients')
    BY <1>0, <2>1, <2>2
  <2>4. activeClients' <= MaxClients
    BY <2>1, ServeAssumption DEF ServeAssumption, TypeOK
  <2> QED BY <2>1, <2>3, <2>4 DEF ClientsCounted, Clients
<1>6. ASSUME NEW t \in Requests, Send(t)
      PROVE  ClientsCounted'
  <2>1. /\ t \in Clients /\ Clients' = Clients \ {t}
        /\ activeClients' = activeClients - 1
        /\ server' = server
    BY <1>6 DEF Send, Clients, Active, Leading, TypeOK
  <2>2. Cardinality(Clients \ {t}) = Cardinality(Clients) - 1
    BY <2>1, ClientsFinite, FS_RemoveElement
  <2>3. activeClients' = Cardinality(Clients')
    BY <1>0, <2>1, <2>2
  <2>4. activeClients' <= MaxClients
    BY <2>1, ServeAssumption DEF ServeAssumption, TypeOK, ClientsCounted
  <2>5. server' = "stopped" => \A u \in Requests : pc'[u] \notin Active
    BY <2>1 DEF ClientsCounted, Clients
  <2> QED BY <2>3, <2>4, <2>5 DEF ClientsCounted, Clients
<1>7. ASSUME NEW t \in Requests, Connect(t) \/ Refuse(t) \/ AnswerDirectly(t) \/ LoadConfig(t)
                                 \/ HitCache(t) \/ TimeOutQueued(t)
      PROVE  ClientsCounted'
  BY <1>1, <1>7 DEF Connect, Refuse, AnswerDirectly, LoadConfig, HitCache, TimeOutQueued, Clients,
                    Active, Leading, TypeOK
<1>8. ASSUME NEW t \in Requests, MissCache(t) \/ RetryTurn(t) \/ WakeJoined(t) \/ TimeOutJoined(t)
      PROVE  ClientsCounted'
  BY <1>1, <1>8 DEF MissCache, RetryTurn, TakeTurn, Lead, Join, Queue, WakeJoined, TimeOutJoined,
                    Collect, Clients, Active, Leading, TypeOK
<1>9. ASSUME NEW t \in Requests, StartWorker(t) \/ LeaderOutOfTime(t) \/ WorkerLoadsConfig(t)
               \/ WorkerFails(t) \/ WorkerPrints(t) \/ ReloadConfig(t) \/ Publish(t)
      PROVE  ClientsCounted'
  BY <1>1, <1>9 DEF StartWorker, LeaderOutOfTime, WorkerLoadsConfig, WorkerFails, WorkerPrints,
                    ReloadConfig, Publish, Clients, Active, Leading, TypeOK
<1>10. CASE \E t \in Requests \cup {Main} : WakeSpuriously(t)
  BY <1>1, <1>10 DEF WakeSpuriously, Clients
<1>11. CASE UNCHANGED vars
  BY <1>1, <1>11 DEF vars, Clients
<1> QED BY <1>2, <1>3, <1>4, <1>5, <1>6, <1>7, <1>8, <1>9, <1>10, <1>11 DEF Next, Client, Halted

----------------------------------------------------------------------------
(* Whose configuration a response answers.  The tables must be known to hold  *)
(* under each fingerprint only responses fetched for it, an operation in the  *)
(* table only a response for its own fingerprint, and a thread must carry no  *)
(* response before it has loaded its configuration.                           *)

ForConfig(response, f) == response.gen # 0 => response.fp = f

ResponsesMatch ==
  /\ \A r \in Routes, f \in Fingerprints :
       ForConfig(cache[r][f].response, f) /\ ForConfig(lastGoodDashboard[r][f].response, f)
  /\ \A r \in Routes : ForConfig(operations[r].response, operations[r].fingerprint)
  /\ \A t \in Requests : ForConfig(reply[t], fp[t])
  /\ \A t \in Requests : pc[t] \in {"away", "backlog", "reading"} => reply[t].gen = 0

\* Empty and plain responses belong to no operation, so they match every configuration.
LEMMA NullsMatch ==
  ASSUME NEW f, NEW status
  PROVE  /\ ForConfig(NoResponse, f) /\ NoResponse.gen = 0
         /\ ForConfig(Plain(status), f) /\ Plain(status).gen = 0
         /\ ForConfig(NoEntry.response, f)
         /\ ForConfig(NoOperation.response, f)
BY DEF ForConfig, NoResponse, Plain, NoEntry, NoOperation

\* At the start all tables are empty, so everything matches.
LEMMA InitMatches == Init => ResponsesMatch
<1> SUFFICES ASSUME Init PROVE ResponsesMatch
  OBVIOUS
<1>1. \A r \in Routes, f \in Fingerprints :
        ForConfig(cache[r][f].response, f) /\ ForConfig(lastGoodDashboard[r][f].response, f)
  BY NullsMatch DEF Init
<1>2. \A r \in Routes : ForConfig(operations[r].response, operations[r].fingerprint)
  BY NullsMatch DEF Init
<1>3. \A t \in Requests : ForConfig(reply[t], fp[t]) /\ reply[t].gen = 0
  BY NullsMatch DEF Init
<1> QED BY <1>1, <1>2, <1>3 DEF ResponsesMatch

\* The response a leader publishes was fetched for the leader's own configuration.
LEMMA PublishedMatches ==
  ASSUME TypeOK, ResponsesMatch, NEW t \in Requests, fp[t] \in Fingerprints
  PROVE  ForConfig(Published(t), fp[t])
<1>1. route[t] \in Routes /\ reply[t] \in Response
  BY DEF TypeOK
<1>2. ForConfig(lastGoodDashboard[route[t]][fp[t]].response, fp[t]) /\ ForConfig(reply[t], fp[t])
  BY <1>1 DEF ResponsesMatch
<1>3. \A rows : [reply[t] EXCEPT !.rows = rows].gen = reply[t].gen
                /\ [reply[t] EXCEPT !.rows = rows].fp = reply[t].fp
  BY <1>1 DEF Response
<1> QED BY <1>2, <1>3 DEF Published, ForConfig

\* Edits, expiry, shutdown and wakeups touch no response.
LEMMA EnvironmentKeepsMatch ==
  ASSUME TypeOK, ResponsesMatch,
         RewriteConfig \/ Expire \/ Stop \/ Drain
         \/ (\E t \in Requests \cup {Main} : WakeSpuriously(t)) \/ UNCHANGED vars
  PROVE  ResponsesMatch'
<1> USE DEF environment, tables, flights, scheduling, request
<1>1. CASE RewriteConfig \/ Drain \/ (\E t \in Requests \cup {Main} : WakeSpuriously(t))
           \/ UNCHANGED vars
  BY <1>1 DEF RewriteConfig, Drain, WakeSpuriously, vars, ResponsesMatch
<1>2. CASE Stop
  BY <1>2 DEF Stop, ResponsesMatch, TypeOK
<1>3. CASE Expire
  <2>1. UNCHANGED <<operations, reply, fp, pc>>
    BY <1>3 DEF Expire
  <2>2. \A e \in CacheEntry : Expired(e).response = e.response
    BY DEF Expired, CacheEntry
  <2>3. \A r \in Routes, f \in Fingerprints :
          cache'[r][f].response = cache[r][f].response
          /\ lastGoodDashboard'[r][f].response = lastGoodDashboard[r][f].response
    <3>1. \A r \in Routes, f \in Fingerprints :
            cache[r][f] \in CacheEntry /\ lastGoodDashboard[r][f] \in CacheEntry
      BY DEF TypeOK
    <3>2. CASE \E r \in Routes, f \in Fingerprints :
                 cache' = [cache EXCEPT ![r][f] = Expired(@)] /\ UNCHANGED lastGoodDashboard
      BY <2>2, <3>1, <3>2 DEF TypeOK
    <3>3. CASE \E r \in Routes, f \in Fingerprints :
                 lastGoodDashboard' = [lastGoodDashboard EXCEPT ![r][f] = Expired(@)]
                 /\ UNCHANGED cache
      BY <2>2, <3>1, <3>3 DEF TypeOK
    <3>4. CASE UNCHANGED <<cache, lastGoodDashboard>>
      BY <3>4
    <3> QED BY <1>3, <3>2, <3>3, <3>4 DEF Expire
  <2> QED BY <2>1, <2>3 DEF ResponsesMatch
<1> QED BY <1>1, <1>2, <1>3

\* Giving one thread a response of its own configuration keeps all responses matched.
LEMMA ReplyKeepsMatch ==
  ASSUME TypeOK, ResponsesMatch, NEW t \in Requests, NEW response,
         reply' = [reply EXCEPT ![t] = response], ForConfig(response, fp[t]),
         pc'[t] \notin {"away", "backlog", "reading"},
         \A u \in Requests \ {t} : pc'[u] = pc[u],
         UNCHANGED <<cache, lastGoodDashboard, operations, fp>>
  PROVE  ResponsesMatch'
BY DEF ResponsesMatch, TypeOK

\* Every step of a connection or client thread keeps responses matched to configurations.
LEMMA ClientKeepsMatch ==
  ASSUME TypeOK, HoldersHaveFingerprint, FlightInv, ResponsesMatch,
         NEW t \in Requests, Connect(t) \/ Accept(t) \/ Refuse(t) \/ Client(t)
  PROVE  ResponsesMatch'
<1> USE DEF environment, tables, flights, scheduling, request
<1>0. /\ route[t] \in Routes /\ operations[route[t]] \in Operation
      /\ pc[t] \in Holding => fp[t] \in Fingerprints
  BY DEF TypeOK, HoldersHaveFingerprint
<1>1. CASE Connect(t) \/ Accept(t) \/ Refuse(t)
  BY <1>1 DEF Connect, Accept, Refuse, ResponsesMatch, TypeOK
<1>2. CASE AnswerDirectly(t)
  <2>1. PICK status \in {200, 400} : reply' = [reply EXCEPT ![t] = Plain(status)]
    BY <1>2 DEF AnswerDirectly
  <2>2. ForConfig(Plain(status), fp[t])
    BY NullsMatch
  <2>3. /\ pc' = [pc EXCEPT ![t] = "replying"]
        /\ UNCHANGED <<cache, lastGoodDashboard, operations, fp>>
    BY <1>2 DEF AnswerDirectly
  <2>4. pc'[t] = "replying" /\ \A u \in Requests \ {t} : pc'[u] = pc[u]
    BY <2>3 DEF TypeOK
  <2> QED BY <2>1, <2>2, <2>3, <2>4, ReplyKeepsMatch
<1>3. CASE LoadConfig(t)
  <2>1. CASE config = NoConfig
    <3>1. /\ reply' = [reply EXCEPT ![t] = Plain(500)]
          /\ pc' = [pc EXCEPT ![t] = "replying"]
          /\ UNCHANGED <<cache, lastGoodDashboard, operations, fp>>
      BY <1>3, <2>1 DEF LoadConfig
    <3>2. ForConfig(Plain(500), fp[t])
      BY NullsMatch
    <3> QED BY <3>1, <3>2, ReplyKeepsMatch DEF TypeOK
  <2>2. CASE config # NoConfig
    <3>1. ForConfig(reply[t], config)
      BY <1>3 DEF LoadConfig, ResponsesMatch, ForConfig
    <3> QED BY <1>3, <2>2, <3>1 DEF LoadConfig, ResponsesMatch, TypeOK
  <2> QED BY <2>1, <2>2
<1>4. CASE HitCache(t)
  <2>1. ForConfig(cache[route[t]][fp[t]].response, fp[t])
    BY <1>0, <1>4 DEF HitCache, Holding, ResponsesMatch
  <2> QED BY <1>4, <2>1, ReplyKeepsMatch DEF HitCache, TypeOK
<1>5. CASE MissCache(t) \/ RetryTurn(t)
  <2>1. UNCHANGED <<lastGoodDashboard, reply, fp>>
    BY <1>5 DEF MissCache, RetryTurn
  <2>2. \A r \in Routes, f \in Fingerprints : ForConfig(cache'[r][f].response, f)
    <3>1. CASE UNCHANGED cache
      BY <3>1 DEF ResponsesMatch
    <3>2. CASE cache' = [cache EXCEPT ![route[t]][fp[t]] = NoEntry]
      BY <3>2, NullsMatch DEF ResponsesMatch, TypeOK
    <3> QED BY <1>5, <3>1, <3>2 DEF MissCache, RetryTurn
  <2>3. \A r \in Routes : ForConfig(operations'[r].response, operations'[r].fingerprint)
    <3>1. CASE Lead(t)
      <4> DEFINE op == [NoOperation EXCEPT !.fingerprint = fp[t],
                          !.generation = nextGeneration + 1, !.running = TRUE]
      <4>1. ForConfig(op.response, op.fingerprint)
        BY NullsMatch DEF NoOperation
      <4>2. operations' = [operations EXCEPT ![route[t]] = op]
        BY <3>1 DEF Lead
      <4> QED BY <1>0, <4>1, <4>2 DEF ResponsesMatch, TypeOK
    <3>2. CASE Join(t)
      <4>1. /\ WithWaiter(operations[route[t]]).response = operations[route[t]].response
            /\ WithWaiter(operations[route[t]]).fingerprint = operations[route[t]].fingerprint
        BY <1>0 DEF WithWaiter, Operation
      <4> QED BY <1>0, <3>2, <4>1 DEF Join, ResponsesMatch, TypeOK
    <3>3. CASE Queue(t)
      BY <3>3 DEF Queue, ResponsesMatch
    <3> QED BY <1>5, <3>1, <3>2, <3>3 DEF MissCache, RetryTurn, TakeTurn
  <2>4. \A u \in Requests : pc'[u] \in {"away", "backlog", "reading"} => pc'[u] = pc[u]
    BY <1>5 DEF MissCache, RetryTurn, TakeTurn, Lead, Join, Queue, TypeOK
  <2> QED BY <2>1, <2>2, <2>3, <2>4 DEF ResponsesMatch
<1>6. CASE TimeOutQueued(t)
  BY ZenonT(60), <1>6, NullsMatch, ReplyKeepsMatch DEF TimeOutQueued, TypeOK
<1>7. CASE WakeJoined(t) \/ TimeOutJoined(t)
  <2> DEFINE op == operations[route[t]]
  <2>1. op.fingerprint = fp[t] /\ pc[t] = "joined"
    BY <1>7 DEF WakeJoined, TimeOutJoined, FlightInv, JoinersOwn
  <2>2. /\ UNCHANGED <<cache, lastGoodDashboard, fp>>
        /\ \A u \in Requests \ {t} : pc'[u] = pc[u]
        /\ pc'[t] \notin {"away", "backlog", "reading"}
    BY <1>7, <2>1 DEF WakeJoined, TimeOutJoined, Collect, TypeOK
  <2>3. \A u \in Requests : ForConfig(reply'[u], fp[u])
    <3>1. ForConfig(op.response, fp[t])
      BY <1>0, <2>1 DEF ResponsesMatch
    <3> QED BY <1>7, <3>1, NullsMatch DEF WakeJoined, TimeOutJoined, Collect, ResponsesMatch, TypeOK
  <2>4. \A u \in Requests \ {t} : reply'[u] = reply[u]
    BY <1>7 DEF WakeJoined, TimeOutJoined, Collect, TypeOK
  <2>5. \A r \in Routes : ForConfig(operations'[r].response, operations'[r].fingerprint)
    <3> DEFINE less == [op EXCEPT !.remaining = @ - 1]
    <3>1. /\ less.response = op.response /\ less.fingerprint = op.fingerprint
          /\ WithoutWaiter(op).response = op.response
          /\ WithoutWaiter(op).fingerprint = op.fingerprint
      BY <1>0 DEF WithoutWaiter, Operation
    <3>2. \E new \in {op, less, WithoutWaiter(op), NoOperation} :
            operations' = [operations EXCEPT ![route[t]] = new]
      BY <1>7, <1>0 DEF WakeJoined, TimeOutJoined, Collect, TypeOK
    <3>3. ForConfig(op.response, op.fingerprint)
      BY <1>0 DEF ResponsesMatch
    <3> QED BY <1>0, <3>1, <3>2, <3>3, NullsMatch DEF ResponsesMatch, TypeOK
  <2> QED BY <2>2, <2>3, <2>4, <2>5 DEF ResponsesMatch
<1>8. CASE StartWorker(t) \/ WorkerLoadsConfig(t) \/ ReloadConfig(t)
  BY <1>8 DEF StartWorker, WorkerLoadsConfig, ReloadConfig, ResponsesMatch, TypeOK
<1>9. ASSUME NEW status PROVE ForConfig(Failed(t, status), fp[t])
  BY DEF Failed, ForConfig, Plain, NoResponse
<1>10. CASE LeaderOutOfTime(t) \/ WorkerFails(t)
  <2>1. PICK status \in {500, 504} : reply' = [reply EXCEPT ![t] = Failed(t, status)]
    BY <1>10 DEF LeaderOutOfTime, WorkerFails
  <2>2. /\ UNCHANGED <<cache, lastGoodDashboard, operations, fp>>
        /\ pc' = [pc EXCEPT ![t] = "verify"]
    BY <1>10 DEF LeaderOutOfTime, WorkerFails
  <2>3. pc'[t] = "verify" /\ \A u \in Requests \ {t} : pc'[u] = pc[u]
    BY <2>2 DEF TypeOK
  <2> QED BY <1>9, <2>1, <2>2, <2>3, ReplyKeepsMatch
<1>11. CASE WorkerPrints(t)
  <2>1. PICK rows \in [Accounts -> {"absent", "good", "error"}], bare \in BOOLEAN :
          reply' = [reply EXCEPT ![t] = Printed(t, rows, bare)]
    BY <1>11 DEF WorkerPrints
  <2>2. ForConfig(Printed(t, rows, bare), fp[t])
    BY DEF Printed, ForConfig
  <2>3. /\ UNCHANGED <<cache, lastGoodDashboard, operations, fp>>
        /\ \E p \in {"fetch", "verify"} : pc' = [pc EXCEPT ![t] = p]
    BY <1>11 DEF WorkerPrints
  <2> QED BY <2>1, <2>2, <2>3, ReplyKeepsMatch DEF TypeOK
<1>12. CASE Publish(t)
  <2>1. fp[t] \in Fingerprints /\ operations[route[t]].fingerprint = fp[t]
    BY <1>0, <1>12 DEF Publish, Holding, Leading, FlightInv, LeadersOwn
  <2>2. ForConfig(Published(t), fp[t]) /\ ForConfig(reply[t], fp[t])
    BY <2>1, PublishedMatches DEF ResponsesMatch
  <2>3. \A r \in Routes, f \in Fingerprints : ForConfig(cache'[r][f].response, f)
    BY <1>12, <2>2 DEF Publish, UpdateTables, ResponsesMatch, TypeOK
  <2>4. \A r \in Routes, f \in Fingerprints : ForConfig(lastGoodDashboard'[r][f].response, f)
    <3>1. \A e : ForConfig(e.response, fp[t]) =>
            ForConfig(KeptDashboard(e, reply[t]).response, fp[t])
      BY <2>2, NullsMatch DEF KeptDashboard
    <3> QED BY <1>12, <3>1 DEF Publish, UpdateTables, ResponsesMatch, TypeOK
  <2>5. \A r \in Routes : ForConfig(operations'[r].response, operations'[r].fingerprint)
    <3> DEFINE settled == Settled(operations[route[t]], Published(t))
    <3>1. ForConfig(settled.response, settled.fingerprint)
      BY <1>0, <2>1, <2>2, NullsMatch DEF Settled, Operation
    <3>2. operations' = [operations EXCEPT ![route[t]] = settled] \/ UNCHANGED operations
      BY <1>12 DEF Publish, FinishOperation
    <3> QED BY <3>1, <3>2 DEF ResponsesMatch, TypeOK
  <2>6. /\ reply' = [reply EXCEPT ![t] = Published(t)] /\ UNCHANGED fp
        /\ pc' = [pc EXCEPT ![t] = "replying"]
    BY <1>12 DEF Publish
  <2>7. \A u \in Requests : ForConfig(reply'[u], fp[u])
    BY <2>2, <2>6 DEF ResponsesMatch, TypeOK
  <2>8. \A u \in Requests : pc'[u] \in {"away", "backlog", "reading"} =>
          reply'[u] = reply[u] /\ pc'[u] = pc[u]
    BY <2>6 DEF TypeOK
  <2> QED BY <2>3, <2>4, <2>5, <2>6, <2>7, <2>8 DEF ResponsesMatch
<1>13. CASE Send(t)
  <2>1. /\ reply' = [reply EXCEPT ![t] = NoResponse] /\ fp' = [fp EXCEPT ![t] = NoConfig]
        /\ pc' = [pc EXCEPT ![t] = "answered"]
        /\ UNCHANGED <<cache, lastGoodDashboard, operations>>
    BY <1>13 DEF Send
  <2> QED BY <2>1, NullsMatch DEF ResponsesMatch, TypeOK
<1> QED BY <1>1, <1>2, <1>3, <1>4, <1>5, <1>6, <1>7, <1>8, <1>10, <1>11, <1>12, <1>13 DEF Client

----------------------------------------------------------------------------
(* The inductive invariant and what follows from it *)

Inv ==
  /\ TypeOK
  /\ HoldersHaveFingerprint
  /\ FlightInv
  /\ ClientsCounted
  /\ ResponsesMatch

\* The server starts in the invariant.
LEMMA InitInv == Init => Inv
<1> SUFFICES ASSUME Init PROVE Inv
  OBVIOUS
<1>1. HoldersHaveFingerprint
  BY DEF Init, HoldersHaveFingerprint, Holding, Leading
<1>2. ClientsCounted
  <2>1. {t \in Requests : pc[t] \in Active} = {}
    BY DEF Init, Active, Leading
  <2>2. activeClients = Cardinality({t \in Requests : pc[t] \in Active})
    BY <2>1, FS_EmptySet DEF Init
  <2>3. activeClients <= MaxClients /\ server = "serving"
    BY ServeAssumption DEF Init, ServeAssumption
  <2> QED BY <2>2, <2>3 DEF ClientsCounted
<1> QED BY <1>1, <1>2, InitTypeOK, InitFlights, InitMatches DEF Inv

\* Every step keeps the types.
LEMMA NextKeepsTypes ==
  ASSUME Inv, [Next]_vars
  PROVE  TypeOK'
<1> USE DEF Inv
<1>1. ASSUME NEW t \in Requests, Client(t)
      PROVE  TypeOK'
  <2>1. CASE Send(t)
    <3>1. t \in Clients
      BY <2>1 DEF Send, Clients, Active
    <3>2. activeClients # 0
      BY <3>1, ClientsFinite DEF ClientsCounted, Clients
    <3> QED BY <2>1, <3>2, SendKeepsTypes
  <2> QED BY <1>1, <2>1, ConnectionKeepsTypes, TurnKeepsTypes, JoinedKeepsTypes, FetchKeepsTypes,
             PublishKeepsTypes DEF Client, FlightInv
<1>2. CASE UNCHANGED vars
  BY <1>2 DEF vars, environment, tables, flights, scheduling, request, TypeOK
<1> QED BY <1>1, <1>2, EnvironmentKeepsTypes, ConnectionKeepsTypes DEF Next, Halted

\* Every step keeps the single flight.
LEMMA NextKeepsFlights ==
  ASSUME Inv, [Next]_vars
  PROVE  FlightInv'
<1> USE DEF Inv
<1>1. ASSUME NEW t \in Requests, MissCache(t) \/ RetryTurn(t)
      PROVE  FlightInv'
  <2>1. CASE Queue(t)
    <3>1. QuietStep
      BY <1>1, <2>1 DEF MissCache, RetryTurn, Queue, QuietStep, Aboard, Leading, TypeOK, flights
    <3> QED BY <3>1, QuietStepKeepsFlights
  <2> QED BY <1>1, <2>1, LeadKeepsFlights, JoinKeepsFlights DEF MissCache, RetryTurn, TakeTurn
<1>2. ASSUME NEW t \in Requests, WakeJoined(t) \/ TimeOutJoined(t)
      PROVE  FlightInv'
  <2>1. CASE WakeJoined(t) /\ ~Finished(t)
    <3>1. QuietStep
      BY <2>1 DEF WakeJoined, QuietStep
    <3> QED BY <3>1, QuietStepKeepsFlights
  <2> QED BY <1>2, <2>1, CollectKeepsFlights, GivingUpKeepsFlights
<1> QED BY <1>1, <1>2, MostStepsAreQuiet, QuietStepKeepsFlights, PublishKeepsFlights
        DEF Next, Client, Halted

\* The invariant is inductive.
LEMMA InvInductive == Inv /\ [Next]_vars => Inv'
<1> SUFFICES ASSUME Inv, [Next]_vars PROVE Inv'
  OBVIOUS
<1>1. ResponsesMatch'
  <2>1. CASE \E t \in Requests : Connect(t) \/ Accept(t) \/ Refuse(t) \/ Client(t)
    BY <2>1, ClientKeepsMatch DEF Inv
  <2> QED BY <2>1, EnvironmentKeepsMatch DEF Inv, Next, Halted
<1> QED BY <1>1, NextKeepsTypes, NextKeepsFlights, HoldersKeepFingerprint, ClientsStayCounted DEF Inv

\* The invariant holds in every reachable state.
LEMMA Invariance == Spec => []Inv
BY InitInv, InvInductive, PTL DEF Spec

\* Every variable keeps its type; in particular no counter of the ServeState
\* (waiters, remaining_waiters, active_clients) ever goes below zero.
THEOREM TypeCorrect == Spec => []TypeOK
BY Invariance, PTL DEF Inv

\* Single flight, for any number of clients, routes and configuration edits: a
\* route never runs two fetches at once (route_response's operation loop).
THEOREM SingleFlight == Spec => []OneFetchPerRoute
<1>1. Inv => OneFetchPerRoute
  BY DEF Inv, FlightInv, OneLeader, LeadersOwn, OneFetchPerRoute
<1> QED BY <1>1, Invariance, PTL

\* The operation table never keeps an operation nobody will finish or collect.
THEOREM NoAbandonedOperation == Spec => []OperationsHaveOwners
<1>1. Inv => OperationsHaveOwners
  BY DEF Inv, FlightInv
<1> QED BY <1>1, Invariance, PTL

\* waiters and remaining_waiters count exactly the threads that still wait,
\* whichever of them time out, and each finds the operation it joined.
THEOREM WaitersAreCounted == Spec => []WaitersCounted
<1>1. Inv => WaitersCounted
  BY DEF Inv, FlightInv, JoinersOwn, JoinersCounted, WaitersCounted
<1> QED BY <1>1, Invariance, PTL

\* active_clients is the number of client threads: at most MAX_ACTIVE_CLIENTS run,
\* and the shared state is freed only when none is left.
THEOREM ClientLimit == Spec => []ClientsCounted
BY Invariance, PTL DEF Inv

\* However a thread comes by its response (cache, own fetch, joined operation or
\* last-good dashboard), it was fetched for the configuration that thread loaded.
THEOREM OwnConfiguration == Spec => []AnsweredForOwnConfig
<1>1. Inv => AnsweredForOwnConfig
  BY DEF Inv, ResponsesMatch, ForConfig, AnsweredForOwnConfig
<1> QED BY <1>1, Invariance, PTL

----------------------------------------------------------------------------
(* What is kept for later requests.  A leader publishes under the fingerprint *)
(* it loaded at the start, and looks at the file again before it does.  That  *)
(* the file is the same at both ends says what was read in between only if    *)
(* the file did not change and change back: NoReturn.  What the tables hold   *)
(* is older than any running fetch of the route, and a response that has just *)
(* been printed tells of this fetch and of no other.                          *)

\* No edit returns to the version under which a fetch is running.
NoReturn == config' # config => \A t \in Requests : pc[t] \in Leading => fp[t] # config'

Unled == {"away", "backlog", "reading", "lookup", "joined", "queued"}
Through == {"refused", "answered", "replying"}

\* A response and its rows were read under none but these versions.
ReadUnder(response, versions) ==
  /\ response.seen \subseteq versions
  /\ \A a \in Accounts : response.rows[a].seen \subseteq versions

GoodRowsAre(response, g) ==
  \A a \in Accounts : response.rows[a].kind = "good" => response.rows[a].gen = g

\* What a thread's fetch has read, and what the workers' answer tells of it.
FetchIsKnown(t) ==
  /\ pc[t] \in Unled => work[t].seen = {}
  /\ pc[t] \in {"fetch", "working", "verify"} /\ config = fp[t] => work[t].seen \subseteq {fp[t]}
  /\ pc[t] = "publish" /\ work[t].unchanged => work[t].seen \subseteq {fp[t]}
  /\ pc[t] \in {"verify", "publish"} => ReadUnder(reply[t], work[t].seen)

ReplyIsFresh(t) ==
  pc[t] \in {"verify", "publish"} => reply[t].gen = gen[t] /\ GoodRowsAre(reply[t], gen[t])

KeptUnder(r, f) ==
  /\ ReadUnder(cache[r][f].response, {f})
  /\ ReadUnder(lastGoodDashboard[r][f].response, {f})
  /\ \A a \in Accounts : lastGoodRows[r][f][a].row.seen \subseteq {f}

Older(r, g) ==
  \A f \in Fingerprints :
    /\ cache[r][f].response.gen <= g
    /\ \A a \in Accounts : lastGoodRows[r][f][a].row.gen <= g

TablesAreOlder ==
  /\ \A r \in Routes : Older(r, nextGeneration)
  /\ \A t \in Requests : pc[t] \in Leading => gen[t] <= nextGeneration /\ Older(route[t], gen[t])

FetchesAreKnown  == \A t \in Requests : FetchIsKnown(t)
RepliesAreFresh  == \A t \in Requests : ReplyIsFresh(t)
TablesKeptUnder  == \A r \in Routes, f \in Fingerprints : KeptUnder(r, f)

\* A thread's step is its own: the others keep their place and their locals.
LEMMA OthersStay ==
  ASSUME TypeOK, NEW t \in Requests, Connect(t) \/ Accept(t) \/ Refuse(t) \/ Client(t),
         NEW u \in Requests \ {t}
  PROVE  /\ config' = config
         /\ pc'[u] = pc[u] /\ route'[u] = route[u] /\ fp'[u] = fp[u] /\ gen'[u] = gen[u]
         /\ work'[u] = work[u] /\ reply'[u] = reply[u]
<1> USE DEF TypeOK, environment, tables, flights, scheduling, request
<1>1. CASE Connect(t) \/ Accept(t) \/ Refuse(t) \/ AnswerDirectly(t) \/ LoadConfig(t) \/ HitCache(t)
  BY <1>1 DEF Connect, Accept, Refuse, AnswerDirectly, LoadConfig, HitCache
<1>2. CASE MissCache(t) \/ RetryTurn(t)
  BY <1>2 DEF MissCache, RetryTurn, TakeTurn, Lead, Join, Queue
<1>3. CASE TimeOutQueued(t) \/ WakeJoined(t) \/ TimeOutJoined(t)
  BY <1>3 DEF TimeOutQueued, WakeJoined, TimeOutJoined, Collect
<1>4. CASE StartWorker(t) \/ LeaderOutOfTime(t) \/ WorkerLoadsConfig(t) \/ WorkerFails(t)
           \/ WorkerPrints(t) \/ ReloadConfig(t)
  BY <1>4 DEF StartWorker, LeaderOutOfTime, WorkerLoadsConfig, WorkerFails, WorkerPrints, ReloadConfig
<1>5. CASE Publish(t) \/ Send(t)
  BY <1>5 DEF Publish, Send
<1> QED BY <1>1, <1>2, <1>3, <1>4, <1>5 DEF Client

\* The steps of a thread that does not fetch leave it without a fetch, or at
\* the start of one.
LEMMA TurnsAreUnled ==
  ASSUME TypeOK, NEW t \in Requests,
         Connect(t) \/ Accept(t) \/ Refuse(t) \/ AnswerDirectly(t) \/ LoadConfig(t)
         \/ HitCache(t) \/ MissCache(t) \/ RetryTurn(t) \/ TimeOutQueued(t)
         \/ WakeJoined(t) \/ TimeOutJoined(t)
  PROVE  \/ pc'[t] \in Through
         \/ pc[t] \in Unled /\ pc'[t] \in Unled \cup {"fetch"} /\ work'[t].seen = work[t].seen
<1> USE DEF TypeOK, environment, tables, flights, scheduling, request, Unled, Through
<1>1. CASE Connect(t) \/ Accept(t) \/ Refuse(t) \/ AnswerDirectly(t) \/ LoadConfig(t)
           \/ HitCache(t) \/ TimeOutQueued(t)
  BY <1>1 DEF Connect, Accept, Refuse, AnswerDirectly, LoadConfig, HitCache, TimeOutQueued
<1>2. CASE MissCache(t) \/ RetryTurn(t)
  <2>1. pc[t] \in Unled /\ TakeTurn(t)
    BY <1>2 DEF MissCache, RetryTurn
  <2>2. pc'[t] \in Unled \cup {"fetch"}
    BY <2>1 DEF TakeTurn, Lead, Join, Queue
  <2>3. work' = work \/ work' = [work EXCEPT ![t].waited = TRUE]
    BY <2>1 DEF TakeTurn, Lead, Join, Queue
  <2>4. work'[t].seen = work[t].seen
    BY <2>3 DEF Work
  <2> QED BY <2>1, <2>2, <2>4
<1>3. CASE WakeJoined(t) \/ TimeOutJoined(t)
  BY <1>3 DEF WakeJoined, TimeOutJoined, Collect
<1> QED BY <1>1, <1>2, <1>3

\* The answer of a fetch that failed has no rows, and names no version.
LEMMA FailedFacts ==
  ASSUME NEW t \in Requests, NEW status, NEW versions
  PROVE  /\ ReadUnder(Failed(t, status), versions)
         /\ Failed(t, status).gen = gen[t] /\ GoodRowsAre(Failed(t, status), gen[t])
BY DEF Failed, Plain, NoResponse, Absent, ReadUnder, GoodRowsAre

\* What a worker prints is of this fetch, and of the versions it has read.
LEMMA PrintedFacts ==
  ASSUME NEW t \in Requests, NEW rows \in [Accounts -> {"absent", "good", "error"}], NEW bare
  PROVE  /\ ReadUnder(Printed(t, rows, bare), work[t].seen)
         /\ Printed(t, rows, bare).gen = gen[t] /\ GoodRowsAre(Printed(t, rows, bare), gen[t])
<1> DEFINE Row_(a) == IF rows[a] = "good"
                      THEN [kind |-> "good", gen |-> gen[t], seen |-> work[t].seen]
                      ELSE [Absent EXCEPT !.kind = rows[a]]
<1>1. ASSUME NEW a \in Accounts
      PROVE  /\ Row_(a).seen \subseteq work[t].seen
             /\ Row_(a).kind = "good" => Row_(a).gen = gen[t]
  BY DEF Absent
<1> HIDE DEF Row_
<1>2. Printed(t, rows, bare) =
        [status |-> 200, gen |-> gen[t], fp |-> fp[t], seen |-> work[t].seen, bare |-> bare,
         rows |-> [a \in Accounts |-> Row_(a)]]
  BY DEF Printed, Row_
<1>3. /\ Printed(t, rows, bare).gen = gen[t] /\ Printed(t, rows, bare).seen = work[t].seen
      /\ \A a \in Accounts : Printed(t, rows, bare).rows[a] = Row_(a)
  BY <1>2
<1> QED BY <1>1, <1>3 DEF ReadUnder, GoodRowsAre

\* A step of a thread keeps what is known of its fetch.
LEMMA StepKeepsFetch ==
  ASSUME TypeOK, NEW t \in Requests, Connect(t) \/ Accept(t) \/ Refuse(t) \/ Client(t)
  PROVE  (FetchIsKnown(t) => FetchIsKnown(t)') /\ (ReplyIsFresh(t) => ReplyIsFresh(t)')
<1> USE DEF environment, tables, flights, scheduling, request
<1>0. /\ work[t] \in Work
      /\ pc \in [Requests -> PC] /\ work \in [Requests -> Work] /\ reply \in [Requests -> Response]
  BY DEF TypeOK
<1>1. CASE pc'[t] \in Through
  BY <1>1 DEF Through, FetchIsKnown, ReplyIsFresh, Unled
<1>2. CASE /\ pc[t] \in Unled /\ pc'[t] \in Unled \cup {"fetch"}
           /\ work'[t].seen = work[t].seen
  BY <1>0, <1>2 DEF FetchIsKnown, ReplyIsFresh, Unled
<1>3. CASE StartWorker(t)
  <2>1. /\ pc[t] = "fetch" /\ pc'[t] = "working" /\ work' = work /\ config' = config /\ fp' = fp
    BY <1>0, <1>3 DEF StartWorker
  <2> QED BY <1>0, <2>1 DEF FetchIsKnown, ReplyIsFresh, Unled
<1>4. CASE LeaderOutOfTime(t) \/ WorkerFails(t)
  <2>1. /\ pc[t] \in {"fetch", "working"} /\ pc'[t] = "verify" /\ work' = work
        /\ config' = config /\ fp' = fp /\ gen' = gen
    BY <1>0, <1>4 DEF LeaderOutOfTime, WorkerFails
  <2>2. PICK status : reply' = [reply EXCEPT ![t] = Failed(t, status)]
    BY <1>4 DEF LeaderOutOfTime, WorkerFails
  <2>3. reply'[t] = Failed(t, status)
    BY <1>0, <2>2
  <2>4. ReadUnder(reply'[t], work[t].seen) /\ reply'[t].gen = gen[t] /\ GoodRowsAre(reply'[t], gen[t])
    BY <2>3, FailedFacts
  <2> QED BY <1>0, <2>1, <2>4 DEF FetchIsKnown, ReplyIsFresh, Unled, ReadUnder, GoodRowsAre
<1>5. CASE WorkerLoadsConfig(t)
  <2>1. /\ pc[t] = "working" /\ pc' = pc /\ config' = config /\ fp' = fp
        /\ work' = [work EXCEPT ![t].seen = @ \cup {config}]
    BY <1>5 DEF WorkerLoadsConfig
  <2>2. work'[t].seen = work[t].seen \cup {config}
    BY <1>0, <2>1 DEF Work
  <2> QED BY <1>0, <2>1, <2>2 DEF FetchIsKnown, ReplyIsFresh, Unled
<1>6. CASE WorkerPrints(t)
  <2>1. /\ pc[t] = "working" /\ pc'[t] \in {"fetch", "verify"} /\ config' = config
        /\ fp' = fp /\ gen' = gen /\ work' = [work EXCEPT ![t].runs = @ + 1]
    BY <1>0, <1>6 DEF WorkerPrints
  <2>2. work'[t].seen = work[t].seen
    BY <1>0, <2>1 DEF Work
  <2>3. PICK rows \in [Accounts -> {"absent", "good", "error"}], bare \in BOOLEAN :
          reply' = [reply EXCEPT ![t] = Printed(t, rows, bare)]
    BY <1>6 DEF WorkerPrints
  <2>4. reply'[t] = Printed(t, rows, bare)
    BY <1>0, <2>3
  <2>5. ReadUnder(reply'[t], work[t].seen) /\ reply'[t].gen = gen[t] /\ GoodRowsAre(reply'[t], gen[t])
    BY <2>4, PrintedFacts
  <2> QED BY <1>0, <2>1, <2>2, <2>5 DEF FetchIsKnown, ReplyIsFresh, Unled, ReadUnder, GoodRowsAre
<1>7. CASE ReloadConfig(t)
  <2>1. /\ pc[t] = "verify" /\ pc'[t] = "publish" /\ config' = config /\ fp' = fp
        /\ gen' = gen /\ reply' = reply
        /\ work' = [work EXCEPT ![t].unchanged = StillCurrent(t)]
    BY <1>0, <1>7 DEF ReloadConfig
  <2>2. work'[t].seen = work[t].seen /\ work'[t].unchanged = (config = fp[t])
    BY <1>0, <2>1 DEF Work, StillCurrent
  <2> QED BY <1>0, <2>1, <2>2 DEF FetchIsKnown, ReplyIsFresh, Unled, ReadUnder, GoodRowsAre
<1>8. CASE Publish(t) \/ Send(t)
  <2>1. pc'[t] \in Through
    BY <1>0, <1>8 DEF Publish, Send, Through
  <2> QED BY <1>1, <2>1
<1> QED BY <1>1, <1>2, <1>3, <1>4, <1>5, <1>6, <1>7, <1>8, TurnsAreUnled DEF Client

\* Every step keeps what is known of the fetches, unless an edit returns.
LEMMA NextKeepsFetches ==
  ASSUME TypeOK, [Next]_vars
  PROVE  /\ RepliesAreFresh => RepliesAreFresh'
         /\ FetchesAreKnown /\ NoReturn => FetchesAreKnown'
<1> USE DEF environment, tables, flights, scheduling, request
<1>1. ASSUME NEW t \in Requests, Connect(t) \/ Accept(t) \/ Refuse(t) \/ Client(t), NEW u \in Requests
      PROVE  (FetchIsKnown(u) => FetchIsKnown(u)') /\ (ReplyIsFresh(u) => ReplyIsFresh(u)')
  <2>1. CASE u = t
    BY <1>1, <2>1, StepKeepsFetch
  <2>2. CASE u # t
    BY <1>1, <2>2, OthersStay DEF FetchIsKnown, ReplyIsFresh, ReadUnder, GoodRowsAre
  <2> QED BY <2>1, <2>2
<1>2. ASSUME RewriteConfig, NEW u \in Requests
      PROVE  (FetchIsKnown(u) /\ NoReturn => FetchIsKnown(u)') /\ (ReplyIsFresh(u) => ReplyIsFresh(u)')
  <2>1. UNCHANGED <<pc, fp, gen, work, reply>> /\ config' # config
    BY <1>2 DEF RewriteConfig
  <2>2. NoReturn /\ pc[u] \in {"fetch", "working", "verify"} => config' # fp[u]
    BY <2>1 DEF NoReturn, Leading
  <2> QED BY <2>1, <2>2 DEF FetchIsKnown, ReplyIsFresh, ReadUnder, GoodRowsAre
<1>3. ASSUME Expire \/ Stop \/ Drain \/ (\E t \in Requests \cup {Main} : WakeSpuriously(t)) \/ UNCHANGED vars,
             NEW u \in Requests
      PROVE  (FetchIsKnown(u) => FetchIsKnown(u)') /\ (ReplyIsFresh(u) => ReplyIsFresh(u)')
  <2>1. UNCHANGED <<config, fp, gen, work, reply>>
    BY <1>3 DEF Expire, Stop, Drain, WakeSpuriously, vars
  <2>2. pc'[u] = pc[u] \/ pc'[u] = "refused"
    BY <1>3 DEF Expire, Stop, Drain, WakeSpuriously, vars, TypeOK
  <2> QED BY <2>1, <2>2 DEF FetchIsKnown, ReplyIsFresh, ReadUnder, GoodRowsAre, Unled
<1> QED BY <1>1, <1>2, <1>3 DEF Next, Halted, FetchesAreKnown, RepliesAreFresh

----------------------------------------------------------------------------
(* How the tables change *)

\* An entry stays what it was, but for its age, or goes.
EntryStays(r, f) ==
  /\ cache'[r][f] = NoEntry \/ cache'[r][f].response = cache[r][f].response
  /\ lastGoodDashboard'[r][f].response = lastGoodDashboard[r][f].response
  /\ \A a \in Accounts : lastGoodRows'[r][f][a].row = lastGoodRows[r][f][a].row
  /\ cache'[r][f].age # "none" => cache'[r][f].response = cache[r][f].response

\* An entry is kept, dropped or replaced by what was just fetched.
EntryPublished(t, r, f) ==
  /\ \/ cache'[r][f] = cache[r][f]
     \/ cache'[r][f] = [age |-> "fresh", response |-> reply[t]] /\ ~HasErrors(reply[t])
  /\ \/ lastGoodDashboard'[r][f] \in {lastGoodDashboard[r][f], NoEntry}
     \/ /\ lastGoodDashboard'[r][f] = [age |-> "fresh", response |-> reply[t]]
        /\ ~HasErrors(reply[t])
  /\ \A a \in Accounts :
       \/ lastGoodRows'[r][f][a] \in {lastGoodRows[r][f][a], NoRow}
       \/ /\ lastGoodRows'[r][f][a] = [age |-> "fresh", row |-> reply[t].rows[a]]
          /\ reply[t].rows[a].kind = "good"

\* A last-good row or response is no fresh one: it is neither cached nor renewed.
LEMMA PublishedEntry ==
  ASSUME TypeOK, NEW t \in Requests, Publish(t), fp[t] \in Fingerprints
  PROVE  EntryPublished(t, route[t], fp[t])
<1> DEFINE r == route[t]
           f == fp[t]
<1>0. r \in Routes /\ f \in Fingerprints /\ reply[t] \in Response
  BY DEF TypeOK
<1>1. Cacheable(t) => Published(t) = reply[t]
  <2> SUFFICES ASSUME Cacheable(t) PROVE Published(t) = reply[t]
    OBVIOUS
  <2>1. ~HasErrors(reply[t]) /\ reply[t].status = 200 /\ work[t].unchanged
    BY DEF Cacheable
  <2>2. CASE r \in Dashboards
    <3>1. ~RestoresDashboard(lastGoodDashboard[r][f], reply[t])
      BY <2>1 DEF RestoresDashboard, IsGood
    <3> QED BY <2>1, <2>2, <3>1 DEF Published
  <2>3. CASE r \notin Dashboards
    <3> DEFINE rows == [a \in Accounts |-> RestoredRow(lastGoodRows[r][f][a], reply[t].rows[a])]
    <3>1. \A a \in Accounts : RestoredRow(lastGoodRows[r][f][a], reply[t].rows[a]) = reply[t].rows[a]
      <4>1. \A a \in Accounts : reply[t].rows[a].kind # "error"
        BY <2>1 DEF HasErrors
      <4> QED BY <4>1 DEF RestoredRow
    <3>2. reply[t].rows \in [Accounts -> Row]
      BY <1>0 DEF Response
    <3>3. rows = reply[t].rows
      BY <3>1, <3>2
    <3> HIDE DEF rows
    <3>4. [reply[t] EXCEPT !.rows = rows] = reply[t]
      BY <1>0, <3>3 DEF Response
    <3> QED BY <2>1, <2>3, <3>4 DEF Published, rows
  <2> QED BY <2>2, <2>3
<1>2. \/ cache'[r][f] = cache[r][f]
      \/ cache'[r][f] = [age |-> "fresh", response |-> reply[t]] /\ ~HasErrors(reply[t])
  BY <1>0, <1>1 DEF Publish, UpdateTables, TypeOK, Cacheable
<1>3. \/ lastGoodDashboard'[r][f] = lastGoodDashboard[r][f]
      \/ lastGoodDashboard'[r][f] = KeptDashboard(lastGoodDashboard[r][f], reply[t])
  BY <1>0 DEF Publish, UpdateTables, TypeOK
<1>4. \A a \in Accounts :
        \/ lastGoodRows'[r][f][a] = lastGoodRows[r][f][a]
        \/ lastGoodRows'[r][f][a] = KeptRow(lastGoodRows[r][f][a], reply[t].rows[a])
  BY <1>0 DEF Publish, UpdateTables, TypeOK
<1>5. \/ KeptDashboard(lastGoodDashboard[r][f], reply[t]) \in {lastGoodDashboard[r][f], NoEntry}
      \/ /\ KeptDashboard(lastGoodDashboard[r][f], reply[t]) = [age |-> "fresh", response |-> reply[t]]
         /\ ~HasErrors(reply[t])
  BY DEF KeptDashboard, IsGood
<1>6. \A a \in Accounts :
        LET kept == KeptRow(lastGoodRows[r][f][a], reply[t].rows[a])
        IN \/ kept \in {lastGoodRows[r][f][a], NoRow}
           \/ kept = [age |-> "fresh", row |-> reply[t].rows[a]] /\ reply[t].rows[a].kind = "good"
  BY DEF KeptRow
<1> QED BY <1>2, <1>3, <1>4, <1>5, <1>6 DEF EntryPublished

\* Only publishing puts something into the tables, under the leader's key.
LEMMA TablesFollow ==
  ASSUME TypeOK, HoldersHaveFingerprint, [Next]_vars, NEW r \in Routes, NEW f \in Fingerprints
  PROVE  \/ EntryStays(r, f)
         \/ \E t \in Requests : Publish(t) /\ work[t].unchanged /\ r = route[t] /\ f = fp[t]
<1> USE DEF environment, tables, flights, scheduling, request
<1>1. CASE UNCHANGED tables
  BY <1>1 DEF EntryStays
<1>2. CASE Expire
  <2>1. \A e : Expired(e) = [e EXCEPT !.age = "expired"]
    BY DEF Expired
  <2>2. /\ cache[r][f] \in CacheEntry /\ lastGoodDashboard[r][f] \in CacheEntry
        /\ \A a \in Accounts : lastGoodRows[r][f][a] \in LastGoodRow
    BY DEF TypeOK
  <2>3. /\ cache'[r][f] \in {cache[r][f], Expired(cache[r][f])}
        /\ lastGoodDashboard'[r][f] \in {lastGoodDashboard[r][f], Expired(lastGoodDashboard[r][f])}
        /\ \A a \in Accounts :
             lastGoodRows'[r][f][a] \in {lastGoodRows[r][f][a], Expired(lastGoodRows[r][f][a])}
    <3>0. PICK q \in Routes, g \in Fingerprints :
            \/ /\ cache' = [cache EXCEPT ![q][g] = Expired(@)]
               /\ UNCHANGED <<lastGoodRows, lastGoodDashboard>>
            \/ /\ \E a \in Accounts :
                    lastGoodRows' = [lastGoodRows EXCEPT ![q][g][a] = Expired(@)]
               /\ UNCHANGED <<cache, lastGoodDashboard>>
            \/ /\ lastGoodDashboard' = [lastGoodDashboard EXCEPT ![q][g] = Expired(@)]
               /\ UNCHANGED <<cache, lastGoodRows>>
      BY <1>2 DEF Expire
    <3>1. CASE /\ cache' = [cache EXCEPT ![q][g] = Expired(@)]
               /\ UNCHANGED <<lastGoodRows, lastGoodDashboard>>
      BY <3>1 DEF TypeOK
    <3>2. CASE /\ \E a \in Accounts :
                    lastGoodRows' = [lastGoodRows EXCEPT ![q][g][a] = Expired(@)]
               /\ UNCHANGED <<cache, lastGoodDashboard>>
      BY <3>2 DEF TypeOK
    <3>3. CASE /\ lastGoodDashboard' = [lastGoodDashboard EXCEPT ![q][g] = Expired(@)]
               /\ UNCHANGED <<cache, lastGoodRows>>
      BY <3>3 DEF TypeOK
    <3> QED BY <3>0, <3>1, <3>2, <3>3
  <2>6. \A e \in CacheEntry : Expired(e).response = e.response
    BY DEF Expired, CacheEntry
  <2>7. \A e \in LastGoodRow : Expired(e).row = e.row
    BY DEF Expired, LastGoodRow
  <2> QED BY <2>2, <2>3, <2>6, <2>7 DEF EntryStays
<1>3. ASSUME NEW t \in Requests, MissCache(t) PROVE EntryStays(r, f)
  <2>1. /\ cache' = [cache EXCEPT ![route[t]][fp[t]] = NoEntry]
        /\ UNCHANGED <<lastGoodRows, lastGoodDashboard>>
    BY <1>3 DEF MissCache
  <2>2. cache'[r][f] = cache[r][f] \/ cache'[r][f] = NoEntry
    BY <2>1 DEF TypeOK
  <2> QED BY <2>1, <2>2 DEF EntryStays, NoEntry
<1>4. ASSUME NEW t \in Requests, Publish(t)
      PROVE  EntryStays(r, f) \/ (work[t].unchanged /\ r = route[t] /\ f = fp[t])
  <2>1. CASE ~work[t].unchanged
    BY <1>4, <2>1 DEF Publish, UpdateTables, Cacheable, EntryStays
  <2>2. CASE ~(r = route[t] /\ f = fp[t])
    <3>1. cache'[r][f] = cache[r][f] /\ lastGoodDashboard'[r][f] = lastGoodDashboard[r][f]
          /\ lastGoodRows'[r][f] = lastGoodRows[r][f]
      BY <1>4, <2>2 DEF Publish, UpdateTables, TypeOK
    <3> QED BY <3>1 DEF EntryStays
  <2> QED BY <2>1, <2>2
<1>5. ASSUME NEW t \in Requests, Connect(t) \/ Accept(t) \/ Refuse(t) \/ Client(t), ~MissCache(t), ~Publish(t)
      PROVE  UNCHANGED tables
  BY <1>5 DEF Connect, Accept, Refuse, Client, AnswerDirectly, LoadConfig, HitCache, RetryTurn,
              TimeOutQueued, WakeJoined, TimeOutJoined, StartWorker, LeaderOutOfTime,
              WorkerLoadsConfig, WorkerFails, WorkerPrints, ReloadConfig, Send
<1>6. CASE RewriteConfig \/ Stop \/ Drain \/ (\E t \in Requests \cup {Main} : WakeSpuriously(t))
           \/ UNCHANGED vars
  BY <1>1, <1>6 DEF RewriteConfig, Stop, Drain, WakeSpuriously, vars
<1> QED BY <1>1, <1>2, <1>3, <1>4, <1>5, <1>6 DEF Next, Halted

\* The tables hold under each fingerprint only what was read under it.
LEMMA NextKeepsVersions ==
  ASSUME TypeOK, HoldersHaveFingerprint, [Next]_vars, FetchesAreKnown, TablesKeptUnder
  PROVE  TablesKeptUnder'
<1> SUFFICES ASSUME NEW r \in Routes, NEW f \in Fingerprints PROVE KeptUnder(r, f)'
  BY DEF TablesKeptUnder
<1>0. KeptUnder(r, f)
  BY DEF TablesKeptUnder
<1>1. ReadUnder(NoEntry.response, {f}) /\ NoRow.row.seen \subseteq {f}
  BY DEF NoEntry, NoRow, NoResponse, Absent, ReadUnder
<1>2. CASE EntryStays(r, f)
  BY <1>0, <1>1, <1>2 DEF EntryStays, KeptUnder, ReadUnder
<1>3. ASSUME NEW t \in Requests, Publish(t), work[t].unchanged, r = route[t], f = fp[t]
      PROVE  KeptUnder(r, f)'
  <2>0. EntryPublished(t, r, f)
    BY <1>3, PublishedEntry
  <2>1. ReadUnder(reply[t], {f})
    <3>1. FetchIsKnown(t) /\ pc[t] = "publish"
      BY <1>3 DEF FetchesAreKnown, Publish
    <3> QED BY <1>3, <3>1 DEF FetchIsKnown, ReadUnder
  <2>2. ReadUnder(cache'[r][f].response, {f})
    BY <1>0, <2>0, <2>1 DEF KeptUnder, EntryPublished
  <2>3. ReadUnder(lastGoodDashboard'[r][f].response, {f})
    BY <1>0, <1>1, <2>0, <2>1 DEF KeptUnder, EntryPublished
  <2>4. \A a \in Accounts : lastGoodRows'[r][f][a].row.seen \subseteq {f}
    <3> TAKE a \in Accounts
    <3>1. /\ lastGoodRows[r][f][a].row.seen \subseteq {f}
          /\ reply[t].rows[a].seen \subseteq {f} /\ NoRow.row.seen \subseteq {f}
      BY <1>0, <1>1, <2>1 DEF KeptUnder, ReadUnder
    <3>2. \/ lastGoodRows'[r][f][a] \in {lastGoodRows[r][f][a], NoRow}
          \/ lastGoodRows'[r][f][a] = [age |-> "fresh", row |-> reply[t].rows[a]]
      BY <2>0 DEF EntryPublished
    <3> QED BY <3>1, <3>2
  <2> QED BY <2>2, <2>3, <2>4 DEF KeptUnder, ReadUnder
<1> QED BY <1>2, <1>3, TablesFollow

\* Nothing with an error, and no row of another fetch, enters a table of responses.
LEMMA NextKeepsFresh ==
  ASSUME TypeOK, HoldersHaveFingerprint, [Next]_vars, RepliesAreFresh, OnlyFreshDataKept
  PROVE  OnlyFreshDataKept'
<1> DEFINE Fresh(response) == ~HasErrors(response) /\ GoodRowsAre(response, response.gen)
<1>1. \A r \in Routes, f \in Fingerprints :
        Fresh(cache[r][f].response) /\ Fresh(lastGoodDashboard[r][f].response)
  BY DEF OnlyFreshDataKept, GoodRowsAre
<1>2. Fresh(NoEntry.response)
  BY DEF NoEntry, NoResponse, Absent, HasErrors, GoodRowsAre
<1>3. ASSUME NEW t \in Requests, Publish(t) PROVE GoodRowsAre(reply[t], reply[t].gen)
  BY <1>3 DEF RepliesAreFresh, ReplyIsFresh, Publish, GoodRowsAre
<1>4. ASSUME NEW r \in Routes, NEW f \in Fingerprints
      PROVE  Fresh(cache'[r][f].response) /\ Fresh(lastGoodDashboard'[r][f].response)
  <2> HIDE DEF Fresh
  <2>1. CASE EntryStays(r, f)
    BY <1>1, <1>2, <2>1 DEF EntryStays
  <2>2. ASSUME NEW t \in Requests, Publish(t), work[t].unchanged, r = route[t], f = fp[t]
        PROVE  Fresh(cache'[r][f].response) /\ Fresh(lastGoodDashboard'[r][f].response)
    <3>0. EntryPublished(t, r, f)
      BY <2>2, PublishedEntry
    <3>1. ~HasErrors(reply[t]) => Fresh(reply[t])
      BY <1>3, <2>2 DEF Fresh
    <3>2. Fresh(cache'[r][f].response)
      BY <1>1, <3>0, <3>1 DEF EntryPublished
    <3>3. Fresh(lastGoodDashboard'[r][f].response)
      BY <1>1, <1>2, <3>0, <3>1 DEF EntryPublished
    <3> QED BY <3>2, <3>3
  <2> QED BY <2>1, <2>2, TablesFollow
<1> QED BY <1>4 DEF OnlyFreshDataKept, GoodRowsAre, HasErrors

\* A thread that leads went on leading, or has just taken the next generation.
LEMMA LeadersAreNewest ==
  ASSUME TypeOK, [Next]_vars
  PROVE  /\ nextGeneration' \in {nextGeneration, nextGeneration + 1}
         /\ \A u \in Requests : pc'[u] \in Leading =>
              /\ route'[u] = route[u]
              /\ \/ pc[u] \in Leading /\ gen'[u] = gen[u]
                 \/ gen'[u] = nextGeneration'
<1> USE DEF environment, tables, flights, scheduling, request, Leading
<1> DEFINE Goal(u) ==
      pc'[u] \in Leading =>
        /\ route'[u] = route[u]
        /\ (pc[u] \in Leading /\ gen'[u] = gen[u]) \/ gen'[u] = nextGeneration'
<1>0. /\ pc \in [Requests -> PC] /\ gen \in [Requests -> Nat] /\ nextGeneration \in Nat
  BY DEF TypeOK
<1>1. ASSUME NEW t \in Requests, MissCache(t) \/ RetryTurn(t)
      PROVE  Goal(t) /\ nextGeneration' \in {nextGeneration, nextGeneration + 1}
  <2>1. TakeTurn(t) /\ route' = route
    BY <1>1 DEF MissCache, RetryTurn
  <2>2. CASE Lead(t)
    BY <1>0, <2>1, <2>2 DEF Lead
  <2>3. CASE Join(t) \/ Queue(t)
    <3>1. pc'[t] \in {"joined", "queued"} /\ nextGeneration' = nextGeneration
      BY <1>0, <2>3 DEF Join, Queue
    <3> QED BY <1>0, <3>1
  <2> QED BY <2>1, <2>2, <2>3 DEF TakeTurn
<1>2. ASSUME NEW t \in Requests, Connect(t) \/ Accept(t) \/ Refuse(t) \/ AnswerDirectly(t) \/ LoadConfig(t)
                                \/ HitCache(t) \/ TimeOutQueued(t) \/ Publish(t) \/ Send(t)
      PROVE  Goal(t) /\ nextGeneration' \in {nextGeneration, nextGeneration + 1}
  <2>1. pc'[t] \notin Leading /\ nextGeneration' = nextGeneration
    BY <1>0, <1>2 DEF Connect, Accept, Refuse, AnswerDirectly, LoadConfig, HitCache, TimeOutQueued,
                      Publish, Send
  <2> QED BY <1>0, <2>1
<1>3. ASSUME NEW t \in Requests, WakeJoined(t) \/ TimeOutJoined(t)
      PROVE  Goal(t) /\ nextGeneration' \in {nextGeneration, nextGeneration + 1}
  <2>1. pc'[t] \notin Leading /\ nextGeneration' = nextGeneration
    BY <1>0, <1>3 DEF WakeJoined, TimeOutJoined, Collect
  <2> QED BY <1>0, <2>1
<1>4. ASSUME NEW t \in Requests, StartWorker(t) \/ LeaderOutOfTime(t) \/ WorkerLoadsConfig(t)
                                \/ WorkerFails(t) \/ WorkerPrints(t) \/ ReloadConfig(t)
      PROVE  Goal(t) /\ nextGeneration' \in {nextGeneration, nextGeneration + 1}
  <2>1. pc[t] \in Leading /\ UNCHANGED <<route, gen, nextGeneration>>
    BY <1>4 DEF StartWorker, LeaderOutOfTime, WorkerLoadsConfig, WorkerFails, WorkerPrints, ReloadConfig
  <2> QED BY <1>0, <2>1
<1>5. ASSUME NEW t \in Requests, Connect(t) \/ Accept(t) \/ Refuse(t) \/ Client(t)
      PROVE  nextGeneration' \in {nextGeneration, nextGeneration + 1} /\ \A u \in Requests : Goal(u)
  <2>1. Goal(t) /\ nextGeneration' \in {nextGeneration, nextGeneration + 1}
    <3> HIDE DEF Goal
    <3> QED BY <1>1, <1>2, <1>3, <1>4, <1>5 DEF Client
  <2>2. ASSUME NEW u \in Requests \ {t} PROVE Goal(u)
    BY <1>5, <2>2, OthersStay
  <2> HIDE DEF Goal
  <2> QED BY <2>1, <2>2
<1>6. CASE RewriteConfig \/ Expire \/ Stop \/ Drain \/ (\E t \in Requests \cup {Main} : WakeSpuriously(t))
           \/ UNCHANGED vars
  <2>1. UNCHANGED <<nextGeneration, gen, route>>
    BY <1>6 DEF RewriteConfig, Expire, Stop, Drain, WakeSpuriously, vars
  <2>2. \A u \in Requests : pc'[u] \in {pc[u], "refused"}
    BY <1>0, <1>6 DEF RewriteConfig, Expire, Stop, Drain, WakeSpuriously, vars
  <2> QED BY <1>0, <2>1, <2>2
<1> QED BY <1>5, <1>6 DEF Next, Halted

\* The tables of a route stay older than g where no entry is replaced.
LEMMA OlderStays ==
  ASSUME NEW r \in Routes, NEW g \in Nat, Older(r, g),
         \A f \in Fingerprints : EntryStays(r, f)
  PROVE  Older(r, g)'
<1>1. NoEntry.response.gen = 0
  BY DEF NoEntry, NoResponse
<1> QED BY <1>1 DEF Older, EntryStays

\* What a leader publishes is of its own generation.
LEMMA OlderPublished ==
  ASSUME NEW t \in Requests, Publish(t), RepliesAreFresh, NEW r \in Routes, NEW f \in Fingerprints,
         EntryPublished(t, r, f)
  PROVE  /\ cache'[r][f] = cache[r][f] \/ cache'[r][f].response.gen = gen[t]
         /\ \A a \in Accounts :
              \/ lastGoodRows'[r][f][a] \in {lastGoodRows[r][f][a], NoRow}
              \/ lastGoodRows'[r][f][a].row.gen = gen[t]
<1>1. reply[t].gen = gen[t] /\ GoodRowsAre(reply[t], gen[t])
  BY DEF RepliesAreFresh, ReplyIsFresh, Publish
<1>2. cache'[r][f] = cache[r][f] \/ cache'[r][f].response.gen = gen[t]
  BY <1>1 DEF EntryPublished
<1>3. ASSUME NEW a \in Accounts
      PROVE  \/ lastGoodRows'[r][f][a] \in {lastGoodRows[r][f][a], NoRow}
             \/ lastGoodRows'[r][f][a].row.gen = gen[t]
  <2>1. reply[t].rows[a].kind = "good" => reply[t].rows[a].gen = gen[t]
    BY <1>1 DEF GoodRowsAre
  <2>2. \/ lastGoodRows'[r][f][a] \in {lastGoodRows[r][f][a], NoRow}
        \/ /\ lastGoodRows'[r][f][a] = [age |-> "fresh", row |-> reply[t].rows[a]]
           /\ reply[t].rows[a].kind = "good"
    BY DEF EntryPublished
  <2> QED BY <2>1, <2>2
<1> QED BY <1>2, <1>3

\* Whatever a leader publishes, the tables of its route are as old as itself.
LEMMA OlderGrows ==
  ASSUME TypeOK, HoldersHaveFingerprint, RepliesAreFresh, NEW t \in Requests, Publish(t), [Next]_vars,
         NEW r \in Routes, NEW g \in Nat, Older(r, g), gen[t] <= g
  PROVE  Older(r, g)'
<1>0. gen[t] \in Nat /\ fp[t] \in Fingerprints
  BY DEF TypeOK, Publish, HoldersHaveFingerprint, Holding, Leading
<1>1. NoEntry.response.gen = 0 /\ NoRow.row.gen = 0
  BY DEF NoEntry, NoRow, NoResponse, Absent
<1>2. ASSUME NEW f \in Fingerprints
      PROVE  /\ cache'[r][f].response.gen <= g
             /\ \A a \in Accounts : lastGoodRows'[r][f][a].row.gen <= g
  <2>1. CASE EntryStays(r, f)
    BY <1>1, <2>1 DEF EntryStays, Older
  <2>2. ASSUME NEW u \in Requests, Publish(u), r = route[u], f = fp[u], ~EntryStays(r, f)
        PROVE  u = t
    <3>1. CASE u # t
      BY <2>2, <3>1, OthersStay DEF Publish, Client, TypeOK
    <3> QED BY <3>1
  <2>3. CASE Publish(t) /\ r = route[t] /\ f = fp[t]
    <3>1. EntryPublished(t, r, f)
      BY <2>3, PublishedEntry, <1>0
    <3> QED BY <1>0, <1>1, <3>1, OlderPublished DEF Older
  <2> QED BY <2>1, <2>2, <2>3, TablesFollow
<1> QED BY <1>2 DEF Older

\* A route's tables are older than every fetch that may still publish into them.
LEMMA NextKeepsOlder ==
  ASSUME TypeOK, HoldersHaveFingerprint, FlightInv, RepliesAreFresh, [Next]_vars, TablesAreOlder
  PROVE  TablesAreOlder'
<1>0. /\ nextGeneration \in Nat /\ gen \in [Requests -> Nat] /\ route \in [Requests -> Routes]
      /\ nextGeneration' \in Nat /\ nextGeneration <= nextGeneration'
  BY LeadersAreNewest DEF TypeOK
<1>1. ASSUME NEW r \in Routes, NEW g \in Nat, Older(r, g), nextGeneration <= g
      PROVE  Older(r, g)'
  <2>1. CASE \A f \in Fingerprints : EntryStays(r, f)
    BY <1>1, <2>1, OlderStays
  <2>2. ASSUME NEW t \in Requests, Publish(t) PROVE Older(r, g)'
    <3>1. gen[t] <= nextGeneration
      BY <2>2 DEF TablesAreOlder, Publish, Leading
    <3>2. gen[t] <= g
      BY <1>0, <1>1, <3>1
    <3> QED BY <1>1, <2>2, <3>2, OlderGrows
  <2>3. (\A f \in Fingerprints : EntryStays(r, f)) \/ \E t \in Requests : Publish(t)
    BY TablesFollow
  <2> QED BY <2>1, <2>2, <2>3
<1>2. ASSUME NEW r \in Routes PROVE Older(r, nextGeneration)'
  <2>1. PICK n \in Nat : n = nextGeneration' /\ nextGeneration <= n
    BY <1>0
  <2>2. Older(r, n)
    <3>1. Older(r, nextGeneration)
      BY DEF TablesAreOlder
    <3> QED BY <1>0, <2>1, <3>1 DEF Older, TypeOK, CacheEntry, Response, LastGoodRow, Row
  <2>3. Older(r, n)'
    BY <1>1, <2>1, <2>2
  <2> QED BY <2>1, <2>3 DEF Older
<1>3. ASSUME NEW u \in Requests, pc'[u] \in Leading
      PROVE  gen'[u] <= nextGeneration' /\ Older(route[u], gen[u])'
  <2>1. route'[u] = route[u] /\ route[u] \in Routes
    BY <1>0, <1>3, LeadersAreNewest
  <2>2. CASE gen'[u] = nextGeneration'
    BY <1>0, <1>2, <2>1, <2>2 DEF Older
  <2>3. CASE pc[u] \in Leading /\ gen'[u] = gen[u]
    <3>1. gen[u] \in Nat /\ gen[u] <= nextGeneration /\ Older(route[u], gen[u])
      BY <1>0, <2>3 DEF TablesAreOlder
    <3>2. ASSUME NEW t \in Requests, Publish(t), route[t] = route[u]
          PROVE  FALSE
      <4>1. t = u
        BY <2>3, <3>2 DEF FlightInv, OneLeader, Publish, Leading
      <4> QED BY <1>3, <3>2, <4>1 DEF Publish, TypeOK, Leading
    <3>3. \A f \in Fingerprints : EntryStays(route[u], f)
      BY <2>1, <3>2, TablesFollow
    <3>4. \A r \in Routes, g \in Nat :
            Older(r, g) /\ (\A f \in Fingerprints : EntryStays(r, f)) => Older(r, g)'
      BY OlderStays
    <3>5. PICK r \in Routes, g \in Nat : r = route[u] /\ g = gen[u]
      BY <2>1, <3>1
    <3>6. Older(r, g)'
      BY <3>1, <3>3, <3>4, <3>5
    <3> QED BY <2>1, <2>3, <1>0, <3>1, <3>5, <3>6 DEF Older
  <2> QED BY <1>3, <2>2, <2>3, LeadersAreNewest
<1> QED BY <1>2, <1>3 DEF TablesAreOlder

----------------------------------------------------------------------------
(* The invariant of what is kept *)

KeptInv == RepliesAreFresh /\ TablesAreOlder /\ OnlyFreshDataKept

\* The tables are empty when the server starts, and nobody fetches.
LEMMA InitKept == Init => KeptInv /\ FetchesAreKnown /\ TablesKeptUnder
<1> SUFFICES ASSUME Init PROVE KeptInv /\ FetchesAreKnown /\ TablesKeptUnder
  OBVIOUS
<1>1. /\ \A r \in Routes, f \in Fingerprints :
           /\ cache[r][f] = NoEntry /\ lastGoodDashboard[r][f] = NoEntry
           /\ \A a \in Accounts : lastGoodRows[r][f][a] = NoRow
      /\ \A t \in Requests : pc[t] = "away" /\ work[t] = NoWork
      /\ nextGeneration = 0
  BY DEF Init
<1>2. /\ ReadUnder(NoEntry.response, {}) /\ NoRow.row.seen = {} /\ NoRow.row.gen = 0
      /\ NoEntry.response.gen = 0 /\ ~HasErrors(NoEntry.response)
      /\ \A a \in Accounts : NoEntry.response.rows[a].kind = "absent"
  BY DEF NoEntry, NoRow, NoResponse, Absent, ReadUnder, HasErrors
<1>3. RepliesAreFresh
  BY <1>1 DEF RepliesAreFresh, ReplyIsFresh
<1>4. TablesAreOlder
  BY <1>1, <1>2 DEF TablesAreOlder, Older, Leading
<1>5. OnlyFreshDataKept
  BY <1>1, <1>2 DEF OnlyFreshDataKept
<1>6. FetchesAreKnown
  BY <1>1 DEF FetchesAreKnown, FetchIsKnown, NoWork
<1>7. TablesKeptUnder
  BY <1>1, <1>2 DEF TablesKeptUnder, KeptUnder, ReadUnder
<1> QED BY <1>3, <1>4, <1>5, <1>6, <1>7 DEF KeptInv

\* The invariant is inductive, with the one that guards the operations.
LEMMA KeptInductive == Inv /\ KeptInv /\ [Next]_vars => KeptInv'
BY NextKeepsFetches, NextKeepsOlder, NextKeepsFresh DEF Inv, KeptInv

\* The invariant holds in every reachable state.
LEMMA KeptInvariance == Spec => []KeptInv
BY InitKept, Invariance, KeptInductive, PTL DEF Spec

\* A last-good row or dashboard is served, but never stored again as if it had just
\* been fetched: what the cache and the last-good dashboards hold has no error, and
\* every good row in it is of the fetch that produced the whole response.
THEOREM LastGoodIsNeverRenewed == Spec => []OnlyFreshDataKept
<1>1. KeptInv => OnlyFreshDataKept
  BY DEF KeptInv
<1> QED BY <1>1, KeptInvariance, PTL

\* One key's tables are only ever replaced by a fetch that started later.
LEMMA StepMovesForward ==
  ASSUME Inv, KeptInv, [Next]_vars, NEW r \in Routes, NEW f \in Fingerprints
  PROVE  /\ cache[r][f].age # "none" /\ cache'[r][f].age # "none" =>
              cache'[r][f].response.gen >= cache[r][f].response.gen
         /\ \A a \in Accounts :
              lastGoodRows'[r][f][a].age # "none" =>
                lastGoodRows'[r][f][a].row.gen >= lastGoodRows[r][f][a].row.gen
<1>1. TypeOK /\ HoldersHaveFingerprint /\ RepliesAreFresh /\ TablesAreOlder
  BY DEF Inv, KeptInv
<1>2. /\ cache[r][f].response.gen \in Nat
      /\ \A a \in Accounts : lastGoodRows[r][f][a].row.gen \in Nat
  BY <1>1 DEF TypeOK, CacheEntry, Response, LastGoodRow, Row
<1>3. CASE EntryStays(r, f)
  BY <1>2, <1>3 DEF EntryStays
<1>4. ASSUME NEW t \in Requests, Publish(t), r = route[t], f = fp[t]
      PROVE  /\ cache[r][f].age # "none" /\ cache'[r][f].age # "none" =>
                  cache'[r][f].response.gen >= cache[r][f].response.gen
             /\ \A a \in Accounts :
                  lastGoodRows'[r][f][a].age # "none" =>
                    lastGoodRows'[r][f][a].row.gen >= lastGoodRows[r][f][a].row.gen
  <2>1. EntryPublished(t, r, f)
    BY <1>1, <1>4, PublishedEntry
  <2>2. Older(r, gen[t]) /\ gen[t] \in Nat
    BY <1>1, <1>4 DEF TablesAreOlder, TypeOK, Publish, Leading
  <2>3. /\ cache'[r][f] = cache[r][f] \/ cache'[r][f].response.gen = gen[t]
        /\ \A a \in Accounts :
             \/ lastGoodRows'[r][f][a] \in {lastGoodRows[r][f][a], NoRow}
             \/ lastGoodRows'[r][f][a].row.gen = gen[t]
    BY <1>1, <1>4, <2>1, OlderPublished
  <2>4. NoRow.age = "none"
    BY DEF NoRow
  <2> QED BY <1>2, <2>2, <2>3, <2>4 DEF Older
<1> QED BY <1>1, <1>3, <1>4, TablesFollow

\* A slow fetch never overwrites what a later one stored: the cached responses and
\* the last-good rows of a key only move to newer generations (route_response
\* publishes under the mutex, one leader of a route at a time).
THEOREM NewerDataStays == Spec => CacheMovesForward
<1>1. Inv /\ KeptInv /\ [Next]_vars =>
        [\A r \in Routes, f \in Fingerprints :
           /\ cache[r][f].age # "none" /\ cache'[r][f].age # "none" =>
                cache'[r][f].response.gen >= cache[r][f].response.gen
           /\ \A a \in Accounts :
                lastGoodRows'[r][f][a].age # "none" =>
                  lastGoodRows'[r][f][a].row.gen >= lastGoodRows[r][f][a].row.gen]_vars
  BY StepMovesForward
<1> QED BY <1>1, Invariance, KeptInvariance, PTL DEF Spec, CacheMovesForward

\* While no edit brings back the version a running fetch was started under, what is
\* kept for a configuration was read under it: the second look at the file, after
\* the workers have read it for themselves, is enough.
THEOREM KeptDataMatches == Spec /\ [][NoReturn]_vars => []KeptUnderItsConfig
<1>1. Inv /\ FetchesAreKnown /\ TablesKeptUnder /\ [Next]_vars /\ [NoReturn]_vars
        => (FetchesAreKnown /\ TablesKeptUnder)'
  <2>1. UNCHANGED vars => NoReturn
    BY DEF vars, environment, NoReturn
  <2> QED BY <2>1, NextKeepsFetches, NextKeepsVersions DEF Inv
<1>2. TablesKeptUnder => KeptUnderItsConfig
  BY DEF TablesKeptUnder, KeptUnder, ReadUnder, KeptUnderItsConfig
<1> QED BY <1>1, <1>2, InitKept, Invariance, PTL DEF Spec

\* Until the file is edited, every thread has loaded the one version there is.
OneVersion ==
  changes = 0 => \A t \in Requests : fp[t] \in {config, NoConfig}

\* One edit brings no version back.
LEMMA OneEditReturnsNothing ==
  ASSUME MaxChanges <= 1
  PROVE  /\ Init => OneVersion
         /\ Inv /\ OneVersion /\ [Next]_vars => OneVersion' /\ NoReturn
<1>1. Init => OneVersion
  BY DEF Init, OneVersion
<1>2. ASSUME Inv, OneVersion, [Next]_vars PROVE OneVersion' /\ NoReturn
  <2>0. TypeOK /\ HoldersHaveFingerprint
    BY <1>2 DEF Inv
  <2>1. CASE RewriteConfig
    <3>1. changes = 0 /\ changes' = 1 /\ config' # config
      BY <2>0, <2>1, ServeAssumption DEF RewriteConfig, TypeOK, ServeAssumption
    <3>2. \A t \in Requests : pc[t] \in Leading => fp[t] = config
      BY <1>2, <2>0, <3>1, ServeAssumption
         DEF OneVersion, HoldersHaveFingerprint, Holding, ServeAssumption
    <3> QED BY <3>1, <3>2 DEF OneVersion, NoReturn
  <2>2. CASE UNCHANGED <<config, changes, fp>>
    BY <1>2, <2>2 DEF OneVersion, NoReturn
  <2>3. ASSUME NEW t \in Requests, LoadConfig(t) \/ Send(t) PROVE OneVersion' /\ NoReturn
    <3>1. UNCHANGED <<config, changes>> /\ \A u \in Requests : fp'[u] \in {fp[u], config, NoConfig}
      BY <2>0, <2>3 DEF LoadConfig, Send, environment, TypeOK
    <3> QED BY <1>2, <3>1 DEF OneVersion, NoReturn
  <2>4. ASSUME NEW t \in Requests, Connect(t) \/ Accept(t) \/ Refuse(t) \/ Client(t),
               ~LoadConfig(t), ~Send(t)
        PROVE  UNCHANGED <<config, changes, fp>>
    BY <2>4 DEF Connect, Accept, Refuse, Client, AnswerDirectly, HitCache, MissCache, RetryTurn,
                TimeOutQueued, WakeJoined, TimeOutJoined, StartWorker, LeaderOutOfTime, WorkerLoadsConfig,
                WorkerFails, WorkerPrints, ReloadConfig, Publish, environment, request
  <2>5. CASE Expire \/ Stop \/ Drain \/ (\E t \in Requests \cup {Main} : WakeSpuriously(t))
             \/ UNCHANGED vars
    <3>1. UNCHANGED <<config, changes, fp>>
      BY <2>5 DEF Expire, Stop, Drain, WakeSpuriously, vars, environment, request
    <3> QED BY <2>2, <3>1
  <2> QED BY <1>2, <2>1, <2>2, <2>3, <2>4, <2>5 DEF Next, Halted
<1> QED BY <1>1, <1>2

\* A single edit, at any moment of any number of requests, cannot mix versions.
THEOREM OneEditIsSafe ==
  ASSUME MaxChanges <= 1
  PROVE  Spec => []KeptUnderItsConfig
<1>1. Spec => [][NoReturn]_vars
  <2>1. Inv /\ OneVersion /\ [Next]_vars => [NoReturn]_vars
    BY OneEditReturnsNothing
  <2> QED BY <2>1, OneEditReturnsNothing, Invariance, PTL DEF Spec
<1> QED BY <1>1, KeptDataMatches, PTL

-----------------------------------------------------------------------------
(***************************************************************************)
(* The invariant above does not say that an operation in the table of a    *)
(* running fetch is numbered; a leader may only depart when the route is   *)
(* free, and it tells so by the number.                                    *)
(***************************************************************************)
RunningIsNumbered ==
  \A r \in Routes : operations[r].running => operations[r].generation # 0

NumberedInv == Inv /\ RunningIsNumbered

\* A running operation keeps a number other than 0.
LEMMA NumberingKept ==
  ASSUME Inv, RunningIsNumbered, [Next]_vars
  PROVE  RunningIsNumbered'
<1> USE DEF RunningIsNumbered, flights
<1>0. \A r \in Routes : operations[r] \in Operation /\ nextGeneration \in Nat
  BY DEF Inv, TypeOK
<1>1. ASSUME NEW t \in Requests, MissCache(t) \/ RetryTurn(t)
      PROVE  RunningIsNumbered'
  <2>1. CASE Lead(t)
    <3>1. nextGeneration + 1 # 0
      BY <1>0 DEF Inv, TypeOK
    <3> QED BY <2>1, <3>1 DEF Lead, NoOperation, Inv, TypeOK
  <2>2. CASE Join(t)
    <3>1. WithWaiter(operations[route[t]]).generation = operations[route[t]].generation
          /\ operations[route[t]].generation # 0 /\ route[t] \in Routes
      BY <1>0, <2>2 DEF Join, RouteIsFree, WithWaiter, Operation, Inv, TypeOK
    <3> QED BY <2>2, <3>1 DEF Join, Inv, TypeOK
  <2>3. CASE Queue(t)
    BY <2>3 DEF Queue
  <2> QED BY <1>1, <2>1, <2>2, <2>3 DEF MissCache, RetryTurn, TakeTurn
<1>2. ASSUME NEW t \in Requests, WakeJoined(t) \/ TimeOutJoined(t)
      PROVE  RunningIsNumbered'
  <2> DEFINE op == operations[route[t]]
             less == [op EXCEPT !.remaining = @ - 1]
  <2>1. route[t] \in Routes
    BY DEF Inv, TypeOK
  <2>2. \E new \in {op, less, WithoutWaiter(op), NoOperation} :
          operations' = [operations EXCEPT ![route[t]] = new]
    BY <1>2, <2>1 DEF WakeJoined, TimeOutJoined, Collect, Inv, TypeOK
  <2>3. /\ less.running = op.running /\ less.generation = op.generation
        /\ WithoutWaiter(op).running = op.running /\ WithoutWaiter(op).generation = op.generation
        /\ ~NoOperation.running
    BY <1>0, <2>1 DEF WithoutWaiter, Operation, NoOperation
  <2> QED BY <2>1, <2>2, <2>3 DEF Inv, TypeOK
<1>3. ASSUME NEW t \in Requests, Publish(t)
      PROVE  RunningIsNumbered'
  <2>1. ~Settled(operations[route[t]], Published(t)).running
    BY <1>0 DEF Settled, NoOperation, Operation, Inv, TypeOK
  <2> QED BY <1>3, <2>1 DEF Publish, FinishOperation, Inv, TypeOK
<1>4. CASE UNCHANGED operations
  BY <1>4
<1> QED BY <1>1, <1>2, <1>3, <1>4, MostStepsAreQuiet DEF Next, Client, Halted, QuietStep, Inv

\* The invariant, and that running operations are numbered, hold in every reachable state.
LEMMA NumberedInvariance == Spec => []NumberedInv
<1>1. Init => NumberedInv
  <2>1. Init => RunningIsNumbered
    BY DEF Init, RunningIsNumbered, NoOperation
  <2> QED BY <2>1, InitInv DEF NumberedInv
<1>2. NumberedInv /\ [Next]_vars => NumberedInv'
  BY InvInductive, NumberingKept DEF NumberedInv
<1> QED BY <1>1, <1>2, PTL DEF Spec

----------------------------------------------------------------------------
(* What the mapping shows of a request *)

\* A server that has just started maps to travellers without tickets.
LEMMA InitMaps == Init => Promise!Init
<1> SUFFICES ASSUME Init PROVE Promise!Init
  OBVIOUS
<1>1. \A t \in Requests : pc[t] = "away"
  BY DEF Init
<1>2. \A r \in Routes : ~operations[r].running
  BY DEF Init, NoOperation
<1>3. ticketOf = [t \in Requests |-> Promise!NoTicket]
  BY <1>1 DEF ticketOf, Leading, Promise!NoTicket
<1>4. flightOn = [r \in Routes |-> Promise!NoFlight]
  BY <1>2 DEF flightOn, Promise!NoFlight
<1>5. landedNow = {}
  BY <1>1 DEF landedNow
<1> QED BY <1>3, <1>4, <1>5 DEF Promise!Init

\* A thread that takes part in nothing yet is only waiting.
LEMMA LoneThreadWaits ==
  ASSUME TypeOK, NEW t \in Requests, pc[t] \in {"lookup", "queued"}
  PROVE  /\ Promise!Waiting(t)
         /\ ticketOf[t] = [route |-> {route[t]}, config |-> {fp[t]}]
         /\ \A r \in Routes : Promise!On(t, r) <=> r = route[t]
<1>1. ticketOf[t] = [route |-> {route[t]}, config |-> {fp[t]}]
  BY DEF ticketOf
<1>2. t \notin landedNow
  BY DEF landedNow
<1>3. \A r \in Routes : t \notin flightOn[r].leaders \cup flightOn[r].aboard
  BY DEF flightOn, Leaders, Joined, Leading
<1>4. ticketOf[t] # Promise!NoTicket
  BY <1>1 DEF Promise!NoTicket
<1> QED BY <1>1, <1>2, <1>3, <1>4 DEF Promise!Waiting, Promise!Travelling, Promise!On

\* What changes in the flights and among the landed when only t and its route do.
LEMMA QuietFlights ==
  ASSUME QuietStep
  PROVE  flightOn' = flightOn /\ landedNow' = landedNow
<1>1. \A r \in Routes : Leaders(r)' = Leaders(r) /\ Joined(r)' = Joined(r)
  BY DEF QuietStep, Leaders, Joined, Aboard
<1>2. flightOn' = flightOn
  BY <1>1 DEF flightOn, QuietStep
<1>3. landedNow' = landedNow
  BY DEF landedNow, QuietStep, Aboard
<1> QED BY <1>2, <1>3

\* The tickets of all others stay as they are.
LEMMA OneTicketChanges ==
  ASSUME NEW t \in Requests, NEW new, ticketOf'[t] = new,
         \A u \in Requests \ {t} : UNCHANGED <<pc[u], route[u], fp[u]>>
  PROVE  ticketOf' = [ticketOf EXCEPT ![t] = new]
BY DEF ticketOf

\* So do all tickets when those who hold one stay who they are.
LEMMA SameTickets ==
  ASSUME \A u \in Requests :
           /\ pc'[u] \in Holding <=> pc[u] \in Holding
           /\ pc[u] \in Holding => route'[u] = route[u] /\ fp'[u] = fp[u]
  PROVE  ticketOf' = ticketOf
<1>1. {"lookup", "queued", "joined"} \cup Leading = Holding
  BY DEF Holding
<1> QED BY <1>1 DEF ticketOf

\* Edits, expiries, workers and sent answers are invisible to the promise.
LEMMA StutterMaps ==
  ASSUME TypeOK,
         \/ RewriteConfig \/ Expire \/ Stop \/ Drain
         \/ \E t \in Requests :
              \/ Connect(t) \/ Accept(t) \/ Refuse(t) \/ AnswerDirectly(t)
              \/ StartWorker(t) \/ LeaderOutOfTime(t) \/ WorkerLoadsConfig(t) \/ WorkerFails(t)
              \/ WorkerPrints(t) \/ ReloadConfig(t) \/ Send(t)
         \/ \E t \in Requests \cup {Main} : WakeSpuriously(t)
         \/ UNCHANGED vars
  PROVE  UNCHANGED Promise!travel
<1>1. flightOn' = flightOn /\ landedNow' = landedNow
  BY MostStepsAreQuiet, QuietFlights
<1>2. ticketOf' = ticketOf
  <2> DEFINE Same == \A u \in Requests :
               /\ pc'[u] \in Holding <=> pc[u] \in Holding
               /\ pc[u] \in Holding => route'[u] = route[u] /\ fp'[u] = fp[u]
  <2> USE DEF Holding, Leading, vars, environment, tables, flights, scheduling, request
  <2>1. ASSUME RewriteConfig \/ Expire \/ Stop \/ Drain
        PROVE  Same
    BY <2>1 DEF RewriteConfig, Expire, Stop, Drain, TypeOK
  <2>2. ASSUME NEW t \in Requests, Connect(t) \/ Accept(t) \/ Refuse(t) \/ AnswerDirectly(t)
                                   \/ Send(t)
        PROVE  Same
    BY <2>2 DEF Connect, Accept, Refuse, AnswerDirectly, Send, TypeOK
  <2>3. ASSUME NEW t \in Requests,
               StartWorker(t) \/ LeaderOutOfTime(t) \/ WorkerLoadsConfig(t) \/ WorkerFails(t)
               \/ WorkerPrints(t) \/ ReloadConfig(t)
        PROVE  Same
    BY <2>3 DEF StartWorker, LeaderOutOfTime, WorkerLoadsConfig, WorkerFails, WorkerPrints,
                ReloadConfig, TypeOK
  <2>4. ASSUME (\E t \in Requests \cup {Main} : WakeSpuriously(t)) \/ UNCHANGED vars
        PROVE  Same
    BY <2>4 DEF WakeSpuriously
  <2>5. Same
    BY <2>1, <2>2, <2>3, <2>4
  <2> QED BY <2>5, SameTickets
<1> QED BY <1>1, <1>2 DEF Promise!travel

----------------------------------------------------------------------------
(* One lemma for each kind of step a traveller can see *)

\* A request that has loaded its configuration has a ticket.
LEMMA LoadConfigMaps ==
  ASSUME TypeOK, NEW t \in Requests, LoadConfig(t)
  PROVE  [Promise!Next]_(Promise!travel)
<1> USE DEF tables, flights, scheduling, environment
<1>1. flightOn' = flightOn /\ landedNow' = landedNow
  BY MostStepsAreQuiet, QuietFlights
<1>2. CASE config = NoConfig
  <2>1. ticketOf' = ticketOf
    BY <1>2, SameTickets DEF LoadConfig, Holding, Leading, TypeOK
  <2> QED BY <1>1, <2>1 DEF Promise!travel
<1>3. CASE config # NoConfig
  <2>1. /\ pc[t] = "reading" /\ pc' = [pc EXCEPT ![t] = "lookup"]
        /\ fp' = [fp EXCEPT ![t] = config] /\ config \in Fingerprints
        /\ \E r \in Routes : route' = [route EXCEPT ![t] = r]
    BY <1>3 DEF LoadConfig, TypeOK, ConfigValues
  <2>2. ticketOf[t] = Promise!NoTicket
    BY <2>1 DEF ticketOf, Leading, Promise!NoTicket
  <2>3. ticketOf'[t] = [route |-> {route'[t]}, config |-> {config}] /\ route'[t] \in Routes
    BY <2>1 DEF ticketOf, TypeOK
  <2>4. ticketOf'[t] \in Promise!Ticket
    BY <2>1, <2>3 DEF Promise!Ticket
  <2>5. ticketOf' = [ticketOf EXCEPT ![t] = ticketOf'[t]]
    BY <2>1, OneTicketChanges DEF TypeOK
  <2>6. Promise!Ask(t)
    BY <1>1, <2>2, <2>4, <2>5 DEF Promise!Ask
  <2> QED BY <2>6 DEF Promise!Next
<1> QED BY <1>2, <1>3

\* An answer from the cache or a timeout in the queue settles a ticket.
LEMMA SettleMaps ==
  ASSUME TypeOK, NEW t \in Requests, HitCache(t) \/ TimeOutQueued(t)
  PROVE  Promise!Next
<1> USE DEF tables, flights, scheduling, environment
<1>1. flightOn' = flightOn /\ landedNow' = landedNow
  BY MostStepsAreQuiet, QuietFlights
<1>2. /\ pc[t] \in {"lookup", "queued"} /\ pc' = [pc EXCEPT ![t] = "replying"]
      /\ UNCHANGED <<route, fp>>
  BY DEF HitCache, TimeOutQueued
<1>3. ticketOf'[t] = Promise!NoTicket
  BY <1>2 DEF ticketOf, Leading, Promise!NoTicket, TypeOK
<1>4. ticketOf' = [ticketOf EXCEPT ![t] = Promise!NoTicket]
  BY <1>2, <1>3, OneTicketChanges DEF TypeOK
<1>5. Promise!Settle(t)
  BY <1>1, <1>2, <1>4, LoneThreadWaits DEF Promise!Settle
<1> QED BY <1>5 DEF Promise!Next

\* A turn of the loop of route_response departs, boards or goes on waiting.
LEMMA TurnMaps ==
  ASSUME TypeOK, FlightInv, RunningIsNumbered, FlightInv', NEW t \in Requests,
         MissCache(t) \/ RetryTurn(t)
  PROVE  [Promise!Next]_(Promise!travel)
<1>0. PICK r \in Routes : r = route[t]
  BY DEF TypeOK
<1>1. /\ pc[t] \in {"lookup", "queued"} /\ UNCHANGED <<route, fp>>
      /\ \E p \in {"fetch", "joined", "queued"} : pc' = [pc EXCEPT ![t] = p]
  BY DEF MissCache, RetryTurn, TakeTurn, Lead, Join, Queue
<1>2. ticketOf' = ticketOf
  BY <1>1, SameTickets DEF Holding, Leading, TypeOK
<1>3. /\ Promise!Waiting(t) /\ Promise!On(t, r)
      /\ ticketOf[t] = [route |-> {r}, config |-> {fp[t]}]
  BY <1>0, <1>1, LoneThreadWaits
<1>4. \A q \in Routes : q # r => Leaders(q)' = Leaders(q) /\ Joined(q)' = Joined(q)
  BY <1>0, <1>1 DEF Leaders, Joined, Leading, TypeOK
<1>5. CASE Lead(t)
  <2>1. /\ operations[r].generation = 0
        /\ operations' = [operations EXCEPT ![r] =
             [NoOperation EXCEPT !.fingerprint = fp[t], !.generation = nextGeneration + 1,
                                 !.running = TRUE]]
        /\ pc' = [pc EXCEPT ![t] = "fetch"]
    BY <1>0, <1>5 DEF Lead, RouteIsFree
  <2>2. /\ operations'[r].running /\ operations'[r].fingerprint = fp[t]
        /\ \A q \in Routes : q # r => operations'[q] = operations[q]
        /\ ~operations[r].running
    BY <2>1 DEF NoOperation, RunningIsNumbered, TypeOK
  <2>3. Leaders(r) = {} /\ Joined(r) = {}
    BY <2>1 DEF Leaders, Joined, FlightInv, LeadersOwn, JoinersOwn
  <2>4. Leaders(r)' = {t} /\ Joined(r)' = {}
    BY <1>0, <1>1, <2>1, <2>3 DEF Leaders, Joined, Leading, TypeOK
  <2>5. flightOn' = [flightOn EXCEPT ![r] =
                       [leaders |-> {t}, aboard |-> {}, config |-> {fp[t]}]]
    BY <1>4, <2>2, <2>4 DEF flightOn
  <2>6. flightOn[r] = Promise!NoFlight
    BY <2>2 DEF flightOn, Promise!NoFlight
  <2>7. landedNow' = landedNow
    <3>1. ASSUME NEW u \in Requests, u # t
          PROVE  (pc'[u] = "joined" /\ ~operations'[route'[u]].running)
                   <=> (pc[u] = "joined" /\ ~operations[route[u]].running)
      BY <1>1, <2>1, <2>2, <2>3, <3>1 DEF Joined, TypeOK
    <3>2. pc'[t] # "joined" /\ pc[t] # "joined"
      BY <1>1, <2>1 DEF TypeOK
    <3> QED BY <3>1, <3>2 DEF landedNow
  <2>8. Promise!Depart(t)
    <3>1. ~Promise!InTheAir(r)
      BY <2>6 DEF Promise!InTheAir
    <3>2. ticketOf[t].config = {fp[t]}
      BY <1>3
    <3>3. flightOn' = [flightOn EXCEPT ![r] =
                         [leaders |-> {t}, aboard |-> {}, config |-> ticketOf[t].config]]
      BY <2>5, <3>2
    <3> QED BY <1>2, <1>3, <2>7, <3>1, <3>3 DEF Promise!Depart
  <2> QED BY <2>8 DEF Promise!Next
<1>6. CASE Join(t)
  <2> DEFINE op == operations[r]
  <2>1. /\ op.running /\ op.fingerprint = fp[t] /\ op \in Operation
        /\ operations' = [operations EXCEPT ![r] = WithWaiter(op)]
        /\ pc' = [pc EXCEPT ![t] = "joined"]
    BY <1>0, <1>6 DEF Join, CanJoin, TypeOK
  <2>2. /\ operations'[r].running /\ operations'[r].fingerprint = fp[t]
        /\ \A q \in Routes : q # r => operations'[q] = operations[q]
    BY <2>1 DEF WithWaiter, Operation, TypeOK
  <2>3. Leaders(r)' = Leaders(r) /\ Joined(r)' = Joined(r) \cup {t}
    BY <1>0, <1>1, <2>1 DEF Leaders, Joined, Leading, TypeOK
  <2>4. flightOn[r] = [leaders |-> Leaders(r), aboard |-> Joined(r), config |-> {fp[t]}]
    BY <2>1 DEF flightOn
  <2>5. flightOn' = [flightOn EXCEPT ![r] =
                       [leaders |-> Leaders(r), aboard |-> Joined(r) \cup {t}, config |-> {fp[t]}]]
    BY <1>4, <2>2, <2>3 DEF flightOn
  <2>6. landedNow' = landedNow
    <3>1. ASSUME NEW u \in Requests, u # t
          PROVE  (pc'[u] = "joined" /\ ~operations'[route'[u]].running)
                   <=> (pc[u] = "joined" /\ ~operations[route[u]].running)
      BY <1>1, <2>1, <2>2, <3>1 DEF TypeOK
    <3>2. pc[t] # "joined" /\ operations'[route'[t]].running
      BY <1>0, <1>1, <2>2
    <3> QED BY <3>1, <3>2 DEF landedNow
  <2>7. flightOn[r] # Promise!NoFlight /\ flightOn[r].config = ticketOf[t].config
    BY <1>3, <2>4 DEF Promise!NoFlight
  <2>8. flightOn' = [flightOn EXCEPT ![r].aboard = @ \cup {t}]
    <3>1. [flightOn[r] EXCEPT !.aboard = @ \cup {t}]
            = [leaders |-> Leaders(r), aboard |-> Joined(r) \cup {t}, config |-> {fp[t]}]
      BY <2>4
    <3> QED BY <2>5, <3>1
  <2>9. Promise!Board(t)
    BY <1>2, <1>3, <2>6, <2>7, <2>8 DEF Promise!Board, Promise!InTheAir
  <2> QED BY <2>9 DEF Promise!Next
<1>7. CASE Queue(t)
  <2>1. QuietStep
    BY <1>1, <1>7 DEF MissCache, RetryTurn, Queue, QuietStep, Aboard, Leading, TypeOK, flights
  <2> QED BY <1>2, <2>1, QuietFlights DEF Promise!travel
<1> QED BY <1>5, <1>6, <1>7 DEF MissCache, RetryTurn, TakeTurn

\* A joined thread that finds the operation finished gets its delivery.
LEMMA CollectMaps ==
  ASSUME TypeOK, FlightInv, NEW t \in Requests, WakeJoined(t) \/ TimeOutJoined(t), Finished(t)
  PROVE  Promise!Next
<1>0. PICK r \in Routes : r = route[t]
  BY DEF TypeOK
<1> DEFINE op == operations[r]
           left == [op EXCEPT !.remaining = @ - 1]
<1>1. /\ r = route[t] /\ UNCHANGED <<route, fp>> /\ op \in Operation
      /\ pc[t] = "joined" /\ ~op.running
      /\ operations' = [operations EXCEPT ![r] = IF op.remaining = 1 THEN NoOperation ELSE left]
      /\ pc' = [pc EXCEPT ![t] = "replying"]
  BY <1>0 DEF WakeJoined, TimeOutJoined, Collect, Finished, TypeOK, request
<1>2. ~left.running /\ ~NoOperation.running
  BY <1>1 DEF Operation, NoOperation
<1>3. /\ ~operations'[r].running
      /\ \A q \in Routes : q # r => operations'[q] = operations[q]
  BY <1>1, <1>2 DEF TypeOK
<1>4. \A q \in Routes : q # r => Leaders(q)' = Leaders(q) /\ Joined(q)' = Joined(q)
  BY <1>1 DEF Leaders, Joined, Leading, TypeOK
<1>5. flightOn' = flightOn
  BY <1>1, <1>3, <1>4 DEF flightOn
<1>6. t \in landedNow /\ landedNow' = landedNow \ {t}
  <2>1. t \in landedNow
    BY <1>1 DEF landedNow
  <2>2. ASSUME NEW u \in Requests, u # t
        PROVE  (pc'[u] = "joined" /\ ~operations'[route'[u]].running)
                 <=> (pc[u] = "joined" /\ ~operations[route[u]].running)
    BY <1>1, <1>3, <2>2 DEF TypeOK
  <2>3. pc'[t] # "joined"
    BY <1>1 DEF TypeOK
  <2> QED BY <2>1, <2>2, <2>3 DEF landedNow
<1>7. ticketOf'[t] = Promise!NoTicket
  BY <1>1 DEF ticketOf, Leading, Promise!NoTicket, TypeOK
<1>8. ticketOf' = [ticketOf EXCEPT ![t] = Promise!NoTicket]
  BY <1>1, <1>7, OneTicketChanges DEF TypeOK
<1>9. Promise!Deliver(t)
  BY <1>5, <1>6, <1>8 DEF Promise!Deliver
<1> QED BY <1>9 DEF Promise!Next

\* A joined thread whose time is up before the landing leaves the flight.
LEMMA GivingUpMaps ==
  ASSUME TypeOK, FlightInv, NEW t \in Requests, TimeOutJoined(t), ~Finished(t)
  PROVE  Promise!Next
<1>0. PICK r \in Routes : r = route[t]
  BY DEF TypeOK
<1> DEFINE op == operations[r]
<1>1. /\ r = route[t] /\ UNCHANGED <<route, fp>> /\ op \in Operation
      /\ pc[t] = "joined" /\ op.running /\ op.generation = gen[t]
  BY <1>0 DEF TimeOutJoined, Finished, TypeOK, request, FlightInv, JoinersOwn
<1>2. /\ operations' = [operations EXCEPT ![r] = WithoutWaiter(op)]
      /\ pc' = [pc EXCEPT ![t] = "replying"]
  BY <1>1 DEF TimeOutJoined
<1>3. /\ operations'[r].running /\ operations'[r].fingerprint = op.fingerprint
      /\ \A q \in Routes : q # r => operations'[q] = operations[q]
  BY <1>1, <1>2 DEF WithoutWaiter, Operation, TypeOK
<1>4. \A q \in Routes : q # r => Leaders(q)' = Leaders(q) /\ Joined(q)' = Joined(q)
  BY <1>1, <1>2 DEF Leaders, Joined, Leading, TypeOK
<1>5. t \in Joined(r) /\ Leaders(r)' = Leaders(r) /\ Joined(r)' = Joined(r) \ {t}
  BY <1>1, <1>2 DEF Leaders, Joined, Leading, TypeOK
<1>6. flightOn[r] = [leaders |-> Leaders(r), aboard |-> Joined(r), config |-> {op.fingerprint}]
  BY <1>1 DEF flightOn
<1>7. flightOn' = [flightOn EXCEPT ![r].aboard = @ \ {t}]
  <2>1. flightOn' = [flightOn EXCEPT ![r] =
          [leaders |-> Leaders(r), aboard |-> Joined(r) \ {t}, config |-> {op.fingerprint}]]
    BY <1>3, <1>4, <1>5 DEF flightOn
  <2>2. [flightOn[r] EXCEPT !.aboard = @ \ {t}]
          = [leaders |-> Leaders(r), aboard |-> Joined(r) \ {t}, config |-> {op.fingerprint}]
    BY <1>6
  <2> QED BY <2>1, <2>2
<1>8. landedNow' = landedNow
  <2>1. ASSUME NEW u \in Requests, u # t
        PROVE  (pc'[u] = "joined" /\ ~operations'[route'[u]].running)
                 <=> (pc[u] = "joined" /\ ~operations[route[u]].running)
    BY <1>1, <1>2, <1>3, <2>1 DEF TypeOK
  <2>2. pc'[t] # "joined" /\ operations[route[t]].running
    BY <1>1, <1>2 DEF TypeOK
  <2> QED BY <2>1, <2>2 DEF landedNow
<1>9. ticketOf'[t] = Promise!NoTicket
  BY <1>2 DEF ticketOf, Leading, Promise!NoTicket, TypeOK
<1>10. ticketOf' = [ticketOf EXCEPT ![t] = Promise!NoTicket]
  BY <1>1, <1>2, <1>9, OneTicketChanges DEF TypeOK
<1>11. Promise!Leave(t)
  <2>1. t \in flightOn[r].aboard
    BY <1>5, <1>6
  <2> QED BY <1>7, <1>8, <1>10, <2>1 DEF Promise!Leave
<1> QED BY <1>11 DEF Promise!Next

\* Publishing lands the flight.
LEMMA PublishMaps ==
  ASSUME TypeOK, FlightInv, NEW t \in Requests, Publish(t)
  PROVE  Promise!Next
<1>0. PICK r \in Routes : r = route[t]
  BY DEF TypeOK
<1> DEFINE op == operations[r]
<1>1. /\ r = route[t] /\ UNCHANGED <<route, fp>> /\ op \in Operation
      /\ pc[t] \in Leading /\ pc[t] # "joined"
      /\ op.running /\ op.generation = gen[t]
  BY <1>0 DEF Publish, TypeOK, FlightInv, LeadersOwn, Leading
<1>2. /\ operations' = [operations EXCEPT ![r] = Settled(op, Published(t))]
      /\ pc' = [pc EXCEPT ![t] = "replying"]
  BY <1>1 DEF Publish, FinishOperation
<1>3. /\ ~operations'[r].running
      /\ \A q \in Routes : q # r => operations'[q] = operations[q]
  BY <1>1, <1>2 DEF Settled, NoOperation, Operation, TypeOK
<1>4. \A q \in Routes : q # r => Leaders(q)' = Leaders(q) /\ Joined(q)' = Joined(q)
  BY <1>1, <1>2 DEF Leaders, Joined, Leading, TypeOK
<1>5. Leaders(r) = {t}
  BY <1>1 DEF Leaders, FlightInv, OneLeader
<1>6. flightOn[r] = [leaders |-> {t}, aboard |-> Joined(r), config |-> {op.fingerprint}]
  BY <1>1, <1>5 DEF flightOn
<1>7. flightOn' = [flightOn EXCEPT ![r] = Promise!NoFlight]
  BY <1>3, <1>4 DEF flightOn, Promise!NoFlight
<1>8. landedNow' = landedNow \cup Joined(r)
  <2>1. ASSUME NEW u \in Requests, u # t
        PROVE  (pc'[u] = "joined" /\ ~operations'[route'[u]].running)
                 <=> (pc[u] = "joined" /\ (~operations[route[u]].running \/ route[u] = r))
    BY <1>1, <1>2, <1>3, <2>1 DEF TypeOK
  <2>2. pc'[t] # "joined"
    BY <1>2 DEF TypeOK
  <2> QED BY <1>1, <2>1, <2>2 DEF landedNow, Joined
<1>9. ticketOf'[t] = Promise!NoTicket
  BY <1>2 DEF ticketOf, Leading, Promise!NoTicket, TypeOK
<1>10. ticketOf' = [ticketOf EXCEPT ![t] = Promise!NoTicket]
  BY <1>1, <1>2, <1>9, OneTicketChanges DEF TypeOK
<1>11. Promise!Land(t)
  <2>1. flightOn[r].leaders = {t} /\ landedNow' = landedNow \cup flightOn[r].aboard
    BY <1>6, <1>8
  <2> QED BY <1>7, <1>10, <2>1 DEF Promise!Land
<1> QED BY <1>11 DEF Promise!Next

\* Every step of the server is a step of the promise or none.
LEMMA NextMaps ==
  ASSUME NumberedInv, NumberedInv', [Next]_vars
  PROVE  [Promise!Next]_(Promise!travel)
<1> USE DEF NumberedInv, Inv
<1>1. ASSUME NEW t \in Requests, Client(t)
      PROVE  [Promise!Next]_(Promise!travel)
  <2>1. CASE LoadConfig(t)
    BY <2>1, LoadConfigMaps
  <2>2. CASE HitCache(t) \/ TimeOutQueued(t)
    BY <2>2, SettleMaps
  <2>3. CASE MissCache(t) \/ RetryTurn(t)
    BY <2>3, TurnMaps
  <2>4. CASE Publish(t)
    BY <2>4, PublishMaps
  <2>5. CASE WakeJoined(t) \/ TimeOutJoined(t)
    <3>1. CASE WakeJoined(t) /\ ~Finished(t)
      <4>1. QuietStep /\ UNCHANGED <<pc, route, fp>>
        BY <3>1 DEF WakeJoined, QuietStep, environment, tables
      <4> QED BY <4>1, QuietFlights, SameTickets DEF Promise!travel
    <3> QED BY <2>5, <3>1, CollectMaps, GivingUpMaps
  <2> QED BY <1>1, <2>1, <2>2, <2>3, <2>4, <2>5, StutterMaps DEF Client
<1> QED BY <1>1, StutterMaps DEF Next, Halted

\* serve.c implements the shared flights of SharedFetch, whatever the number of
\* clients, routes, configurations and edits.
THEOREM Refinement == Spec => ImplementsSharedFetch
BY InitMaps, NextMaps, NumberedInvariance, PTL DEF Spec, ImplementsSharedFetch, Promise!Spec
=============================================================================
