--------------------------- MODULE RuntimeProofs ---------------------------
(***************************************************************************)
(* Proofs of the properties of Runtime, for every set of workers, every    *)
(* number of configurations, accounts and rows, and every rate limit.      *)
(***************************************************************************)
EXTENDS Runtime, TLAPS, SequenceTheorems

Publishing == {"status", "hook", "failure", "low", "warn", "session"}

\* Configurations only grow, so what was read between two equal digests is theirs.
FetchInv ==
  \A w \in Workers :
    /\ ~At(w, "load") => fetch[w].digest \in Configs /\ fetch[w].digest <= config
    /\ At(w, "check") => /\ fetch[w].read \in Configs
                         /\ fetch[w].digest <= fetch[w].read /\ fetch[w].read <= config
    /\ fetch[w].step \in Publishing => fetch[w].read = fetch[w].digest

\* Until the last row is published there is one in turn.
RowInv ==
  \A w \in Workers : fetch[w].step \in Publishing \cup {"check"} => fetch[w].rows # <<>>

\* Without a mixture, every refresh that has reconciled works under the runtime's digest.
MixInv ==
  ~mixed => \A w \in Workers : fetch[w].step \notin {"load", "reconcile"} => fetch[w].digest = digest

\* The streak of failures of a lane tells what was published last of it.
Tells(state, last) ==
  /\ last = "none" <=> state.streak = 0 /\ ~state.succeeded
  /\ last = "ok" <=> state.streak = 0 /\ state.succeeded
TrailInv == \A lane \in Lanes : Tells(failures[lane], trail[lane])

ToldInv == told = lastFired

Inv == TypeOK /\ FetchInv /\ RowInv /\ MixInv /\ BelongsUnlessMixed /\ TrailInv /\ ToldInv

----------------------------------------------------------------------------
\* The names of a row give a lane and an event that is limited.
LEMMA RowNames ==
  /\ \A row \in Rows : Lane(row) \in Lanes /\ FailureOf(row) \in Limited
  /\ Unavailable \in Limited /\ Recovered \notin Limited /\ Nothing \notin Limited
  /\ Recovered # Nothing
<1>1. \A row \in Rows : Lane(row) \in Lanes
  BY DEF Rows, Lane, Lanes
<1>2. \A row \in Rows : FailureOf(row) \in Limited
  BY DEF Rows, FailureOf, Limited
<1>. QED
  BY <1>1, <1>2 DEF Limited, Unavailable, Recovered, Nothing

\* A snapshot is a sequence of rows that is not empty.
LEMMA SnapshotRows ==
  ASSUME NEW rows \in Snapshots PROVE rows \in Seq(Rows) /\ rows # <<>>
<1>1. PICK n \in 1..MaxRows : rows \in [1..n -> Rows]
  BY DEF Snapshots
<1>2. n \in Nat /\ n >= 1
  BY RuntimeAssumption
<1>. QED
  BY <1>1, <1>2

\* A lane of which nothing is known.
LEMMA NothingKnown ==
  /\ NoFailures \in [Lanes -> Failures] /\ NoUsage \in [Lanes -> SUBSET Configs]
  /\ NoTrail \in [Lanes -> {"none", "ok", "error"}]
  /\ \A lane \in Lanes : /\ NoFailures[lane].from = {} /\ NoUsage[lane] = {}
                          /\ Tells(NoFailures[lane], NoTrail[lane])
BY DEF NoFailures, NoUsage, NoTrail, Failures, Tells

\* A new runtime (codexbar_runtime_new) satisfies the invariant.
LEMMA InitInv ==
  ASSUME Init PROVE Inv
<1>1. FirstConfig \in Configs /\ NoDigest \in Digests
  BY RuntimeAssumption DEF Configs, Digests
<1>2. Resting \in Fetch
  BY <1>1 DEF Resting, Fetch, Steps, Statuses
<1>3. TypeOK
  <2>1. config \in Configs /\ digest \in Digests /\ now \in Nat \ {0}
    BY <1>1 DEF Init
  <2>2. /\ failures \in [Lanes -> Failures] /\ usage \in [Lanes -> SUBSET Configs]
        /\ trail \in [Lanes -> {"none", "ok", "error"}]
    BY NothingKnown DEF Init
  <2>3. fetch \in [Workers -> Fetch]
    BY <1>2 DEF Init
  <2>4. lastFired \in [Limited -> Nat] /\ told \in [Limited -> Nat]
    BY DEF Init
  <2>. QED
    BY <2>1, <2>2, <2>3, <2>4 DEF Init, TypeOK
<1>4. \A w \in Workers : At(w, "load")
  BY DEF Init, At, Resting
<1>5. FetchInv /\ RowInv /\ MixInv
  BY <1>4 DEF FetchInv, RowInv, MixInv, At, Publishing
<1>6. BelongsUnlessMixed /\ TrailInv /\ ToldInv
  BY NothingKnown DEF Init, BelongsUnlessMixed, StateBelongsToConfig, TrailInv, ToldInv
<1>. QED
  BY <1>3, <1>5, <1>6 DEF Inv

----------------------------------------------------------------------------
(* Types *)

\* Every way to change the entry of a worker yields an entry.
LEMMA FetchTypes ==
  ASSUME TypeOK, NEW w \in Workers
  PROVE  /\ \A step \in Steps : GoTo(w, step) => fetch' \in [Workers -> Fetch]
         /\ Return(w) => fetch' \in [Workers -> Fetch]
         /\ fetch[w].rows # <<>> /\ Advance(w) => fetch' \in [Workers -> Fetch]
         /\ [Resting EXCEPT !.step = "reconcile", !.digest = config] \in Fetch
<1>1. NoDigest \in Digests /\ config \in Digests /\ fetch \in [Workers -> Fetch]
  BY DEF TypeOK, Digests
<1>2. Resting \in Fetch
  BY <1>1 DEF Resting, Fetch, Steps, Statuses
<1>3. [Resting EXCEPT !.step = "reconcile", !.digest = config] \in Fetch
  BY <1>1, <1>2 DEF Fetch, Steps
<1>4. ASSUME NEW step \in Steps, GoTo(w, step) PROVE fetch' \in [Workers -> Fetch]
  BY <1>1, <1>4 DEF GoTo, Fetch
<1>5. ASSUME Return(w) PROVE fetch' \in [Workers -> Fetch]
  BY <1>1, <1>2, <1>5 DEF Return
<1>6. ASSUME fetch[w].rows # <<>>, Advance(w) PROVE fetch' \in [Workers -> Fetch]
  <2>1. Tail(fetch[w].rows) \in Seq(Rows)
    BY <1>1, <1>6 DEF Fetch
  <2>. DEFINE e == [fetch[w] EXCEPT !.step = "failure", !.rows = Tail(@)]
  <2>2. e \in Fetch
    BY <1>1, <2>1 DEF Fetch, Steps
  <2>3. CASE Len(fetch[w].rows) = 1
    BY <1>5, <1>6, <2>3 DEF Advance
  <2>4. CASE Len(fetch[w].rows) # 1
    <3>1. fetch' = [fetch EXCEPT ![w] = e]
      BY <1>6, <2>4 DEF Advance
    <3>. QED
      BY <1>1, <2>2, <3>1
  <2>. QED
    BY <2>3, <2>4
<1>. QED
  BY <1>3, <1>4, <1>5, <1>6

\* After a row that is not the last one there is another.
LEMMA RowsLeft ==
  ASSUME NEW rows \in Seq(Rows), rows # <<>>, Len(rows) # 1
  PROVE  Tail(rows) \in Seq(Rows) /\ Tail(rows) # <<>>
<1>1. Tail(rows) \in Seq(Rows) /\ Len(Tail(rows)) = Len(rows) - 1
  BY HeadTailProperties
<1>2. Len(rows) \in Nat /\ Len(rows) # 0
  BY EmptySeq
<1>3. Len(Tail(rows)) # 0
  BY <1>1, <1>2
<1>. QED
  BY <1>1, <1>3, EmptySeq

\* The row in turn is one of the snapshot.
LEMMA RowInTurn ==
  ASSUME TypeOK, RowInv, NEW w \in Workers, fetch[w].step \in Publishing
  PROVE  Row(w) \in Rows /\ Lane(Row(w)) \in Lanes /\ FailureOf(Row(w)) \in Limited
<1>1. fetch[w].rows \in Seq(Rows) /\ fetch[w].rows # <<>>
  BY DEF TypeOK, RowInv, Fetch
<1>. QED
  BY <1>1, RowNames DEF Row

\* Dispatching an event, or none, keeps the times of the rate limit typed.
LEMMA TellTypes ==
  ASSUME TypeOK
  PROVE  /\ \A e \in Limited : /\ FiredAt(e) \in [Limited -> Nat]
                               /\ Tell(e) => /\ event' \in Limited /\ told' \in [Limited -> Nat]
                                             /\ told' = [told EXCEPT ![e] = now]
         /\ Tell(Recovered) => event' = Recovered /\ told' = told
         /\ TellNothing => event' = Nothing /\ told' = told
<1>1. lastFired \in [Limited -> Nat] /\ told \in [Limited -> Nat] /\ now \in Nat
  BY DEF TypeOK
<1>. QED
  BY <1>1, RowNames DEF FiredAt, Tell, TellNothing

\* What is remembered of a lane is replaced by a record of the same kind.
LEMMA FailureTypes ==
  ASSUME failures \in [Lanes -> Failures], NEW lane \in Lanes, NEW from \in SUBSET Configs
  PROVE  /\ AfterSuccess(lane, from) \in [Lanes -> Failures]
         /\ AfterFailure(lane, from) \in [Lanes -> Failures]
<1>1. /\ failures[lane].streak \in 0..2 /\ failures[lane].succeeded \in BOOLEAN
      /\ failures[lane].from \in SUBSET Configs
  BY DEF Failures
<1>2. failures[lane].from \cup from \in SUBSET Configs
  BY <1>1
<1>3. [streak |-> 0, succeeded |-> TRUE, from |-> failures[lane].from \cup from] \in Failures
  BY <1>2 DEF Failures
<1>4. [streak |-> IF failures[lane].streak = 0 THEN 1 ELSE 2,
       succeeded |-> failures[lane].succeeded, from |-> failures[lane].from \cup from] \in Failures
  BY <1>1, <1>2 DEF Failures
<1>. QED
  BY <1>3, <1>4 DEF AfterSuccess, AfterFailure

\* Every step of a refresh keeps the types.
LEMMA NextTypes ==
  ASSUME TypeOK, FetchInv, RowInv, Next PROVE TypeOK'
<1>. USE DEF TypeOK
<1>0. \A w \in Workers : fetch[w].step \in Publishing =>
        fetch[w].digest \in Configs /\ fetch[w].read \in Configs
  BY DEF FetchInv, At, Publishing
<1>1. CASE Edit
  <2>1. config' \in Configs
    BY <1>1, RuntimeAssumption DEF Edit, Configs
  <2>. QED
    BY <1>1, <2>1 DEF Edit, tables, status, history
<1>2. CASE Tick
  <2>1. now' \in Nat \ {0}
    BY <1>2 DEF Tick
  <2>. QED
    BY <1>2, <2>1 DEF Tick, tables, status, history
<1>3. ASSUME NEW w \in Workers, Load(w) PROVE TypeOK'
  <2>1. fetch' \in [Workers -> Fetch]
    BY <1>3, FetchTypes DEF Load
  <2>. QED
    BY <1>3, <2>1 DEF Load, tables, status, history
<1>4. ASSUME NEW w \in Workers, Reconcile(w) PROVE TypeOK'
  <2>1. fetch' \in [Workers -> Fetch]
    BY <1>4, FetchTypes DEF Reconcile, Steps
  <2>2. digest' \in Digests
    BY <1>4 DEF Reconcile, Fetch
  <2>4. /\ lastGood' \subseteq Configs /\ sensed' \subseteq Configs /\ sessions' \subseteq Configs
        /\ failures' \in [Lanes -> Failures]
        /\ trail' \in [Lanes -> {"none", "ok", "error"}]
    BY <1>4, NothingKnown DEF Reconcile
  <2>5. usage' \in [Lanes -> SUBSET Configs] /\ mixed' \in BOOLEAN
    BY <1>4, NothingKnown DEF Reconcile
  <2>. QED
    BY <1>4, <2>1, <2>2, <2>4, <2>5 DEF Reconcile, status
<1>5. ASSUME NEW w \in Workers, FetchUsage(w) \/ NoSnapshot(w) \/ Check(w) PROVE TypeOK'
  <2>1. fetch' \in [Workers -> Fetch]
    <3>1. CASE FetchUsage(w)
      <4>1. config \in Digests
        BY DEF Digests
      <4>2. PICK rows \in Snapshots :
              fetch' = [fetch EXCEPT ![w].step = "check", ![w].read = config, ![w].rows = rows]
        BY <3>1 DEF FetchUsage
      <4>. QED
        <5>. DEFINE e == [fetch[w] EXCEPT !.step = "check", !.read = config, !.rows = rows]
        <5>1. e \in Fetch
          BY <4>1, SnapshotRows DEF Fetch, Steps
        <5>2. fetch' = [fetch EXCEPT ![w] = e]
          BY <4>2
        <5>. QED
          BY <5>1, <5>2
    <3>2. CASE NoSnapshot(w) \/ Check(w)
      BY <3>2, FetchTypes DEF NoSnapshot, Check, Steps
    <3>. QED
      BY <1>5, <3>1, <3>2
  <2>. QED
    BY <1>5, <2>1 DEF FetchUsage, NoSnapshot, Check, tables, status, history
<1>6. ASSUME NEW w \in Workers, PublishStatus(w) PROVE TypeOK'
  <2>1. fetch' \in [Workers -> Fetch]
    <3>1. PICK f \in Statuses : fetch' = [fetch EXCEPT ![w].step = "hook", ![w].fresh = f]
      BY <1>6 DEF PublishStatus
    <3>. QED
      BY ZenonT(60), <3>1 DEF Fetch, Steps
  <2>2. lastGood' \subseteq Configs
    BY <1>0, <1>6 DEF PublishStatus, At, Publishing
  <2>. QED
    BY <1>6, <2>1, <2>2 DEF PublishStatus, status, history
<1>7. ASSUME NEW w \in Workers, StatusHook(w) PROVE TypeOK'
  <2>1. fetch' \in [Workers -> Fetch]
    BY ZenonT(60), <1>7 DEF StatusHook, Fetch, Steps, Statuses
  <2>2. outage' \in BOOLEAN
    BY <1>7 DEF StatusHook
  <2>3. lastFired' \in [Limited -> Nat]
    BY <1>7, TellTypes, RowNames DEF StatusHook
  <2>4. event' \in Limited \cup {Recovered, Nothing} /\ told' \in [Limited -> Nat]
    BY <1>7, TellTypes, RowNames DEF StatusHook
  <2>. QED
    BY <1>7, <2>1, <2>2, <2>3, <2>4 DEF StatusHook, tables
<1>8. ASSUME NEW w \in Workers, ReportSuccess(w) PROVE TypeOK'
  <2>1. fetch' \in [Workers -> Fetch]
    BY <1>8, FetchTypes DEF ReportSuccess, Steps
  <2>2. /\ failures' \in [Lanes -> Failures]
        /\ trail' \in [Lanes -> {"none", "ok", "error"}]
    <3>1. fetch[w].read \in Configs /\ Lane(Row(w)) \in Lanes
      BY <1>0, <1>8, RowInTurn DEF ReportSuccess, At, Publishing
    <3>2. AfterSuccess(Lane(Row(w)), {fetch[w].read}) \in [Lanes -> Failures]
      BY <3>1, FailureTypes
    <3>. QED
      BY <1>8, <3>2 DEF ReportSuccess
  <2>. QED
    BY <1>8, <2>1, <2>2, TellTypes DEF ReportSuccess, status
<1>9. ASSUME NEW w \in Workers, ReportFailure(w) PROVE TypeOK'
  <2>1. fetch' \in [Workers -> Fetch]
    <3>1. fetch[w].rows # <<>>
      BY <1>9 DEF RowInv, ReportFailure, At, Publishing
    <3>. QED
      BY <1>9, <3>1, FetchTypes DEF ReportFailure
  <2>2. /\ failures' \in [Lanes -> Failures]
        /\ trail' \in [Lanes -> {"none", "ok", "error"}]
    <3>1. fetch[w].read \in Configs /\ Lane(Row(w)) \in Lanes
      BY <1>0, <1>9, RowInTurn DEF ReportFailure, At, Publishing
    <3>2. AfterFailure(Lane(Row(w)), {fetch[w].read}) \in [Lanes -> Failures]
      BY <3>1, FailureTypes
    <3>. QED
      BY <1>9, <3>2 DEF ReportFailure
  <2>3. /\ lastFired' \in [Limited -> Nat] /\ told' \in [Limited -> Nat]
        /\ event' \in Limited \cup {Recovered, Nothing}
    <3>1. FailureOf(Row(w)) \in Limited
      BY <1>9, RowInTurn DEF ReportFailure, At, Publishing
    <3>. QED
      BY <1>9, <3>1, TellTypes DEF ReportFailure
  <2>. QED
    BY <1>9, <2>1, <2>2, <2>3 DEF ReportFailure
<1>10. ASSUME NEW w \in Workers, ObserveUsage(w) \/ ObserveWarning(w) \/ ObserveSession(w)
       PROVE TypeOK'
  <2>1. fetch' \in [Workers -> Fetch]
    <3>1. ObserveSession(w) => fetch[w].rows # <<>>
      BY DEF RowInv, ObserveSession, At, Publishing
    <3>. QED
      BY <1>10, <3>1, FetchTypes DEF ObserveUsage, ObserveWarning, ObserveSession, Steps
  <2>2. fetch[w].read \in Configs
    BY <1>0, <1>10 DEF ObserveUsage, ObserveWarning, ObserveSession, At, Publishing
  <2>3. usage' \in [Lanes -> SUBSET Configs] /\ sensed' \subseteq Configs /\ sessions' \subseteq Configs
    BY <1>10, <2>2 DEF ObserveUsage, ObserveWarning, ObserveSession
  <2>. QED
    BY <1>10, <2>1, <2>3, TellTypes DEF ObserveUsage, ObserveWarning, ObserveSession, status
<1>. QED
  BY <1>1, <1>2, <1>3, <1>4, <1>5, <1>6, <1>7, <1>8, <1>9, <1>10 DEF Next

----------------------------------------------------------------------------
(* The configurations of refreshes *)

\* How the entry of a worker may change.
Moves(w, e) ==
  \/ At(w, "load") /\ e.step = "reconcile" /\ e.digest = config
  \/ e.step = "load"
  \/ At(w, "reconcile") /\ e.step = "fetch" /\ e.digest = fetch[w].digest
  \/ At(w, "fetch") /\ e.step = "check" /\ e.digest = fetch[w].digest /\ e.read = config /\ e.rows # <<>>
  \/ /\ At(w, "check") /\ e.step = "status" /\ e.digest = fetch[w].digest
     /\ e.read = fetch[w].read /\ e.digest = config /\ e.rows # <<>>
  \/ /\ fetch[w].step \in Publishing /\ e.step \in Publishing
     /\ e.digest = fetch[w].digest /\ e.read = fetch[w].read /\ e.rows # <<>>

\* How a step changes what the refreshes work with.
LEMMA StepFacts ==
  ASSUME TypeOK, RowInv, Next
  PROVE  \/ fetch' = fetch /\ config' \in {config, config + 1}
         \/ config' = config /\ \E w \in Workers : \E e \in Fetch :
              fetch' = [fetch EXCEPT ![w] = e] /\ Moves(w, e)
<1>. USE DEF TypeOK
<1>0. Resting \in Fetch /\ Resting.step = "load"
  BY DEF Resting, Fetch, Steps, Statuses, Digests
<1>1. CASE Edit
  BY <1>1 DEF Edit, tables, history
<1>2. CASE Tick
  BY <1>2 DEF Tick, tables, history
<1>3. ASSUME NEW w \in Workers, Load(w)
      PROVE  /\ config' = config
             /\ \E e \in Fetch : /\ fetch' = [fetch EXCEPT ![w] = e]
                                /\ At(w, "load") /\ e.step = "reconcile" /\ e.digest = config
  <2>1. [Resting EXCEPT !.step = "reconcile", !.digest = config] \in Fetch
    BY FetchTypes
  <2>2. /\ [Resting EXCEPT !.step = "reconcile", !.digest = config].step = "reconcile"
        /\ [Resting EXCEPT !.step = "reconcile", !.digest = config].digest = config
    BY DEF Resting
  <2>. QED
    BY <1>3, <2>1, <2>2 DEF Load
<1>4. ASSUME NEW w \in Workers, NEW next \in Steps, GoTo(w, next)
      PROVE  \E e \in Fetch : /\ fetch' = [fetch EXCEPT ![w] = e] /\ e.step = next
                              /\ e.digest = fetch[w].digest /\ e.read = fetch[w].read
                              /\ e.rows = fetch[w].rows
  <2>. DEFINE e == [fetch[w] EXCEPT !.step = next]
  <2>1. /\ e \in Fetch /\ e.step = next /\ e.digest = fetch[w].digest /\ e.read = fetch[w].read
        /\ e.rows = fetch[w].rows
    BY DEF Fetch
  <2>2. fetch' = [fetch EXCEPT ![w] = e]
    BY <1>4 DEF GoTo
  <2>. QED
    BY <2>1, <2>2
<1>5. ASSUME NEW w \in Workers, Reconcile(w)
      PROVE  /\ config' = config
             /\ \E e \in Fetch : /\ fetch' = [fetch EXCEPT ![w] = e]
                                /\ At(w, "reconcile") /\ e.step = "fetch" /\ e.digest = fetch[w].digest
  BY <1>4, <1>5 DEF Reconcile, Steps
<1>6. ASSUME NEW w \in Workers, FetchUsage(w)
      PROVE  /\ config' = config
             /\ \E e \in Fetch : /\ fetch' = [fetch EXCEPT ![w] = e] /\ At(w, "fetch")
                                /\ e.step = "check" /\ e.digest = fetch[w].digest /\ e.read = config
                                /\ e.rows # <<>>
  <2>1. PICK rows \in Snapshots :
          fetch' = [fetch EXCEPT ![w].step = "check", ![w].read = config, ![w].rows = rows]
    BY <1>6 DEF FetchUsage
  <2>. DEFINE e == [fetch[w] EXCEPT !.step = "check", !.read = config, !.rows = rows]
  <2>2. e \in Fetch /\ e.step = "check" /\ e.digest = fetch[w].digest /\ e.read = config /\ e.rows # <<>>
    BY SnapshotRows DEF Fetch, Steps, Digests
  <2>3. fetch' = [fetch EXCEPT ![w] = e]
    BY <2>1
  <2>. QED
    BY <1>6, <2>2, <2>3 DEF FetchUsage
<1>7. ASSUME NEW w \in Workers, NoSnapshot(w)
      PROVE  config' = config /\ \E e \in Fetch : fetch' = [fetch EXCEPT ![w] = e] /\ e.step = "load"
  BY <1>0, <1>7 DEF NoSnapshot, Return
<1>8. ASSUME NEW w \in Workers, Check(w)
      PROVE  /\ config' = config
             /\ \E e \in Fetch :
                  /\ fetch' = [fetch EXCEPT ![w] = e]
                  /\ \/ e.step = "load"
                     \/ /\ At(w, "check") /\ e.step = "status" /\ e.digest = fetch[w].digest
                        /\ e.read = fetch[w].read /\ e.digest = config /\ e.rows # <<>>
  <2>1. fetch[w].rows # <<>>
    BY <1>8 DEF RowInv, Check, At
  <2>. QED
    BY <1>0, <1>4, <1>8, <2>1 DEF Check, IsCurrent, Return, Steps
<1>9. ASSUME NEW w \in Workers, \/ PublishStatus(w) \/ StatusHook(w) \/ ReportSuccess(w)
                               \/ ObserveUsage(w) \/ ObserveWarning(w)
      PROVE  /\ config' = config
             /\ \E e \in Fetch : /\ fetch' = [fetch EXCEPT ![w] = e]
                                /\ fetch[w].step \in Publishing /\ e.step \in Publishing
                                /\ e.digest = fetch[w].digest /\ e.read = fetch[w].read
                                /\ e.rows # <<>>
  <2>0. fetch[w].rows # <<>>
    BY <1>9 DEF RowInv, Publishing, At, PublishStatus, StatusHook, ReportSuccess, ObserveUsage, ObserveWarning
  <2>1. CASE PublishStatus(w)
    <3>1. PICK f \in Statuses : fetch' = [fetch EXCEPT ![w].step = "hook", ![w].fresh = f]
      BY <2>1 DEF PublishStatus
    <3>. DEFINE e == [fetch[w] EXCEPT !.step = "hook", !.fresh = f]
    <3>2. /\ e \in Fetch /\ e.step = "hook" /\ e.digest = fetch[w].digest /\ e.read = fetch[w].read
          /\ fetch' = [fetch EXCEPT ![w] = e] /\ e.rows = fetch[w].rows
      BY <3>1 DEF Fetch, Steps
    <3>. QED
      BY <2>0, <2>1, <3>2 DEF PublishStatus, At, Publishing
  <2>2. CASE StatusHook(w)
    <3>. DEFINE e == [fetch[w] EXCEPT !.step = "failure", !.fresh = "failed"]
    <3>1. /\ e \in Fetch /\ e.step = "failure" /\ e.digest = fetch[w].digest /\ e.read = fetch[w].read
          /\ fetch' = [fetch EXCEPT ![w] = e] /\ e.rows = fetch[w].rows
      BY <2>2 DEF StatusHook, Fetch, Steps, Statuses
    <3>. QED
      BY <2>0, <2>2, <3>1 DEF StatusHook, At, Publishing
  <2>3. CASE ReportSuccess(w)
    BY <1>4, <2>0, <2>3 DEF ReportSuccess, At, Publishing, Steps
  <2>4. CASE ObserveUsage(w) \/ ObserveWarning(w)
    BY <1>4, <2>0, <2>4 DEF ObserveUsage, ObserveWarning, At, Publishing, Steps
  <2>. QED
    BY <1>9, <2>1, <2>2, <2>3, <2>4
<1>10. ASSUME NEW w \in Workers, ReportFailure(w) \/ ObserveSession(w)
       PROVE  /\ config' = config
              /\ \E e \in Fetch :
                   /\ fetch' = [fetch EXCEPT ![w] = e]
                   /\ \/ e.step = "load"
                      \/ /\ fetch[w].step \in Publishing /\ e.step \in Publishing
                         /\ e.digest = fetch[w].digest /\ e.read = fetch[w].read
                         /\ e.rows # <<>>
  <2>1. /\ fetch[w].step \in Publishing /\ Advance(w) /\ config' = config
        /\ fetch[w].rows # <<>> /\ fetch[w].rows \in Seq(Rows)
    BY <1>10 DEF ReportFailure, ObserveSession, RowInv, At, Publishing, Fetch
  <2>2. CASE Len(fetch[w].rows) = 1
    BY <1>0, <2>1, <2>2 DEF Advance, Return
  <2>3. CASE Len(fetch[w].rows) # 1
    <3>. DEFINE e == [fetch[w] EXCEPT !.step = "failure", !.rows = Tail(@)]
    <3>1. Tail(fetch[w].rows) \in Seq(Rows) /\ Tail(fetch[w].rows) # <<>>
      BY <2>1, <2>3, RowsLeft
    <3>2. /\ e \in Fetch /\ e.step = "failure" /\ e.digest = fetch[w].digest
          /\ e.read = fetch[w].read /\ e.rows # <<>>
      BY <3>1 DEF Fetch, Steps
    <3>3. fetch' = [fetch EXCEPT ![w] = e]
      BY <2>1, <2>3 DEF Advance
    <3>. QED
      BY <2>1, <3>2, <3>3 DEF Publishing
  <2>. QED
    BY <2>2, <2>3
<1>. QED
  BY <1>1, <1>2, <1>3, <1>5, <1>6, <1>7, <1>8, <1>9, <1>10 DEF Next, Moves

\* What a refresh works with is of configurations that were on disk in this order.
LEMMA FetchInvStep ==
  ASSUME TypeOK, FetchInv, RowInv, Next PROVE FetchInv'
<1>1. config \in Nat /\ config \in Configs /\ Configs \subseteq Nat /\ fetch \in [Workers -> Fetch]
  BY RuntimeAssumption DEF TypeOK, Configs
<1>2. \A w \in Workers :
        /\ fetch[w].step # "load" => fetch[w].digest \in Configs /\ fetch[w].digest <= config
        /\ fetch[w].step = "check" => /\ fetch[w].read \in Configs
                                     /\ fetch[w].digest <= fetch[w].read /\ fetch[w].read <= config
        /\ fetch[w].step \in Publishing => fetch[w].read = fetch[w].digest
  BY DEF FetchInv, At
<1>3. CASE UNCHANGED fetch /\ config' \in {config, config + 1}
  <2>. SUFFICES ASSUME NEW w \in Workers
                PROVE  /\ fetch[w].step # "load" => fetch[w].digest \in Configs /\ fetch[w].digest <= config'
                       /\ fetch[w].step = "check" =>
                            /\ fetch[w].read \in Configs
                            /\ fetch[w].digest <= fetch[w].read /\ fetch[w].read <= config'
                       /\ fetch[w].step \in Publishing => fetch[w].read = fetch[w].digest
    BY <1>3 DEF FetchInv, At
  <2>1. config <= config'
    BY <1>1, <1>3
  <2>2. config' \in Nat
    BY <1>1, <1>3
  <2>3. /\ fetch[w].step # "load" => fetch[w].digest \in Configs /\ fetch[w].digest <= config
        /\ fetch[w].step = "check" => /\ fetch[w].read \in Configs
                                     /\ fetch[w].digest <= fetch[w].read /\ fetch[w].read <= config
        /\ fetch[w].step \in Publishing => fetch[w].read = fetch[w].digest
    BY <1>2
  <2>4. \A c \in Configs : c <= config => c <= config'
    BY <1>1, <2>1, <2>2
  <2>. QED
    BY <2>3, <2>4
<1>4. ASSUME config' = config, NEW w \in Workers, NEW e \in Fetch, fetch' = [fetch EXCEPT ![w] = e],
             Moves(w, e)
      PROVE  FetchInv'
  <2>1. /\ e.step # "load" => e.digest \in Configs /\ e.digest <= config
        /\ e.step = "check" => e.read \in Configs /\ e.digest <= e.read /\ e.read <= config
        /\ e.step \in Publishing => e.read = e.digest
    <3>1. CASE At(w, "load") /\ e.step = "reconcile" /\ e.digest = config
      BY <1>1, <3>1 DEF Publishing
    <3>2. CASE e.step = "load"
      BY <3>2 DEF Publishing
    <3>3. CASE At(w, "reconcile") /\ e.step = "fetch" /\ e.digest = fetch[w].digest
      BY <1>2, <3>3 DEF At, Publishing
    <3>4. CASE At(w, "fetch") /\ e.step = "check" /\ e.digest = fetch[w].digest /\ e.read = config
      BY <1>1, <1>2, <3>4 DEF At, Publishing
    <3>5. CASE /\ At(w, "check") /\ e.step = "status" /\ e.digest = fetch[w].digest
               /\ e.read = fetch[w].read /\ e.digest = config
      <4>1. e.digest \in Nat /\ e.read \in Nat /\ e.digest <= e.read /\ e.read <= config /\ e.digest \in Configs
        BY <1>1, <1>2, <3>5 DEF At
      <4>. QED
        BY <1>1, <3>5, <4>1
    <3>6. CASE /\ fetch[w].step \in Publishing /\ e.step \in Publishing
               /\ e.digest = fetch[w].digest /\ e.read = fetch[w].read
      <4>1. fetch[w].step # "load" /\ e.step # "check"
        BY <3>6 DEF Publishing
      <4>. QED
        BY <1>2, <3>6, <4>1
    <3>. QED
      BY <1>4, <3>1, <3>2, <3>3, <3>4, <3>5, <3>6 DEF Moves
  <2>2. \A v \in Workers : fetch'[v] = IF v = w THEN e ELSE fetch[v]
    BY <1>1, <1>4
  <2>. QED
    BY <1>2, <1>4, <2>1, <2>2 DEF FetchInv, At
<1>. QED
  BY <1>3, <1>4, StepFacts

\* A snapshot's rows run out when the refresh ends.
LEMMA RowInvStep ==
  ASSUME TypeOK, RowInv, Next PROVE RowInv'
<1>1. fetch \in [Workers -> Fetch]
  BY DEF TypeOK
<1>2. CASE fetch' = fetch
  BY <1>2 DEF RowInv
<1>3. ASSUME NEW w \in Workers, NEW e \in Fetch, fetch' = [fetch EXCEPT ![w] = e], Moves(w, e)
      PROVE  RowInv'
  <2>1. e.step \in Publishing \cup {"check"} => e.rows # <<>>
    BY <1>3 DEF Moves, Publishing
  <2>2. \A v \in Workers : fetch'[v] = IF v = w THEN e ELSE fetch[v]
    BY <1>1, <1>3
  <2>. QED
    BY <2>1, <2>2 DEF RowInv
<1>. QED
  BY <1>2, <1>3, StepFacts

\* Only Reconcile changes the digest or notes a mixture.
LEMMA MixInvStep ==
  ASSUME TypeOK, RowInv, MixInv, Next PROVE MixInv'
<1>1. fetch \in [Workers -> Fetch]
  BY DEF TypeOK
<1>2. ASSUME NEW w \in Workers, Reconcile(w) PROVE MixInv'
  <2>. SUFFICES ASSUME ~mixed', NEW v \in Workers, fetch'[v].step \notin {"load", "reconcile"}
                PROVE  fetch'[v].digest = digest'
    BY DEF MixInv
  <2>1. digest' = fetch[w].digest /\ fetch'[v].digest = fetch[v].digest
    BY <1>1, <1>2 DEF Reconcile, GoTo, Fetch
  <2>2. CASE v = w
    BY <2>1, <2>2
  <2>3. CASE v # w
    <3>1. fetch'[v] = fetch[v]
      BY <1>1, <1>2, <2>3 DEF Reconcile, GoTo
    <3>2. ~At(v, "load")
      BY <3>1 DEF At
    <3>. QED
      BY <1>2, <2>1, <3>2 DEF Reconcile
  <2>. QED
    BY <2>2, <2>3
<1>3. CASE ~ \E w \in Workers : Reconcile(w)
  <2>1. digest' = digest /\ mixed' = mixed
    BY <1>3 DEF Next, Edit, Tick, Load, FetchUsage, NoSnapshot, Check, PublishStatus, StatusHook,
           ReportSuccess, ReportFailure, ObserveUsage, ObserveWarning, ObserveSession, tables, history
  <2>. SUFFICES ASSUME ~mixed, NEW v \in Workers, fetch'[v].step \notin {"load", "reconcile"}
                PROVE  fetch'[v].digest = digest
    BY <2>1 DEF MixInv
  <2>2. CASE fetch'[v] = fetch[v]
    BY <2>2 DEF MixInv
  <2>3. CASE fetch'[v] # fetch[v]
    <3>1. PICK e \in Fetch : fetch' = [fetch EXCEPT ![v] = e] /\ Moves(v, e)
      BY <1>1, <2>3, StepFacts
    <3>2. fetch'[v] = e
      BY <1>1, <3>1
    <3>3. ~At(v, "reconcile")
      <4>1. ASSUME At(v, "reconcile") PROVE e.step = "load" \/ e.step = "fetch"
        BY <3>1, <4>1 DEF At, Moves, Publishing
      <4>2. ASSUME At(v, "reconcile"), e.step = "fetch" PROVE FALSE
        BY ZenonT(60), <1>1, <1>3, <2>3, <3>1, <3>2, <4>2
           DEF Next, Edit, Tick, Load, FetchUsage, NoSnapshot, Check, PublishStatus, StatusHook, ReportSuccess,
               ReportFailure, ObserveUsage, ObserveWarning, ObserveSession, Advance, At, GoTo, Return
      <4>. QED
        BY <3>2, <4>1, <4>2
    <3>4. e.digest = fetch[v].digest /\ fetch[v].step \notin {"load", "reconcile"}
      BY <3>1, <3>2, <3>3 DEF At, Moves, Publishing
    <3>. QED
      BY <3>2, <3>4 DEF MixInv
  <2>. QED
    BY <2>2, <2>3
<1>. QED
  BY <1>2, <1>3

\* Without a mixture a step adds only data of the runtime's configuration.
LEMMA BelongsStep ==
  ASSUME Inv, Next PROVE BelongsUnlessMixed'
<1>. DEFINE Common == lastGood \cup sensed \cup sessions
            Own(lane) == usage[lane] \cup failures[lane].from
            All(set) == Common \subseteq set /\ \A lane \in Lanes : Own(lane) \subseteq set
<1>1. TypeOK /\ All(Configs) /\ NoDigest \notin Configs /\ (mixed \/ All({digest}))
  <2>1. NoDigest \notin Configs
    BY RuntimeAssumption DEF Configs, NoDigest
  <2>2. TypeOK /\ \A lane \in Lanes : usage[lane] \subseteq Configs /\ failures[lane].from \subseteq Configs
    BY DEF Inv, TypeOK, Failures
  <2>3. mixed \/ All({digest})
    BY DEF Inv, BelongsUnlessMixed, StateBelongsToConfig
  <2>. QED
    BY <2>1, <2>2, <2>3 DEF TypeOK
<1>2. \A w \in Workers : ~mixed /\ fetch[w].step \in Publishing =>
        fetch[w].digest = digest /\ fetch[w].read = digest
  BY DEF Inv, MixInv, FetchInv, Publishing
<1>3. CASE UNCHANGED <<digest, mixed, lastGood, usage, sensed, sessions, failures>>
  BY <1>3 DEF Inv, BelongsUnlessMixed, StateBelongsToConfig
<1>4. ASSUME NEW w \in Workers, Reconcile(w) PROVE BelongsUnlessMixed'
  <2>. SUFFICES ASSUME ~mixed' PROVE StateBelongsToConfig'
    BY DEF BelongsUnlessMixed
  <2>1. All({digest})
    BY <1>1, <1>4 DEF Reconcile
  <2>2. CASE digest # NoDigest /\ digest # digest'
    BY <1>4, <2>2, NothingKnown DEF Reconcile, Invalidates, StateBelongsToConfig
  <2>3. CASE digest = digest'
    <3>1. UNCHANGED <<lastGood, usage, sensed, sessions, failures>>
      BY <1>4, <2>3 DEF Reconcile, Invalidates
    <3>. QED
      BY <2>1, <2>3, <3>1 DEF StateBelongsToConfig
  <2>4. CASE digest = NoDigest /\ digest # digest'
    <3>1. UNCHANGED <<lastGood, sensed, sessions, failures>> /\ usage' = NoUsage
      BY <1>4, <2>4 DEF Reconcile, Invalidates
    <3>2. Common = {} /\ \A lane \in Lanes : failures[lane].from = {}
      BY <1>1, <2>1, <2>4
    <3>. QED
      BY <3>1, <3>2, NothingKnown DEF StateBelongsToConfig
  <2>. QED
    BY <2>2, <2>3, <2>4
<1>5. ASSUME NEW w \in Workers,
             \/ PublishStatus(w) \/ ReportSuccess(w) \/ ReportFailure(w)
             \/ ObserveUsage(w) \/ ObserveWarning(w) \/ ObserveSession(w)
      PROVE  BelongsUnlessMixed'
  <2>. SUFFICES ASSUME ~mixed' PROVE StateBelongsToConfig'
    BY DEF BelongsUnlessMixed
  <2>1. ~mixed /\ digest' = digest /\ fetch[w].step \in Publishing
    BY <1>5 DEF PublishStatus, ReportSuccess, ReportFailure, ObserveUsage, ObserveWarning,
                ObserveSession, history, At, Publishing
  <2>2. fetch[w].digest = digest /\ fetch[w].read = digest /\ All({digest})
    BY <1>1, <1>2, <2>1
  <2>3. /\ lastGood' \subseteq lastGood \cup {digest} /\ sensed' \subseteq sensed \cup {digest}
        /\ sessions' \subseteq sessions \cup {digest}
    BY <1>5, <2>2 DEF PublishStatus, ReportSuccess, ReportFailure, ObserveUsage, ObserveWarning, ObserveSession
  <2>4. ASSUME NEW lane \in Lanes
        PROVE  /\ usage'[lane] \subseteq usage[lane] \cup {digest}
               /\ failures'[lane].from \subseteq failures[lane].from \cup {digest}
    <3>1. usage \in [Lanes -> SUBSET Configs] /\ failures \in [Lanes -> Failures]
      BY <1>1 DEF TypeOK
    <3>2. /\ AfterSuccess(Lane(Row(w)), {digest})[lane].from \subseteq failures[lane].from \cup {digest}
          /\ AfterFailure(Lane(Row(w)), {digest})[lane].from \subseteq failures[lane].from \cup {digest}
      BY <3>1 DEF AfterSuccess, AfterFailure
    <3>3. failures' \in {failures, AfterSuccess(Lane(Row(w)), {digest}), AfterFailure(Lane(Row(w)), {digest})}
      BY <1>5, <2>2 DEF PublishStatus, ReportSuccess, ReportFailure, ObserveUsage, ObserveWarning, ObserveSession
    <3>4. usage' = usage \/ usage' = [usage EXCEPT ![Lane(Row(w))] = {digest}]
      BY <1>5, <2>2 DEF PublishStatus, ReportSuccess, ReportFailure, ObserveUsage, ObserveWarning, ObserveSession
    <3>. QED
      BY <3>1, <3>2, <3>3, <3>4
  <2>. QED
    BY <2>1, <2>2, <2>3, <2>4 DEF StateBelongsToConfig
<1>. QED
  BY <1>3, <1>4, <1>5 DEF Next, Edit, Tick, Load, FetchUsage, NoSnapshot, Check, StatusHook, tables, history

\* Every step keeps the streak of failures and the rate limit in line with the history.
LEMMA ReportsStep ==
  ASSUME Inv, Next PROVE TrailInv' /\ ToldInv'
<1>. USE DEF Inv, TrailInv, ToldInv
<1>1. /\ TypeOK /\ failures \in [Lanes -> Failures] /\ trail \in [Lanes -> {"none", "ok", "error"}]
      /\ \A lane \in Lanes : failures[lane].streak \in 0..2 /\ failures[lane].succeeded \in BOOLEAN
  BY DEF TypeOK, Failures
<1>2. ASSUME NEW w \in Workers, Reconcile(w) PROVE TrailInv' /\ ToldInv'
  BY <1>2, NothingKnown DEF Reconcile, status
<1>3. ASSUME NEW w \in Workers, StatusHook(w) PROVE TrailInv' /\ ToldInv'
  <2>1. TrailInv'
    BY <1>3 DEF StatusHook, tables
  <2>2. ToldInv'
    BY <1>1, <1>3, TellTypes, RowNames DEF StatusHook, FiredAt
  <2>. QED
    BY <2>1, <2>2
<1>4. ASSUME NEW w \in Workers, ReportSuccess(w) PROVE TrailInv' /\ ToldInv'
  <2>1. ToldInv'
    BY <1>1, <1>4, TellTypes DEF ReportSuccess, status
  <2>2. ASSUME NEW lane \in Lanes PROVE Tells(failures'[lane], trail'[lane])
    <3>1. CASE lane = Lane(Row(w))
      BY <1>1, <1>4, <3>1 DEF ReportSuccess, AfterSuccess, Tells
    <3>2. CASE lane # Lane(Row(w))
      BY <1>1, <1>4, <3>2 DEF ReportSuccess, AfterSuccess, Tells
    <3>. QED
      BY <3>1, <3>2
  <2>. QED
    BY <2>1, <2>2
<1>5. ASSUME NEW w \in Workers, ReportFailure(w) PROVE TrailInv' /\ ToldInv'
  <2>1. ASSUME NEW lane \in Lanes PROVE Tells(failures'[lane], trail'[lane])
    <3>1. CASE lane = Lane(Row(w))
      BY <1>1, <1>5, <3>1 DEF ReportFailure, AfterFailure, Tells
    <3>2. CASE lane # Lane(Row(w))
      BY <1>1, <1>5, <3>2 DEF ReportFailure, AfterFailure, Tells
    <3>. QED
      BY <3>1, <3>2
  <2>2. ToldInv'
    <3>1. FailureOf(Row(w)) \in Limited
      BY <1>1, <1>5, RowInTurn DEF ReportFailure, At, Publishing
    <3>. QED
      BY <1>1, <1>5, <3>1, TellTypes DEF ReportFailure, FiredAt
  <2>. QED
    BY <2>1, <2>2
<1>6. ASSUME NEW w \in Workers, ObserveUsage(w) \/ ObserveWarning(w) \/ ObserveSession(w)
      PROVE  TrailInv' /\ ToldInv'
  BY <1>6 DEF ObserveUsage, ObserveWarning, ObserveSession, TellNothing, status
<1>7. ASSUME NEW w \in Workers, \/ Load(w) \/ FetchUsage(w) \/ NoSnapshot(w) \/ Check(w) \/ PublishStatus(w)
      PROVE  TrailInv' /\ ToldInv'
  BY <1>7 DEF Load, FetchUsage, NoSnapshot, Check, PublishStatus, tables, status, history
<1>8. CASE Edit \/ Tick
  BY <1>8 DEF Edit, Tick, tables, status, history
<1>. QED
  BY <1>2, <1>3, <1>4, <1>5, <1>6, <1>7, <1>8 DEF Next

\* The invariant holds in every reachable state.
LEMMA Invariance == Spec => []Inv
<1>1. Init => Inv
  BY InitInv
<1>2. Inv /\ [Next]_vars => Inv'
  <2>1. ASSUME Inv, Next PROVE Inv'
    BY <2>1, NextTypes, FetchInvStep, RowInvStep, MixInvStep, BelongsStep, ReportsStep DEF Inv
  <2>2. ASSUME Inv, UNCHANGED vars PROVE Inv'
    BY <2>2 DEF vars, tables, status, history, Inv, TypeOK, FetchInv, RowInv, MixInv, BelongsUnlessMixed,
                StateBelongsToConfig, TrailInv, ToldInv, At
  <2>. QED
    BY <2>1, <2>2
<1>. QED
  BY <1>1, <1>2, PTL DEF Spec

----------------------------------------------------------------------------
\* Types of the whole state.
THEOREM TypeCorrect == Spec => []TypeOK
<1>1. Inv => TypeOK
  BY DEF Inv
<1>. QED
  BY <1>1, Invariance, PTL

\* reconcile_config_revision and the check before the publication keep configurations
\* apart as long as refreshes under different ones do not overlap.
THEOREM ConfigurationsKeptApart == Spec => []BelongsUnlessMixed
<1>1. Inv => BelongsUnlessMixed
  BY DEF Inv
<1>. QED
  BY <1>1, Invariance, PTL

\* In a program with one worker, such as the terminal interface, they never overlap.
THEOREM OneWorkerSuffices ==
  ASSUME \A v, w \in Workers : v = w
  PROVE  Spec => []StateBelongsToConfig
<1>1. Init => ~mixed
  BY DEF Init
<1>2. TypeOK /\ ~mixed /\ [Next]_vars => ~mixed'
  <2>. SUFFICES ASSUME TypeOK, ~mixed, Next PROVE ~mixed'
    BY DEF vars, history
  <2>1. ASSUME NEW w \in Workers, Reconcile(w) PROVE ~mixed'
    BY <2>1 DEF Reconcile
  <2>. QED
    BY <2>1 DEF Next, Edit, Tick, Load, FetchUsage, NoSnapshot, Check, PublishStatus, StatusHook,
           ReportSuccess, ReportFailure, ObserveUsage, ObserveWarning, ObserveSession, tables, history
<1>3. ~mixed /\ BelongsUnlessMixed => StateBelongsToConfig
  BY DEF BelongsUnlessMixed
<1>. QED
  BY <1>1, <1>2, <1>3, TypeCorrect, ConfigurationsKeptApart, PTL DEF Spec

\* codexbar_transition_rate_limit_allow under the runtime's lock.
THEOREM RateLimitHolds == Spec => RateLimited
<1>. DEFINE A == \A e \in Limited : event' = e => told[e] = 0 \/ now - told[e] >= RateLimit
<1>1. ASSUME Inv, Next PROVE A
  <2>0. Recovered \notin Limited /\ Nothing \notin Limited /\ told = lastFired /\ TypeOK
    BY <1>1, RowNames DEF Inv, ToldInv
  <2>1. ASSUME NEW w \in Workers, StatusHook(w) PROVE A
    BY <2>0, <2>1, TellTypes DEF StatusHook, Allowed, Tell
  <2>2. ASSUME NEW w \in Workers, ReportFailure(w) PROVE A
    BY <2>0, <2>2, TellTypes DEF ReportFailure, Allowed, Tell
  <2>3. CASE event' = Nothing
    BY <2>0, <2>3
  <2>. QED
    BY <1>1, <2>1, <2>2, <2>3 DEF Next, Edit, Tick, Load, Reconcile, FetchUsage, NoSnapshot, Check, PublishStatus,
           ReportSuccess, ObserveUsage, ObserveWarning, ObserveSession, TellNothing
<1>2. ASSUME Inv, UNCHANGED vars PROVE [A]_vars
  BY <1>2
<1>3. Inv /\ [Next]_vars => [A]_vars
  BY <1>1, <1>2
<1>. QED
  BY <1>3, Invariance, PTL DEF Spec, RateLimited

\* dispatch_refresh_failure forgives the first failure after a success of the lane and
\* no other, whichever accounts the rows name.
THEOREM FailuresAreReported == Spec => FailuresReported
<1>. DEFINE Limit(failed) == told[failed] = 0 \/ now - told[failed] >= RateLimit
            A == \A w \in Workers : Failing(w) =>
                   LET failed == FailureOf(Row(w)) IN
                   (event' = failed) <=>
                     /\ trail[Lane(Row(w))] # "ok"
                     /\ told[failed] = 0 \/ now - told[failed] >= RateLimit
<1>1. ASSUME Inv, Next, NEW w \in Workers, Failing(w)
      PROVE  (event' = FailureOf(Row(w))) <=>
               (trail[Lane(Row(w))] # "ok" /\ Limit(FailureOf(Row(w))))
  <2>1. /\ At(w, "failure") /\ Row(w).failed /\ fetch'[w] # fetch[w]
        /\ TypeOK /\ RowInv /\ fetch \in [Workers -> Fetch] /\ failures \in [Lanes -> Failures]
    BY <1>1 DEF Failing, Inv, TypeOK
  <2>2. ReportFailure(w)
    BY ZenonT(60), <1>1, <2>1 DEF Next, Edit, Tick, Load, Reconcile, FetchUsage, NoSnapshot, Check, PublishStatus,
       StatusHook, ReportSuccess, ReportFailure, ObserveUsage, ObserveWarning, ObserveSession,
       Advance, At, GoTo, Return, tables, history
  <2>. DEFINE lane == Lane(Row(w))
              failed == FailureOf(Row(w))
              next == AfterFailure(lane, {fetch[w].read})
  <2>3. lane \in Lanes /\ failed \in Limited
    BY <2>1, RowInTurn DEF At, Publishing
  <2>4. /\ next[lane].succeeded = failures[lane].succeeded
        /\ next[lane].streak > 1 <=> failures[lane].streak # 0
    BY <2>1, <2>3 DEF AfterFailure
  <2>5. trail[lane] = "ok" <=> failures[lane].streak = 0 /\ failures[lane].succeeded
    BY <1>1, <2>3 DEF Inv, TrailInv, Tells
  <2>6. Allowed(failed) <=> Limit(failed)
    BY <1>1 DEF Inv, ToldInv, Allowed
  <2>7. IF (~next[lane].succeeded \/ next[lane].streak > 1) /\ Allowed(failed)
        THEN event' = failed ELSE event' = Nothing
    BY <2>2 DEF ReportFailure, Tell, TellNothing
  <2>8. failed # Nothing
    BY <2>3, RowNames
  <2>. HIDE DEF next, lane, failed, Limit
  <2>9. (event' = failed) <=> (trail[lane] # "ok" /\ Limit(failed))
    BY <2>4, <2>5, <2>6, <2>7, <2>8
  <2>. QED
    BY <2>9 DEF lane, failed
<1>2. Inv /\ [Next]_vars => [A]_vars
  <2>1. ASSUME Inv, Next PROVE A
    BY <1>1, <2>1
  <2>. QED
    BY <2>1
<1>. HIDE DEF Limit
<1>. QED
  BY <1>2, Invariance, PTL DEF Spec, FailuresReported
=============================================================================
