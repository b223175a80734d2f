-------------------------- MODULE ConfigStoreProofs --------------------------
(***************************************************************************)
(* Theorems about ConfigStore, for any number of writers, lock files,       *)
(* accounts and foreign changes.                                           *)
(***************************************************************************)
EXTENDS ConfigStore, SequenceTheorems, FiniteSetTheorems, TLAPS

\* A writer is a record of these fields.
Shaped(t) ==
  t = [pc |-> t.pc, job |-> t.job, lock |-> t.lock, base |-> t.base, crossed |-> t.crossed]

WritersShaped ==
  /\ writer = [w \in Writers |-> writer[w]]
  /\ \A w \in Writers : Shaped(writer[w]) /\ writer[w].lock \in Locks
  /\ holder = [l \in Locks |-> holder[l]]
  /\ foreign \in Nat

\* Who is in a transaction holds its lock.
Holds(w) == writer[w].pc \notin {"start", "end"} => holder[writer[w].lock] = w

\* Between the comparison and the replacement the file is what was loaded,
\* unless somebody whom the lock does not keep out has changed it.
Compared(w) ==
  /\ writer[w].pc = "compared" => writer[w].crossed \/ file = writer[w].base
  /\ writer[w].crossed => Outsider(w)

Inv == WritersShaped /\ \A w \in Writers : Holds(w) /\ Compared(w)

\* What a step may do to the file.
Building ==
  \A w \in Writers : Replaces(w) =>
    \/ file = writer[w].base
    \/ writer[w].crossed /\ Outsider(w)

-----------------------------------------------------------------------------
\* config_new and codexbar_config_free: what an ended transaction holds.
LEMMA EndedIs ==
  ASSUME NEW lock
  PROVE  Ended(lock) = [pc |-> "end", job |-> NoJob, lock |-> lock, base |-> Absent, crossed |-> FALSE]
<1> DEFINE job == NoJob
           base == Absent
           no == FALSE
<1>1. Starting(lock) = [pc |-> "start", job |-> job, lock |-> lock, base |-> base, crossed |-> no]
  BY DEF Starting
<1> HIDE DEF job, base, no
<1>2. [Starting(lock) EXCEPT !.pc = "end"] =
        [pc |-> "end", job |-> job, lock |-> lock, base |-> base, crossed |-> no]
  BY <1>1
<1> QED BY <1>2 DEF Ended, job, base, no

\* A transaction begins outside of the lock, with nothing loaded.
LEMMA StartingIs ==
  ASSUME NEW lock
  PROVE  LET t == Starting(lock)
         IN Shaped(t) /\ t.pc = "start" /\ t.lock = lock /\ ~t.crossed
<1> DEFINE job == NoJob
           base == Absent
           no == FALSE
<1>1. Starting(lock) = [pc |-> "start", job |-> job, lock |-> lock, base |-> base, crossed |-> no]
  BY DEF Starting
<1>2. no = FALSE
  OBVIOUS
<1> HIDE DEF job, base, no
<1> QED BY <1>1, <1>2 DEF Shaped

\* Nobody is in a transaction to begin with.
LEMMA InitInv == ConfigInit => Inv
<1> SUFFICES ASSUME ConfigInit PROVE Inv
  OBVIOUS
<1>1. PICK lock \in [Writers -> Locks] : writer = [w \in Writers |-> Starting(lock[w])]
  BY DEF ConfigInit
<1>2. \A w \in Writers : Shaped(writer[w]) /\ writer[w].pc = "start"
                         /\ writer[w].lock = lock[w] /\ ~writer[w].crossed
  BY <1>1, StartingIs
<1>3. holder = [l \in Locks |-> Nobody] /\ foreign = 0
  BY DEF ConfigInit
<1>4. writer = [w \in Writers |-> writer[w]] /\ holder = [l \in Locks |-> holder[l]]
  BY <1>1, <1>3
<1> QED BY <1>2, <1>3, <1>4 DEF Inv, WritersShaped, Holds, Compared

\* A step in which only w moves, keeps its lock file and leaves the file alone.
LEMMA OwnStep ==
  ASSUME Inv, NEW w \in Writers, NEW t, writer' = [writer EXCEPT ![w] = t],
         Shaped(t), t.lock = writer[w].lock, file' = file, foreign' = foreign,
         holder' = [l \in Locks |-> holder'[l]],
         \A l \in Locks : holder[l] \notin {w, Nobody} => holder'[l] = holder[l],
         t.pc \notin {"start", "end"} => holder'[t.lock] = w,
         t.pc = "compared" => t.crossed \/ file = t.base,
         t.crossed => writer[w].crossed
  PROVE  Inv' /\ Building
<1>1. /\ writer'[w] = t
      /\ \A v \in Writers : v # w => writer'[v] = writer[v]
      /\ \A v \in Writers : writer'[v].lock = writer[v].lock
      /\ writer' = [v \in Writers |-> writer'[v]]
  BY DEF Inv, WritersShaped
<1>2. WritersShaped'
  <2>1. \A v \in Writers : Shaped(writer'[v])
    BY <1>1 DEF Inv, WritersShaped
  <2> QED BY <1>1, <2>1 DEF Inv, WritersShaped, Shaped
<1>3. ASSUME NEW v \in Writers PROVE Outsider(v)' <=> Outsider(v)
  BY <1>1 DEF Outsider
<1>4. ASSUME NEW v \in Writers PROVE Holds(v)'
  BY ZenonT(60), <1>1, NobodyWrites DEF Inv, Holds, WritersShaped
<1>5. ASSUME NEW v \in Writers PROVE Compared(v)'
  BY <1>1, <1>3 DEF Inv, Compared
<1>6. Building
  BY DEF Building, Replaces
<1> QED BY <1>2, <1>4, <1>5, <1>6 DEF Inv

\* When the file changes, whoever has compared it is crossed by an outsider.
LEMMA CrossingStep ==
  ASSUME Inv, NEW v \in Writers, NEW by,
         writer'[v] = Cross(by)[v], v # by,
         \A u \in Writers : writer'[u].lock = writer[u].lock,
         foreign' \in Nat, foreign' >= foreign,
         writer[v].pc = "compared" => Outsider(v)'
  PROVE  Shaped(writer'[v]) /\ Compared(v)' /\ writer'[v].pc = writer[v].pc
<1>1. Shaped(writer[v]) /\ Compared(v) /\ foreign \in Nat
  BY DEF Inv, WritersShaped
<1>2. Outsider(v) => Outsider(v)'
  BY <1>1 DEF Outsider
<1>3. CASE writer[v].pc = "compared"
  <2>1. writer'[v] = [writer[v] EXCEPT !.crossed = TRUE]
    BY <1>3 DEF Cross
  <2>2. /\ Shaped(writer'[v]) /\ writer'[v].crossed = TRUE /\ writer'[v].pc = "compared"
    BY <1>1, <1>3, <2>1 DEF Shaped
  <2> QED BY <1>3, <2>2 DEF Compared
<1>4. CASE writer[v].pc # "compared"
  <2>1. writer'[v] = writer[v]
    BY <1>4 DEF Cross
  <2> QED BY <1>1, <1>2, <1>4, <2>1 DEF Compared
<1> QED BY <1>3, <1>4

\* A writer that leaves releases its lock and nothing else.
LEMMA LeaveStep ==
  ASSUME Inv, NEW w \in Writers, Leave(w), file' = file, foreign' = foreign
  PROVE  Inv' /\ Building
<1> DEFINE t == Ended(writer[w].lock)
<1>1. writer' = [writer EXCEPT ![w] = t]
  BY DEF Leave
<1>2. t = [pc |-> "end", job |-> NoJob, lock |-> writer[w].lock, base |-> Absent, crossed |-> FALSE]
  BY EndedIs
<1>3. /\ holder' = [l \in Locks |-> holder'[l]]
      /\ \A l \in Locks : holder[l] \notin {w, Nobody} => holder'[l] = holder[l]
  BY DEF Leave, Release
<1>4. Shaped(t) /\ t.lock = writer[w].lock /\ t.pc = "end" /\ t.crossed = FALSE
  BY <1>2 DEF Shaped
<1> HIDE DEF t
<1> QED BY <1>1, <1>3, <1>4, OwnStep

\* Where a writer goes on to in its transaction.
Advanced(w, pc, job, base) ==
  [pc |-> pc, job |-> job, lock |-> writer[w].lock, base |-> base,
   crossed |-> writer[w].crossed]

\* Setting two fields of a transaction keeps the others.
LEMMA TwoFields ==
  ASSUME NEW t, Shaped(t), NEW pc, NEW other
  PROVE  [t EXCEPT !.pc = pc, !.base = other] =
           [pc |-> pc, job |-> t.job, lock |-> t.lock, base |-> other, crossed |-> t.crossed]
<1> DEFINE s == [t EXCEPT !.pc = pc]
<1>1. /\ s = [pc |-> pc, job |-> t.job, lock |-> t.lock, base |-> t.base, crossed |-> t.crossed]
      /\ [t EXCEPT !.pc = pc, !.base = other] = [s EXCEPT !.base = other]
  BY DEF Shaped
<1> HIDE DEF s
<1> QED BY <1>1

\* Going on to another line of the transaction.
LEMMA MoveStep ==
  ASSUME Inv, NEW w \in Writers, NEW pc, NEW job, NEW base,
         writer' = [writer EXCEPT ![w] = Advanced(w, pc, job, base)],
         file' = file, foreign' = foreign, holder' = holder,
         writer[w].pc \notin {"start", "end"},
         pc = "compared" => file = base
  PROVE  Inv' /\ Building
<1> DEFINE t == Advanced(w, pc, job, base)
<1>2. /\ Shaped(t) /\ t.lock = writer[w].lock /\ t.pc = pc /\ t.base = base
      /\ t.crossed = writer[w].crossed
  BY DEF Shaped, Advanced
<1>3. holder' = [l \in Locks |-> holder'[l]] /\ holder[writer[w].lock] = w
  BY DEF Inv, WritersShaped, Holds
<1> HIDE DEF t
<1>4. writer' = [writer EXCEPT ![w] = t]
  BY DEF t
<1> QED BY <1>2, <1>3, <1>4, OwnStep

\* Taking the lock: nobody else is inside.
LEMMA AcquireStep == ASSUME Inv, NEW w \in Writers, Acquire(w) PROVE Inv' /\ Building
<1> DEFINE t == [writer[w] EXCEPT !.pc = "locked"]
<1>1. writer' = [writer EXCEPT ![w] = t]
  BY DEF Acquire, Goto, Inv, WritersShaped
<1>2. /\ Shaped(t) /\ t.lock = writer[w].lock /\ t.pc = "locked"
      /\ t.crossed = writer[w].crossed
  BY DEF Inv, WritersShaped, Shaped
<1>3. /\ holder' = [l \in Locks |-> holder'[l]] /\ holder'[writer[w].lock] = w
      /\ \A l \in Locks : holder[l] \notin {w, Nobody} => holder'[l] = holder[l]
  BY DEF Acquire, Inv, WritersShaped
<1>4. file' = file /\ foreign' = foreign
  BY DEF Acquire
<1> HIDE DEF t
<1> QED BY <1>1, <1>2, <1>3, <1>4, OwnStep

\* Reading the file under the lock: the digest is that of what was read.
LEMMA LoadStep == ASSUME Inv, NEW w \in Writers, Load(w) PROVE Inv' /\ Building
<1>1. CASE file = Broken
  BY <1>1, LeaveStep DEF Load
<1>2. CASE file # Broken
  <2>1. /\ writer' = [writer EXCEPT ![w].pc = "loaded", ![w].base = file]
        /\ holder' = holder /\ file' = file /\ foreign' = foreign /\ writer[w].pc = "locked"
    BY <1>2 DEF Load
  <2>2. [writer[w] EXCEPT !.pc = "loaded", !.base = file] = Advanced(w, "loaded", writer[w].job, file)
    BY TwoFields DEF Advanced, Inv, WritersShaped
  <2>3. writer' = [writer EXCEPT ![w] = Advanced(w, "loaded", writer[w].job, file)]
    <3> DEFINE loaded == [writer[w] EXCEPT !.pc = "loaded", !.base = file]
    <3>1. writer' = [writer EXCEPT ![w] = loaded]
      BY <2>1 DEF Inv, WritersShaped
    <3> HIDE DEF loaded
    <3> QED BY <2>2, <3>1 DEF loaded
  <2>4. "loaded" # "compared" /\ writer[w].pc \notin {"start", "end"}
    BY <2>1
  <2> DEFINE pc == "loaded"
             base == file
             job == writer[w].job
  <2>5. /\ writer' = [writer EXCEPT ![w] = Advanced(w, pc, job, base)]
        /\ pc = "compared" => file = base
    BY <2>3
  <2> HIDE DEF pc, base, job
  <2>6. file' = file /\ foreign' = foreign /\ holder' = holder
    BY <2>1
  <2> QED BY <2>4, <2>5, <2>6, MoveStep
<1> QED BY <1>1, <1>2

\* The change is made in memory.
LEMMA EditStep == ASSUME Inv, NEW w \in Writers, Edit(w) PROVE Inv' /\ Building
<1>0. writer[w].pc = "loaded" /\ file' = file /\ foreign' = foreign
  BY DEF Edit
<1>1. PICK job \in Jobs :
        IF Accepts(Loaded(writer[w].base), job)
        THEN /\ writer' = [writer EXCEPT ![w].pc = "edited", ![w].job = job]
             /\ UNCHANGED holder
        ELSE Leave(w)
  BY DEF Edit
<1>2. CASE Accepts(Loaded(writer[w].base), job)
  <2> DEFINE edited == [writer[w] EXCEPT !.pc = "edited", !.job = job]
  <2>1. writer' = [writer EXCEPT ![w] = edited] /\ holder' = holder
    BY <1>1, <1>2 DEF Inv, WritersShaped
  <2>2. edited = Advanced(w, "edited", job, writer[w].base)
    <3>1. Shaped(writer[w])
      BY DEF Inv, WritersShaped
    <3>2. edited = [pc |-> "edited", job |-> job, lock |-> writer[w].lock,
                    base |-> writer[w].base, crossed |-> writer[w].crossed]
      <4> DEFINE s == [writer[w] EXCEPT !.pc = "edited"]
      <4>1. s = [pc |-> "edited", job |-> writer[w].job, lock |-> writer[w].lock,
                 base |-> writer[w].base, crossed |-> writer[w].crossed]
        BY <3>1 DEF Shaped
      <4>2. edited = [s EXCEPT !.job = job]
        BY <3>1 DEF Shaped
      <4> HIDE DEF s, edited
      <4> QED BY <4>1, <4>2
    <3> QED BY <3>2 DEF Advanced
  <2> HIDE DEF edited
  <2> QED BY <1>0, <2>1, <2>2, MoveStep
<1>3. CASE ~Accepts(Loaded(writer[w].base), job)
  BY <1>0, <1>1, <1>3, LeaveStep
<1> QED BY <1>2, <1>3

\* The comparison of digests: the file is replaced only if it is still what was read.
LEMMA CompareStep == ASSUME Inv, NEW w \in Writers, Compare(w) PROVE Inv' /\ Building
<1>0. writer[w].pc = "edited" /\ file' = file /\ foreign' = foreign
  BY DEF Compare
<1>1. CASE file = writer[w].base
  <2> DEFINE compared == [writer[w] EXCEPT !.pc = "compared"]
  <2>1. writer' = [writer EXCEPT ![w] = compared] /\ holder' = holder
    BY <1>1 DEF Compare, Inv, WritersShaped
  <2>2. compared = Advanced(w, "compared", writer[w].job, writer[w].base)
    BY DEF Advanced, Inv, WritersShaped, Shaped
  <2> HIDE DEF compared
  <2> QED BY <1>0, <1>1, <2>1, <2>2, MoveStep
<1>2. CASE file # writer[w].base
  BY <1>0, <1>2, LeaveStep DEF Compare
<1> QED BY <1>1, <1>2

\* The replacement crosses only writers that hold another lock.
LEMMA ReplaceStep == ASSUME Inv, NEW w \in Writers, Replace(w) PROVE Inv' /\ Building
<1>0. writer[w].pc = "compared" /\ foreign' = foreign
  BY DEF Replace
<1>1. CASE Leave(w) /\ UNCHANGED file
  BY <1>0, <1>1, LeaveStep
<1>2. CASE writer' = [Cross(w) EXCEPT ![w] = Ended(@.lock)] /\ Release(w)
  <2> DEFINE crossed == Cross(w)
             t == Ended(crossed[w].lock)
  <2>1. DOMAIN crossed = Writers /\ crossed[w] = writer[w]
    BY DEF Cross
  <2>2. t = Ended(writer[w].lock)
    BY <2>1
  <2>3. Shaped(t) /\ t.pc = "end" /\ t.lock = writer[w].lock /\ ~t.crossed
    <3> DEFINE job == NoJob
               base == Absent
               no == FALSE
    <3>1. t = [pc |-> "end", job |-> job, lock |-> writer[w].lock, base |-> base, crossed |-> no]
      BY <2>2, EndedIs
    <3>2. no = FALSE
      OBVIOUS
    <3> HIDE DEF job, base, no, t
    <3> QED BY <3>1, <3>2 DEF Shaped
  <2>4. /\ writer'[w] = t
        /\ \A v \in Writers : v # w => writer'[v] = Cross(w)[v]
        /\ writer' = [v \in Writers |-> writer'[v]]
    BY <1>2, <2>1
  <2> HIDE DEF t
  <2>5. \A v \in Writers : v # w => writer'[v].lock = writer[v].lock
    BY <2>4 DEF Cross, Inv, WritersShaped, Shaped
  <2>6. \A v \in Writers : writer'[v].lock = writer[v].lock
    BY <2>3, <2>4, <2>5
  <2>7. ASSUME NEW v \in Writers, v # w, writer[v].pc = "compared" PROVE Outsider(v)'
    <3>1. holder[writer[v].lock] = v /\ holder[writer[w].lock] = w
      BY <1>0, <2>7 DEF Inv, Holds
    <3>2. writer[w].lock # writer[v].lock
      BY <2>7, <3>1
    <3> QED BY <2>6, <3>2 DEF Outsider
  <2>8. foreign' \in Nat /\ foreign' >= foreign
    BY <1>0 DEF Inv, WritersShaped
  <2>9. ASSUME NEW v \in Writers, v # w
        PROVE Shaped(writer'[v]) /\ Compared(v)' /\ writer'[v].pc = writer[v].pc
    BY <2>4, <2>6, <2>7, <2>8, <2>9, CrossingStep
  <2>10. holder' = [l \in Locks |-> IF holder[l] = w THEN Nobody ELSE holder[l]]
    BY <1>2 DEF Release
  <2>11. ASSUME NEW v \in Writers PROVE Holds(v)'
    BY <2>3, <2>4, <2>6, <2>9, <2>10 DEF Holds, Inv, WritersShaped
  <2>12. WritersShaped'
    BY <2>3, <2>4, <2>6, <2>8, <2>9, <2>10 DEF WritersShaped, Inv
  <2>13. Compared(w)'
    BY <2>3, <2>4 DEF Compared
  <2>14. Building
    <3> SUFFICES ASSUME NEW v \in Writers, Replaces(v)
                 PROVE  file = writer[v].base \/ (writer[v].crossed /\ Outsider(v))
      BY DEF Building
    <3>1. v = w
      BY <2>9 DEF Replaces
    <3> QED BY <1>0, <3>1 DEF Inv, Compared
  <2> QED BY <2>9, <2>11, <2>12, <2>13, <2>14 DEF Inv
<1> QED BY <1>1, <1>2 DEF Replace

\* A writer that ends gives the lock back and leaves a whole file.
LEMMA CrashStep == ASSUME Inv, NEW w \in Writers, Crash(w) PROVE Inv' /\ Building
BY LeaveStep DEF Crash

\* A program without the lock is an outsider to everybody.
LEMMA ForeignStep == ASSUME Inv, ForeignChange PROVE Inv' /\ Building
<1>1. foreign' = foreign + 1 /\ foreign \in Nat /\ holder' = holder /\ writer' = Cross(Nobody)
  BY DEF ForeignChange, Inv, WritersShaped
<1>2. \A v \in Writers : writer'[v].lock = writer[v].lock
  BY <1>1 DEF Cross, Inv, WritersShaped, Shaped
<1>3. \A v \in Writers : Outsider(v)'
  BY <1>1 DEF Outsider
<1>4. writer' = [v \in Writers |-> writer'[v]]
  BY <1>1 DEF Cross
<1>5. ASSUME NEW v \in Writers
      PROVE Shaped(writer'[v]) /\ Compared(v)' /\ writer'[v].pc = writer[v].pc
  BY <1>1, <1>2, <1>3, CrossingStep, NobodyWrites
<1>6. Building
  BY <1>5 DEF Building, Replaces
<1>7. WritersShaped'
  BY <1>1, <1>2, <1>4, <1>5 DEF WritersShaped, Inv
<1>8. ASSUME NEW v \in Writers PROVE Holds(v)'
  BY <1>1, <1>2, <1>5 DEF Inv, Holds
<1> QED BY <1>5, <1>6, <1>7, <1>8 DEF Inv

\* What every step keeps, and what it may do to the file.
LEMMA ConfigStep == Inv /\ [ConfigNext]_configVars => Inv' /\ [Building]_configVars
<1>1. Inv /\ ConfigNext => Inv' /\ Building
  BY AcquireStep, LoadStep, EditStep, CompareStep, ReplaceStep, CrashStep, ForeignStep
     DEF ConfigNext, Transaction
<1>2. Inv /\ UNCHANGED configVars => Inv'
  BY DEF Inv, configVars, WritersShaped, Holds, Compared, Outsider
<1> QED BY <1>1, <1>2

\* codexbar_config_save: what replaces the configuration was made from what it
\* replaces, unless a program that the lock does not keep out changed the file
\* between the comparison and the rename.
THEOREM TransactionsBuildOnTheFile == ConfigSpec => UpdatesBuildOnTheFile
<1>1. ConfigSpec => []Inv
  BY InitInv, ConfigStep, PTL DEF ConfigSpec
<1>2. ConfigSpec => [][Building]_configVars
  BY <1>1, ConfigStep, PTL DEF ConfigSpec
<1> QED BY <1>2 DEF UpdatesBuildOnTheFile, Building

\* acquire_config_lock: two processes are never in a transaction on one lock.
OneTransactionPerLock ==
  \A v, w \in Writers :
    v # w /\ {writer[v].pc, writer[w].pc} \cap {"start", "end"} = {} =>
      writer[v].lock # writer[w].lock

\* Writers of one runtime directory exclude each other.
THEOREM WritersExclude == ConfigSpec => []OneTransactionPerLock
<1>1. Inv => OneTransactionPerLock
  BY DEF Inv, Holds, OneTransactionPerLock
<1> QED BY <1>1, InitInv, ConfigStep, PTL DEF ConfigSpec

-----------------------------------------------------------------------------
(* The active account.                                                     *)

\* Removing one element of a sequence moves those behind it forward.
LEMMA RemoveAtElements ==
  ASSUME NEW S, NEW s \in Seq(S), NEW i \in 1..Len(s)
  PROVE  /\ RemoveAt(s, i) \in Seq(S) /\ Len(RemoveAt(s, i)) = Len(s) - 1
         /\ \A k \in 1..(Len(s) - 1) : RemoveAt(s, i)[k] = IF k < i THEN s[k] ELSE s[k + 1]
<1> DEFINE front == SubSeq(s, 1, i - 1)
           back  == SubSeq(s, i + 1, Len(s))
<1>1. Len(s) \in Nat /\ \A k \in 1..Len(s) : s[k] \in S
  BY LenProperties, ElementOfSeq
<1>2. /\ front \in Seq(S) /\ Len(front) = i - 1
      /\ \A k \in 1..(i - 1) : front[k] = s[k]
  <2>1. \A k \in 1..(i - 1) : s[k] \in S
    BY <1>1
  <2>2. /\ front \in Seq(S) /\ Len(front) = IF 1 <= i - 1 THEN i - 1 - 1 + 1 ELSE 0
        /\ \A k \in 1..(i - 1 - 1 + 1) : front[k] = s[1 + k - 1]
    BY <1>1, <2>1, SubSeqProperties
  <2> QED BY <1>1, <2>2
<1>3. /\ back \in Seq(S) /\ Len(back) = Len(s) - i
      /\ \A k \in 1..(Len(s) - i) : back[k] = s[i + k]
  <2>1. \A k \in (i + 1)..Len(s) : s[k] \in S
    BY <1>1
  <2>2. /\ back \in Seq(S) /\ Len(back) = IF i + 1 <= Len(s) THEN Len(s) - (i + 1) + 1 ELSE 0
        /\ \A k \in 1..(Len(s) - (i + 1) + 1) : back[k] = s[i + 1 + k - 1]
    BY <1>1, <2>1, SubSeqProperties
  <2> QED BY <1>1, <2>2
<1> HIDE DEF front, back
<1>4. /\ front \o back \in Seq(S) /\ Len(front \o back) = Len(front) + Len(back)
      /\ \A k \in 1..(Len(front) + Len(back)) :
           (front \o back)[k] = IF k <= Len(front) THEN front[k] ELSE back[k - Len(front)]
  BY <1>2, <1>3, ConcatProperties
<1>5. RemoveAt(s, i) = front \o back
  BY DEF RemoveAt, front, back
<1>6. ASSUME NEW k \in 1..(Len(s) - 1)
      PROVE  RemoveAt(s, i)[k] = IF k < i THEN s[k] ELSE s[k + 1]
  <2>1. CASE k < i
    BY <1>1, <1>2, <1>3, <1>4, <1>5, <2>1
  <2>2. CASE k >= i
    <3>1. RemoveAt(s, i)[k] = back[k - (i - 1)]
      BY <1>1, <1>2, <1>3, <1>4, <1>5, <2>2
    <3>2. k - (i - 1) \in 1..(Len(s) - i) /\ i + (k - (i - 1)) = k + 1
      BY <1>1, <2>2
    <3>3. back[k - (i - 1)] = s[i + (k - (i - 1))]
      BY <1>3, <3>2
    <3> QED BY <2>2, <3>1, <3>2, <3>3
  <2> QED BY <1>1, <2>1, <2>2
<1>7. RemoveAt(s, i) \in Seq(S) /\ Len(RemoveAt(s, i)) = Len(s) - 1
  <2>1. Len(front) + Len(back) = Len(s) - 1
    BY <1>1, <1>2, <1>3
  <2> QED BY <1>4, <1>5, <2>1
<1> QED BY <1>6, <1>7

\* Inserting an element moves those behind it back.
LEMMA InsertAtElements ==
  ASSUME NEW S, NEW s \in Seq(S), NEW i \in 1..(Len(s) + 1), NEW e \in S
  PROVE  /\ InsertAt(s, i, e) \in Seq(S) /\ Len(InsertAt(s, i, e)) = Len(s) + 1
         /\ \A k \in 1..(Len(s) + 1) :
              InsertAt(s, i, e)[k] = IF k < i THEN s[k] ELSE IF k = i THEN e ELSE s[k - 1]
<1> DEFINE front == SubSeq(s, 1, i - 1)
           back  == SubSeq(s, i, Len(s))
           half  == front \o <<e>>
<1>1. Len(s) \in Nat /\ \A k \in 1..Len(s) : s[k] \in S
  BY LenProperties, ElementOfSeq
<1>2. /\ front \in Seq(S) /\ Len(front) = i - 1
      /\ \A k \in 1..(i - 1) : front[k] = s[k]
  <2>1. \A k \in 1..(i - 1) : s[k] \in S
    BY <1>1
  <2>2. /\ front \in Seq(S) /\ Len(front) = IF 1 <= i - 1 THEN i - 1 - 1 + 1 ELSE 0
        /\ \A k \in 1..(i - 1 - 1 + 1) : front[k] = s[1 + k - 1]
    BY <1>1, <2>1, SubSeqProperties
  <2> QED BY <1>1, <2>2
<1>3. /\ back \in Seq(S) /\ Len(back) = Len(s) - i + 1
      /\ \A k \in 1..(Len(s) - i + 1) : back[k] = s[i + k - 1]
  <2>1. \A k \in i..Len(s) : s[k] \in S
    BY <1>1
  <2>2. /\ back \in Seq(S) /\ Len(back) = IF i <= Len(s) THEN Len(s) - i + 1 ELSE 0
        /\ \A k \in 1..(Len(s) - i + 1) : back[k] = s[i + k - 1]
    BY <1>1, <2>1, SubSeqProperties
  <2> QED BY <1>1, <2>2
<1>4. <<e>> \in Seq(S) /\ Len(<<e>>) = 1 /\ <<e>>[1] = e
  OBVIOUS
<1> HIDE DEF front, back
<1>5. /\ half \in Seq(S) /\ Len(half) = i
      /\ \A k \in 1..i : half[k] = IF k <= i - 1 THEN front[k] ELSE <<e>>[k - (i - 1)]
  BY <1>2, <1>4, ConcatProperties
<1> HIDE DEF half
<1>6. /\ half \o back \in Seq(S) /\ Len(half \o back) = Len(half) + Len(back)
      /\ \A k \in 1..(Len(half) + Len(back)) :
           (half \o back)[k] = IF k <= Len(half) THEN half[k] ELSE back[k - Len(half)]
  BY <1>3, <1>5, ConcatProperties
<1>7. InsertAt(s, i, e) = half \o back
  BY DEF InsertAt, front, back, half
<1>8. ASSUME NEW k \in 1..(Len(s) + 1)
      PROVE  InsertAt(s, i, e)[k] = IF k < i THEN s[k] ELSE IF k = i THEN e ELSE s[k - 1]
  <2>1. CASE k < i
    BY <1>1, <1>2, <1>3, <1>5, <1>6, <1>7, <2>1
  <2>2. CASE k = i
    <3>1. half[k] = <<e>>[1]
      BY <1>5, <2>2
    <3> QED BY <1>1, <1>3, <1>4, <1>5, <1>6, <1>7, <2>2, <3>1
  <2>3. CASE k > i
    BY <1>1, <1>3, <1>5, <1>6, <1>7, <2>3
  <2> QED BY <2>1, <2>2, <2>3
<1> QED BY <1>1, <1>3, <1>5, <1>6, <1>7, <1>8

\* What a configuration file may hold: token accounts in some order and an
\* index that may be any integer.
AllAccounts == Accounts \cup {NewAccount}
IsFile(c) ==
  /\ c = [state |-> c.state, ids |-> c.ids, active |-> c.active, used |-> c.used, rest |-> c.rest]
  /\ c.ids \in Seq(AllAccounts) /\ c.active \in Int

\* The index of the active account is one of the list's.
InRange(c) == c.active \in 0..(Len(c.ids) - 1)

\* With an index in range it is the account that is read.
LEMMA ActiveIs ==
  ASSUME NEW c, IsFile(c), InRange(c)
  PROVE  ActiveAccount(c) = c.ids[c.active + 1]
<1>1. Len(c.ids) \in Nat /\ c.ids # <<>>
  <2>1. Len(c.ids) \in Nat
    BY LenProperties DEF IsFile
  <2>2. Len(c.ids) # 0
    BY <2>1 DEF InRange
  <2> QED BY <2>1, <2>2, EmptySeq
<1>2. Clamp(c.active, 0, Len(c.ids) - 1) = c.active
  BY <1>1 DEF Clamp, InRange
<1> QED BY <1>1, <1>2 DEF ActiveAccount

\* The place of an account that the list has.
LEMMA PositionIs ==
  ASSUME NEW c, IsFile(c), NEW id, Found(c, id)
  PROVE  /\ Position(c, id) \in 1..Len(c.ids) /\ c.ids[Position(c, id)] = id
         /\ Len(c.ids) \in Nat
<1>1. DOMAIN c.ids = 1..Len(c.ids) /\ Len(c.ids) \in Nat
  BY LenProperties DEF IsFile
<1> QED BY <1>1 DEF Found, Position

\* Changing the list and the index keeps the rest of the file.
Listed(c, ids, active) == [c EXCEPT !.ids = ids, !.active = active]

\* What is listed is a file again.
LEMMA ListChanged ==
  ASSUME NEW c, IsFile(c), NEW ids \in Seq(AllAccounts), NEW active \in Int
  PROVE  LET d == Listed(c, ids, active)
         IN IsFile(d) /\ d.ids = ids /\ d.active = active
<1> DEFINE h == [c EXCEPT !.ids = ids]
<1>1. h = [state |-> c.state, ids |-> ids, active |-> c.active, used |-> c.used, rest |-> c.rest]
  BY DEF IsFile
<1>2. Listed(c, ids, active) = [h EXCEPT !.active = active]
  BY DEF IsFile, Listed
<1> HIDE DEF h
<1>3. [h EXCEPT !.active = active] =
        [state |-> c.state, ids |-> ids, active |-> active, used |-> c.used, rest |-> c.rest]
  BY <1>1
<1> QED BY <1>2, <1>3 DEF IsFile

\* An account that is added becomes the active one.
LEMMA AddedFacts ==
  ASSUME NEW c, IsFile(c)
  PROVE  IsFile(Added(c, NewAccount))
<1> DEFINE ids == Append(c.ids, NewAccount)
           active == Len(c.ids)
<1>1. ids \in Seq(AllAccounts) /\ active \in Int
  BY LenProperties DEF IsFile, AllAccounts
<1>2. Added(c, NewAccount) = Listed(c, ids, active)
  BY DEF Added, Listed
<1> HIDE DEF ids, active
<1> QED BY <1>1, <1>2, ListChanged

\* codexbar_token_accounts_remove: the active account keeps being the active
\* one unless it was the one removed.
LEMMA RemovedFacts ==
  ASSUME NEW c, IsFile(c), NEW id, Found(c, id)
  PROVE  /\ IsFile(Removed(c, id))
         /\ InRange(c) /\ id # ActiveAccount(c) => ActiveAccount(Removed(c, id)) = ActiveAccount(c)
<1> DEFINE at == Position(c, id)
           index == at - 1
           ids == RemoveAt(c.ids, at)
           next == IF c.active = index THEN index
                   ELSE IF c.active > index THEN c.active - 1 ELSE c.active
           active == IF ids = <<>> THEN 0 ELSE Clamp(next, 0, Len(ids) - 1)
<1>1. at \in 1..Len(c.ids) /\ c.ids[at] = id /\ Len(c.ids) \in Nat
  BY PositionIs
<1>2. c.ids \in Seq(AllAccounts) /\ c.active \in Int
  BY DEF IsFile
<1>3. /\ ids \in Seq(AllAccounts) /\ Len(ids) = Len(c.ids) - 1
      /\ \A k \in 1..(Len(c.ids) - 1) : ids[k] = IF k < at THEN c.ids[k] ELSE c.ids[k + 1]
  BY <1>1, <1>2, RemoveAtElements
<1>4. Removed(c, id) = Listed(c, ids, active)
  <2>1. index + 1 = at
    BY <1>1
  <2> QED BY <2>1 DEF Removed, Listed
<1> HIDE DEF at, ids
<1>5. active \in Int
  BY <1>1, <1>2, <1>3 DEF Clamp
<1>6. IsFile(Removed(c, id)) /\ Removed(c, id).ids = ids /\ Removed(c, id).active = active
  <2> HIDE DEF active
  <2> QED BY <1>3, <1>4, <1>5, ListChanged
<1>7. ASSUME InRange(c), id # ActiveAccount(c)
      PROVE  ActiveAccount(Removed(c, id)) = ActiveAccount(c)
  <2>1. ActiveAccount(c) = c.ids[c.active + 1] /\ c.active \in 0..(Len(c.ids) - 1)
    BY <1>7, ActiveIs DEF InRange
  <2>2. c.active # index
    BY <1>1, <1>7, <2>1
  <2>3. Len(ids) > 0
    BY <1>1, <1>3, <2>1, <2>2
  <2>4. ids # <<>>
    BY <2>3
  <2>5. active = (IF c.active > index THEN c.active - 1 ELSE c.active)
        /\ active \in 0..(Len(ids) - 1)
    BY <1>1, <1>3, <2>1, <2>2, <2>4 DEF Clamp
  <2> HIDE DEF active
  <2>6. ids[active + 1] = c.ids[c.active + 1]
    <3>1. active + 1 \in 1..(Len(c.ids) - 1)
      BY <1>1, <1>3, <2>5
    <3>2. ids[active + 1] = IF active + 1 < at THEN c.ids[active + 1] ELSE c.ids[active + 1 + 1]
      BY <1>3, <3>1
    <3>3. CASE c.active > index
      <4>1. active = c.active - 1 /\ ~(active + 1 < at) /\ active + 1 + 1 = c.active + 1
        BY <1>1, <1>2, <2>5, <3>3
      <4> QED BY <3>2, <4>1
    <3>4. CASE c.active < index
      <4>1. active = c.active /\ active + 1 < at
        BY <1>1, <1>2, <2>5, <3>4
      <4> QED BY <3>2, <4>1
    <3> QED BY <1>1, <1>2, <2>2, <3>3, <3>4
  <2>7. ActiveAccount(Removed(c, id)) = ids[active + 1]
    BY <1>6, <2>5, ActiveIs DEF InRange
  <2> QED BY <2>1, <2>6, <2>7
<1> QED BY <1>6, <1>7

\* codexbar_token_accounts_move: whichever account moves and wherever to, the
\* index follows the active one.
LEMMA MovedFacts ==
  ASSUME NEW c, IsFile(c), NEW id, Found(c, id), NEW to \in Nat, to < Len(c.ids)
  PROVE  /\ IsFile(Moved(c, id, to))
         /\ InRange(c) => ActiveAccount(Moved(c, id, to)) = ActiveAccount(c)
<1> DEFINE at == Position(c, id)
           from == at - 1
           rest == RemoveAt(c.ids, at)
           ids == InsertAt(rest, to + 1, id)
           active == CASE c.active = from -> to
                       [] from < to /\ c.active > from /\ c.active <= to -> c.active - 1
                       [] to < from /\ c.active >= to /\ c.active < from -> c.active + 1
                       [] OTHER -> c.active
<1>1. at \in 1..Len(c.ids) /\ c.ids[at] = id /\ Len(c.ids) \in Nat
  BY PositionIs
<1>2. c.ids \in Seq(AllAccounts) /\ c.active \in Int /\ id \in AllAccounts
  BY <1>1, ElementOfSeq DEF IsFile
<1>3. /\ rest \in Seq(AllAccounts) /\ Len(rest) = Len(c.ids) - 1
      /\ \A k \in 1..(Len(c.ids) - 1) : rest[k] = IF k < at THEN c.ids[k] ELSE c.ids[k + 1]
  BY <1>1, <1>2, RemoveAtElements
<1>4. Moved(c, id, to) = Listed(c, ids, active)
  <2>1. from + 1 = at
    BY <1>1
  <2> QED BY <2>1 DEF Moved, Listed
<1> HIDE DEF at, rest
<1>5. /\ ids \in Seq(AllAccounts) /\ Len(ids) = Len(c.ids)
      /\ \A k \in 1..Len(c.ids) :
           ids[k] = IF k < to + 1 THEN rest[k] ELSE IF k = to + 1 THEN id ELSE rest[k - 1]
  <2>1. to + 1 \in 1..(Len(rest) + 1)
    BY <1>1, <1>3
  <2>2. /\ ids \in Seq(AllAccounts) /\ Len(ids) = Len(rest) + 1
        /\ \A k \in 1..(Len(rest) + 1) :
             ids[k] = IF k < to + 1 THEN rest[k] ELSE IF k = to + 1 THEN id ELSE rest[k - 1]
    BY <1>2, <1>3, <2>1, InsertAtElements
  <2> QED BY <1>1, <1>3, <2>2
<1> HIDE DEF ids
<1>6. active \in Int
  BY <1>2
<1>7. IsFile(Moved(c, id, to)) /\ Moved(c, id, to).ids = ids /\ Moved(c, id, to).active = active
  <2> HIDE DEF active
  <2> QED BY <1>4, <1>5, <1>6, ListChanged
<1>8. ASSUME InRange(c) PROVE ActiveAccount(Moved(c, id, to)) = ActiveAccount(c)
  <2>1. ActiveAccount(c) = c.ids[c.active + 1] /\ c.active \in 0..(Len(c.ids) - 1)
    BY <1>8, ActiveIs DEF InRange
  <2>2. active \in 0..(Len(ids) - 1) /\ ids[active + 1] = c.ids[c.active + 1]
    <3>1. CASE c.active = from
      <4>1. active = to
        BY <1>1, <1>2, <3>1
      <4>2. ids[to + 1] = id /\ c.active + 1 = at
        BY <1>1, <1>5, <3>1
      <4> HIDE DEF active
      <4> QED BY <1>1, <1>5, <4>1, <4>2
    <3>2. CASE from < to /\ c.active > from /\ c.active <= to
      <4>1. active = c.active - 1
        BY <1>1, <1>2, <3>2
      <4> HIDE DEF active
      <4>2. /\ active \in 0..(Len(c.ids) - 1) /\ active + 1 \in 1..(Len(c.ids) - 1) /\ active + 1 \in 1..Len(c.ids)
            /\ active + 1 < to + 1 /\ ~(active + 1 < at) /\ active + 1 + 1 = c.active + 1
        BY <1>1, <1>2, <2>1, <3>2, <4>1
      <4>3. ids[active + 1] = rest[active + 1]
        BY <1>5, <4>2
      <4>4. rest[active + 1] = c.ids[active + 1 + 1]
        BY <1>3, <4>2
      <4>5. active \in 0..(Len(ids) - 1)
        <5>1. Len(ids) = Len(c.ids)
          BY <1>5
        <5>2. active \in 0..(Len(c.ids) - 1)
          BY <4>2
        <5> QED BY <5>1, <5>2
      <4> QED BY <4>2, <4>3, <4>4, <4>5
    <3>3. CASE to < from /\ c.active >= to /\ c.active < from
      <4>1. active = c.active + 1
        BY <1>1, <1>2, <3>3
      <4> HIDE DEF active
      <4>2. /\ active \in 0..(Len(c.ids) - 1) /\ active \in 1..(Len(c.ids) - 1) /\ active + 1 \in 1..Len(c.ids)
            /\ ~(active + 1 < to + 1) /\ active + 1 # to + 1 /\ active + 1 - 1 = active
            /\ active < at /\ active = c.active + 1
        BY <1>1, <1>2, <2>1, <3>3, <4>1
      <4>3. ids[active + 1] = rest[active]
        BY <1>5, <4>2
      <4>4. rest[active] = c.ids[active]
        BY <1>3, <4>2
      <4>5. active \in 0..(Len(ids) - 1)
        <5>1. Len(ids) = Len(c.ids)
          BY <1>5
        <5>2. active \in 0..(Len(c.ids) - 1)
          BY <4>2
        <5> QED BY <5>1, <5>2
      <4> QED BY <4>2, <4>3, <4>4, <4>5
    <3>4. CASE /\ c.active # from
               /\ ~(from < to /\ c.active > from /\ c.active <= to)
               /\ ~(to < from /\ c.active >= to /\ c.active < from)
      <4>1. active = c.active
        BY <1>1, <1>2, <3>4
      <4> HIDE DEF active
      <4>2. CASE c.active < from
        <5>1. c.active < to
          BY <1>1, <2>1, <3>4, <4>2
        <5>2. /\ active + 1 \in 1..(Len(c.ids) - 1) /\ active + 1 \in 1..Len(c.ids)
              /\ active + 1 < to + 1 /\ active + 1 < at
          BY <1>1, <1>2, <2>1, <4>1, <4>2, <5>1
        <5>3. ids[active + 1] = rest[active + 1]
          BY <1>5, <5>2
        <5>4. rest[active + 1] = c.ids[active + 1]
          BY <1>3, <5>2
        <5> QED BY <1>5, <2>1, <4>1, <5>3, <5>4
      <4>3. CASE c.active > from
        <5>1. c.active > to
          BY <1>1, <2>1, <3>4, <4>3
        <5>2. /\ active \in 1..(Len(c.ids) - 1) /\ active + 1 \in 1..Len(c.ids)
              /\ ~(active + 1 < to + 1) /\ active + 1 # to + 1 /\ active + 1 - 1 = active
              /\ ~(active < at)
          BY <1>1, <1>2, <2>1, <4>1, <4>3, <5>1
        <5>3. ids[active + 1] = rest[active]
          BY <1>5, <5>2
        <5>4. rest[active] = c.ids[active + 1]
          BY <1>3, <5>2
        <5> QED BY <1>5, <2>1, <4>1, <5>3, <5>4
      <4> QED BY <1>1, <2>1, <3>4, <4>2, <4>3
    <3> QED BY <3>1, <3>2, <3>3, <3>4
  <2> HIDE DEF active
  <2>3. ActiveAccount(Moved(c, id, to)) = ids[active + 1]
    BY <1>7, <2>2, ActiveIs DEF InRange
  <2> QED BY <2>1, <2>2, <2>3
<1> QED BY <1>7, <1>8

\* Changing one other field keeps the list.
LEMMA FieldChanged ==
  ASSUME NEW c, IsFile(c), NEW id
  PROVE  /\ IsFile(Used(c, id)) /\ Used(c, id).ids = c.ids /\ Used(c, id).active = c.active
         /\ IsFile(Updated(c, id)) /\ Updated(c, id).ids = c.ids
         /\ Updated(c, id).active = c.active
<1> DEFINE s == c.state
           i == c.ids
           a == c.active
           u == c.used
           r == c.rest
           new == 1 - r
<1>1. c = [state |-> s, ids |-> i, active |-> a, used |-> u, rest |-> r]
      /\ i \in Seq(AllAccounts) /\ a \in Int
  BY DEF IsFile
<1>2. Used(c, id) = [c EXCEPT !.used = id] /\ Updated(c, id) = [c EXCEPT !.rest = new]
  BY DEF Used, Updated
<1> HIDE DEF s, i, a, u, r, new
<1>3. Used(c, id) = [state |-> s, ids |-> i, active |-> a, used |-> id, rest |-> r]
  BY <1>1, <1>2
<1>4. Updated(c, id) = [state |-> s, ids |-> i, active |-> a, used |-> u, rest |-> new]
  BY <1>1, <1>2
<1>5. IsFile(Used(c, id)) /\ Used(c, id).ids = i /\ Used(c, id).active = a
  BY <1>1, <1>3 DEF IsFile
<1>6. IsFile(Updated(c, id)) /\ Updated(c, id).ids = i /\ Updated(c, id).active = a
  BY <1>1, <1>4 DEF IsFile
<1> QED BY <1>5, <1>6 DEF i, a

\* Selecting an account keeps the list.
LEMMA IndexChanged ==
  ASSUME NEW c, IsFile(c), NEW value \in Int
  PROVE  IsFile([c EXCEPT !.active = value])
BY DEF IsFile

\* Every edit that is accepted yields a file, and only adding, selecting and
\* removing the active account itself make another account the active one.
LEMMA EditedFacts ==
  ASSUME NEW c, IsFile(c), NEW job \in Jobs, Accepts(c, job)
  PROVE  /\ IsFile(Edited(c, job))
         /\ /\ InRange(c) /\ job.op \notin {"add", "select"}
            /\ ~(job.op = "remove" /\ job.id = ActiveAccount(c))
            => ActiveAccount(Edited(c, job)) = ActiveAccount(c)
<1>1. /\ job.op \in {"add", "update", "remove", "select", "use", "move"}
      /\ job.op = "move" => job.to \in Nat
  BY DEF Jobs, Job
<1>2. /\ job.op # "add" => Found(c, job.id)
      /\ job.op = "move" => job.to < Len(c.ids)
  BY DEF Accepts
<1>3. CASE job.op = "add"
  BY <1>3, AddedFacts DEF Edited
<1>4. CASE job.op = "update"
  <2>1. Edited(c, job) = Updated(c, job.id)
    BY <1>4 DEF Edited
  <2>2. /\ IsFile(Edited(c, job)) /\ Edited(c, job).ids = c.ids
        /\ Edited(c, job).active = c.active
    BY <2>1, FieldChanged
  <2> QED BY <2>2 DEF ActiveAccount
<1>5. CASE job.op = "remove"
  <2>1. Edited(c, job) = Removed(c, job.id)
    BY <1>5 DEF Edited
  <2> QED BY <1>2, <1>5, <2>1, RemovedFacts
<1>6. CASE job.op = "select"
  <2>1. Edited(c, job) = [c EXCEPT !.active = Position(c, job.id) - 1]
    BY <1>6 DEF Edited, Selected
  <2>2. Position(c, job.id) - 1 \in Int
    BY <1>2, <1>6, PositionIs
  <2> QED BY <1>6, <2>1, <2>2, IndexChanged
<1>7. CASE job.op = "use"
  <2>1. Edited(c, job) = Used(c, job.id)
    BY <1>7 DEF Edited
  <2>2. /\ IsFile(Edited(c, job)) /\ Edited(c, job).ids = c.ids
        /\ Edited(c, job).active = c.active
    BY <2>1, FieldChanged
  <2> QED BY <2>2 DEF ActiveAccount
<1>8. CASE job.op = "move"
  <2>1. Edited(c, job) = Moved(c, job.id, job.to)
    BY <1>8 DEF Edited
  <2> QED BY <1>1, <1>2, <1>8, <2>1, MovedFacts
<1> QED BY <1>1, <1>3, <1>4, <1>5, <1>6, <1>7, <1>8

\* Contents are a file.
LEMMA ContentsAreFiles ==
  ASSUME NEW ids \in Seq(AllAccounts), NEW active \in Int, NEW used, NEW state
  PROVE  IsFile(Contents(ids, active, used)) /\ IsFile([Contents(ids, active, used) EXCEPT !.state = state])
<1> DEFINE valid == "valid"
           zero == 0
           c == Contents(ids, active, used)
<1>1. c = [state |-> valid, ids |-> ids, active |-> active, used |-> used, rest |-> zero]
  BY DEF Contents
<1> HIDE DEF valid, zero, c
<1>2. [c EXCEPT !.state = state] = [state |-> state, ids |-> ids, active |-> active, used |-> used, rest |-> zero]
  BY <1>1
<1>3. IsFile(c)
  BY <1>1 DEF IsFile
<1>4. IsFile([c EXCEPT !.state = state])
  BY <1>2 DEF IsFile
<1> QED BY <1>3, <1>4 DEF c

\* So is a configuration that is missing or does not parse, for a list of none.
LEMMA NoFiles == IsFile(Absent) /\ IsFile(Broken) /\ IsFile(Defaults)
<1>1. <<>> \in Seq(AllAccounts) /\ 0 \in Int
  BY EmptySeq
<1> QED BY <1>1, ContentsAreFiles DEF Absent, Broken, Defaults

\* What a program without the lock may leave.
LEMMA ForeignFiles == ASSUME NEW f \in ForeignContents PROVE IsFile(f)
<1>1. ASSUME NEW a \in Accounts PROVE IsFile(Contents(<<a>>, 0, Nobody))
  <2>1. <<a>> \in Seq(AllAccounts) /\ 0 \in Int
    BY DEF AllAccounts
  <2> QED BY <2>1, ContentsAreFiles
<1> QED BY <1>1, NoFiles DEF ForeignContents

\* A finite set can be put in a sequence.
LEMMA AccountsInOrder == SetToSeq(Accounts) \in Seq(AllAccounts)
<1> DEFINE n == Cardinality(Accounts)
           s == SetToSeq(Accounts)
<1>1. n \in Nat /\ ExistsBijection(1..n, Accounts)
  BY AccountsFinite, FS_CardinalityType
<1>2. PICK f : f \in Bijection(1..n, Accounts)
  BY <1>1 DEF ExistsBijection
<1>3. f \in [1..n -> Accounts] /\ IsInjective(f)
  BY <1>2 DEF Bijection, Injection
<1>4. s \in [1..n -> Accounts]
  BY <1>3 DEF SetToSeq
<1>5. [1..n -> Accounts] \subseteq Seq(Accounts)
  BY <1>1, SeqDef
<1>6. s \in Seq(Accounts)
  BY <1>4, <1>5
<1> HIDE DEF s
<1> QED BY <1>6, SeqMonotonic DEF AllAccounts, s

\* What the file and every transaction hold, and that what is about to be saved
\* is an edit that was accepted.
InHand(t) ==
  /\ IsFile(t.base)
  /\ t.pc \in {"edited", "compared"} => t.job \in Jobs /\ Accepts(Loaded(t.base), t.job)

Kept == IsFile(file) /\ \A w \in Writers : InHand(writer[w])

\* What a replacement may do to the active account.
Staying ==
  \A w \in Writers :
    LET before == Loaded(writer[w].base)
        job    == writer[w].job
    IN /\ Replaces(w)
       /\ before.active \in 0..(Len(before.ids) - 1)
       /\ job.op \notin {"add", "select"}
       /\ ~(job.op = "remove" /\ job.id = ActiveAccount(before))
       => ActiveAccount(file') = ActiveAccount(before)

\* The defaults stand in for a file that is missing.
LEMMA LoadedFiles == ASSUME NEW f, IsFile(f) PROVE IsFile(Loaded(f))
BY NoFiles DEF Loaded

\* A step in which the file stays and only w moves.
LEMMA OneKept ==
  ASSUME Inv, Kept, NEW w \in Writers, NEW t, writer' = [writer EXCEPT ![w] = t],
         InHand(t), file' = file
  PROVE  Kept' /\ Staying
<1>1. writer'[w] = t /\ \A v \in Writers : v # w => writer'[v] = writer[v]
  BY DEF Inv, WritersShaped
<1>2. Kept'
  BY <1>1 DEF Kept
<1> QED BY <1>2 DEF Staying, Replaces

\* An ended transaction holds nothing.
LEMMA LeaveKept ==
  ASSUME Inv, Kept, NEW w \in Writers, Leave(w), file' = file
  PROVE  Kept' /\ Staying
<1> DEFINE t == Ended(writer[w].lock)
<1>1. writer' = [writer EXCEPT ![w] = t]
  BY DEF Leave
<1>2. t.pc = "end" /\ t.base = Absent
  BY EndedIs
<1>3. InHand(t)
  BY <1>2, NoFiles DEF InHand
<1> HIDE DEF t
<1> QED BY <1>1, <1>3, OneKept

\* What a transaction holds as it goes on.
LEMMA AdvanceKept ==
  ASSUME Inv, Kept, NEW w \in Writers, NEW pc, NEW job, NEW base,
         writer' = [writer EXCEPT ![w] = Advanced(w, pc, job, base)], file' = file,
         IsFile(base), pc \in {"edited", "compared"} => job \in Jobs /\ Accepts(Loaded(base), job)
  PROVE  Kept' /\ Staying
<1> DEFINE t == Advanced(w, pc, job, base)
<1>1. t.pc = pc /\ t.job = job /\ t.base = base
  BY DEF Advanced
<1> HIDE DEF t
<1>2. InHand(t)
  BY <1>1 DEF InHand
<1>3. writer' = [writer EXCEPT ![w] = t]
  BY DEF t
<1> QED BY <1>2, <1>3, OneKept

\* Setting the line of a transaction, or its line and its job.
LEMMA Advances ==
  ASSUME Inv, NEW w \in Writers, NEW pc, NEW other
  PROVE  /\ [writer[w] EXCEPT !.pc = pc] = Advanced(w, pc, writer[w].job, writer[w].base)
         /\ [writer[w] EXCEPT !.pc = pc, !.job = other] = Advanced(w, pc, other, writer[w].base)
<1> DEFINE t == writer[w]
           s == [t EXCEPT !.pc = pc]
<1>1. Shaped(t)
  BY DEF Inv, WritersShaped
<1>2. /\ s = [pc |-> pc, job |-> t.job, lock |-> t.lock, base |-> t.base, crossed |-> t.crossed]
      /\ [t EXCEPT !.pc = pc, !.job = other] = [s EXCEPT !.job = other]
  BY <1>1 DEF Shaped
<1> HIDE DEF s, t
<1>3. [s EXCEPT !.job = other] =
        [pc |-> pc, job |-> other, lock |-> t.lock, base |-> t.base, crossed |-> t.crossed]
  BY <1>2
<1>4. /\ s = Advanced(w, pc, t.job, t.base)
      /\ [s EXCEPT !.job = other] = Advanced(w, pc, other, t.base)
  BY <1>2, <1>3 DEF Advanced, t
<1>5. [t EXCEPT !.pc = pc] = Advanced(w, pc, t.job, t.base)
  BY <1>4 DEF s
<1> QED BY <1>2, <1>4, <1>5 DEF t

\* Under the lock the file is read, edited in memory, compared: only an edit
\* that is accepted goes on.
LEMMA WorkKept ==
  ASSUME Inv, Kept, NEW w \in Writers, Acquire(w) \/ Load(w) \/ Edit(w) \/ Compare(w)
  PROVE  Kept' /\ Staying
<1>1. CASE Acquire(w)
  <2> DEFINE t == [writer[w] EXCEPT !.pc = "locked"]
  <2>1. writer' = [writer EXCEPT ![w] = t] /\ file' = file
    BY <1>1 DEF Acquire, Goto, Inv, WritersShaped
  <2>2. t = Advanced(w, "locked", writer[w].job, writer[w].base)
    BY Advances
  <2> HIDE DEF t
  <2> DEFINE pc == "locked"
  <2>3. writer' = [writer EXCEPT ![w] = Advanced(w, pc, writer[w].job, writer[w].base)]
    BY <2>1, <2>2
  <2>4. IsFile(writer[w].base) /\ pc \notin {"edited", "compared"}
    BY DEF Kept, InHand
  <2> HIDE DEF pc
  <2> QED BY <2>1, <2>3, <2>4, AdvanceKept
<1>2. CASE Load(w)
  <2>1. CASE file = Broken
    BY <1>2, <2>1, LeaveKept DEF Load
  <2>2. CASE file # Broken
    <3> DEFINE t == [writer[w] EXCEPT !.pc = "loaded", !.base = file]
    <3>1. writer' = [writer EXCEPT ![w] = t] /\ file' = file
      BY <1>2, <2>2 DEF Load, Inv, WritersShaped
    <3>2. t = Advanced(w, "loaded", writer[w].job, file)
      BY TwoFields DEF Advanced, Inv, WritersShaped
    <3> HIDE DEF t
    <3> DEFINE pc == "loaded"
    <3>3. writer' = [writer EXCEPT ![w] = Advanced(w, pc, writer[w].job, file)]
      BY <3>1, <3>2
    <3>4. IsFile(file) /\ pc \notin {"edited", "compared"}
      BY DEF Kept
    <3> HIDE DEF pc
    <3> QED BY <3>1, <3>3, <3>4, AdvanceKept
  <2> QED BY <2>1, <2>2
<1>3. CASE Edit(w)
  <2>1. PICK job \in Jobs :
          IF Accepts(Loaded(writer[w].base), job)
          THEN /\ writer' = [writer EXCEPT ![w].pc = "edited", ![w].job = job]
               /\ UNCHANGED holder
          ELSE Leave(w)
    BY <1>3 DEF Edit
  <2>2. file' = file
    BY <1>3 DEF Edit
  <2>3. CASE Accepts(Loaded(writer[w].base), job)
    <3> DEFINE t == [writer[w] EXCEPT !.pc = "edited", !.job = job]
    <3>1. writer' = [writer EXCEPT ![w] = t]
      BY <2>1, <2>3 DEF Inv, WritersShaped
    <3>2. t = Advanced(w, "edited", job, writer[w].base)
      BY Advances
    <3> HIDE DEF t
    <3>3. IsFile(writer[w].base)
      BY DEF Kept, InHand
    <3> DEFINE pc == "edited"
    <3>4. writer' = [writer EXCEPT ![w] = Advanced(w, pc, job, writer[w].base)]
      BY <3>1, <3>2
    <3> HIDE DEF pc
    <3> QED BY <2>2, <2>3, <3>3, <3>4, AdvanceKept
  <2>4. CASE ~Accepts(Loaded(writer[w].base), job)
    BY <2>1, <2>2, <2>4, LeaveKept
  <2> QED BY <2>3, <2>4
<1>4. CASE Compare(w)
  <2>1. CASE file = writer[w].base
    <3> DEFINE t == [writer[w] EXCEPT !.pc = "compared"]
               job == writer[w].job
               base == writer[w].base
    <3>1. writer' = [writer EXCEPT ![w] = t] /\ file' = file /\ writer[w].pc = "edited"
      BY <1>4, <2>1 DEF Compare, Inv, WritersShaped
    <3>2. t = Advanced(w, "compared", job, base)
      BY Advances
    <3>3. IsFile(base) /\ job \in Jobs /\ Accepts(Loaded(base), job)
      BY <3>1 DEF Kept, InHand
    <3> HIDE DEF t, job, base
    <3> DEFINE pc == "compared"
    <3>4. writer' = [writer EXCEPT ![w] = Advanced(w, pc, job, base)]
      BY <3>1, <3>2
    <3> HIDE DEF pc
    <3> QED BY <3>1, <3>3, <3>4, AdvanceKept
  <2>2. CASE file # writer[w].base
    BY <1>4, <2>2, LeaveKept DEF Compare
  <2> QED BY <2>1, <2>2
<1> QED BY <1>1, <1>2, <1>3, <1>4

\* Whoever is crossed by a change keeps what it holds.
LEMMA CrossKept ==
  ASSUME Inv, Kept, NEW v \in Writers, NEW by, writer'[v] = Cross(by)[v]
  PROVE  InHand(writer'[v]) /\ writer'[v].pc = writer[v].pc
<1> DEFINE t == writer[v]
<1>1. Shaped(t) /\ InHand(t)
  BY DEF Inv, WritersShaped, Kept
<1>2. writer'[v] = [t EXCEPT !.crossed = TRUE] \/ writer'[v] = t
  BY DEF Cross
<1> HIDE DEF t
<1>3. LET u == [t EXCEPT !.crossed = TRUE]
      IN u.pc = t.pc /\ u.job = t.job /\ u.base = t.base
  BY <1>1 DEF Shaped
<1>4. InHand([t EXCEPT !.crossed = TRUE])
  BY <1>1, <1>3 DEF InHand
<1> QED BY <1>1, <1>2, <1>3, <1>4 DEF t

\* What is saved is the edit of what was loaded.
LEMMA ReplaceKept == ASSUME Inv, Kept, NEW w \in Writers, Replace(w) PROVE Kept' /\ Staying
<1>1. CASE Leave(w) /\ UNCHANGED file
  BY <1>1, LeaveKept
<1>2. CASE /\ file' = Edited(Loaded(writer[w].base), writer[w].job)
           /\ writer' = [Cross(w) EXCEPT ![w] = Ended(@.lock)]
  <2> DEFINE before == Loaded(writer[w].base)
             job == writer[w].job
             t == Ended(writer[w].lock)
  <2>1. writer[w].pc = "compared"
    BY DEF Replace
  <2>2. IsFile(before) /\ job \in Jobs /\ Accepts(before, job)
    BY <2>1, LoadedFiles DEF Kept, InHand
  <2>3. /\ IsFile(Edited(before, job))
        /\ /\ InRange(before) /\ job.op \notin {"add", "select"}
           /\ ~(job.op = "remove" /\ job.id = ActiveAccount(before))
           => ActiveAccount(Edited(before, job)) = ActiveAccount(before)
    <3> HIDE DEF before, job
    <3> QED BY <2>2, EditedFacts
  <2>4. DOMAIN Cross(w) = Writers /\ Cross(w)[w] = writer[w]
    BY DEF Cross
  <2>5. writer'[w] = t /\ \A v \in Writers : v # w => writer'[v] = Cross(w)[v]
    BY <1>2, <2>4
  <2>6. InHand(t)
    <3>1. t.pc = "end" /\ t.base = Absent
      BY EndedIs
    <3> QED BY <3>1, NoFiles DEF InHand
  <2>7. \A v \in Writers : v # w => InHand(writer'[v]) /\ writer'[v].pc = writer[v].pc
    BY <2>5, CrossKept
  <2> HIDE DEF t
  <2>8. Kept'
    BY <1>2, <2>3, <2>5, <2>6, <2>7 DEF Kept
  <2>9. Staying
    <3> SUFFICES ASSUME NEW v \in Writers, Replaces(v),
                        Loaded(writer[v].base).active \in 0..(Len(Loaded(writer[v].base).ids) - 1),
                        writer[v].job.op \notin {"add", "select"},
                        ~(/\ writer[v].job.op = "remove"
                          /\ writer[v].job.id = ActiveAccount(Loaded(writer[v].base)))
                 PROVE  ActiveAccount(file') = ActiveAccount(Loaded(writer[v].base))
      BY DEF Staying
    <3>1. v = w
      BY <2>7 DEF Replaces
    <3>2. InRange(before)
      BY <3>1 DEF InRange
    <3> QED BY <1>2, <2>3, <3>1, <3>2
  <2> QED BY <2>8, <2>9
<1> QED BY <1>1, <1>2 DEF Replace

\* A program without the lock leaves a file as well, and ends no transaction.
LEMMA ForeignKept == ASSUME Inv, Kept, ForeignChange PROVE Kept' /\ Staying
<1>1. writer' = Cross(Nobody) /\ file' \in ForeignContents
  BY DEF ForeignChange
<1>2. \A v \in Writers : InHand(writer'[v]) /\ writer'[v].pc = writer[v].pc
  BY <1>1, CrossKept
<1>3. IsFile(file')
  BY <1>1, ForeignFiles
<1> QED BY <1>2, <1>3 DEF Kept, Staying, Replaces

\* The file is a file from the start, and nobody holds an edit.
LEMMA InitKept == ConfigInit => Kept
<1> SUFFICES ASSUME ConfigInit PROVE Kept
  OBVIOUS
<1>1. IsFile(file)
  <2>1. ASSUME NEW active \in 0..Cardinality(Accounts)
        PROVE  IsFile(Contents(SetToSeq(Accounts), active, Nobody))
    <3>1. active \in Int
      BY AccountsFinite, FS_CardinalityType
    <3> QED BY <3>1, AccountsInOrder, ContentsAreFiles
  <2> QED BY <2>1, NoFiles DEF ConfigInit
<1>2. PICK lock \in [Writers -> Locks] : writer = [w \in Writers |-> Starting(lock[w])]
  BY DEF ConfigInit
<1>3. ASSUME NEW w \in Writers PROVE InHand(writer[w])
  <2> DEFINE job == NoJob
             base == Absent
             no == FALSE
             l == lock[w]
             t == Starting(l)
  <2>1. t = [pc |-> "start", job |-> job, lock |-> l, base |-> base, crossed |-> no]
    BY DEF Starting
  <2>2. IsFile(base)
    BY NoFiles
  <2> HIDE DEF job, base, no, l, t
  <2>3. InHand(t)
    BY <2>1, <2>2 DEF InHand
  <2> QED BY <1>2, <2>3 DEF t, l
<1> QED BY <1>1, <1>3 DEF Kept

\* What every step keeps of the files, and what it may do to the active account.
LEMMA KeptStep == Inv /\ Kept /\ [ConfigNext]_configVars => Kept' /\ [Staying]_configVars
<1>1. ASSUME Inv, Kept, NEW w \in Writers, Crash(w) PROVE Kept' /\ Staying
  BY <1>1, LeaveKept DEF Crash
<1>2. Inv /\ Kept /\ ConfigNext => Kept' /\ Staying
  BY <1>1, WorkKept, ReplaceKept, ForeignKept DEF ConfigNext, Transaction
<1>3. Kept /\ UNCHANGED configVars => Kept'
  BY DEF Kept, configVars
<1> QED BY <1>2, <1>3

\* codexbar_token_accounts_remove, codexbar_token_accounts_move: for any list of
\* accounts, however many commands change it at once, the account that is read
\* by default stays the same unless it was removed or another was selected.
THEOREM ActiveAccountIsKept == ConfigSpec => ActiveAccountStays
<1>1. ConfigSpec => []Inv
  BY InitInv, ConfigStep, PTL DEF ConfigSpec
<1>2. ConfigSpec => [][Staying]_configVars
  BY <1>1, InitKept, KeptStep, PTL DEF ConfigSpec
<1> QED BY <1>2 DEF ActiveAccountStays, Staying
=============================================================================
