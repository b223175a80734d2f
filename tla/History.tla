------------------------------- MODULE History -------------------------------
(***************************************************************************)
(* The utilization history of one provider: a file of hourly peaks for     *)
(* each account, which codexbar_history_store_record reads, extends with a *)
(* sample and replaces.  The threads of a process share a mutex; processes *)
(* (the status item, the dashboard, a CLI) share only the file.            *)
(***************************************************************************)
EXTENDS Integers, SequencesExt

CONSTANTS
  Recorders,     \* threads that record samples
  Processes,     \* the processes they may belong to
  AccountKeys,   \* keys of accounts that have an identity
  MaxSamples,    \* HISTORY_MAX_SAMPLES
  HourTicks,     \* length of an hour in ticks of the clock
  ResetTolerance,\* HISTORY_RESET_TOLERANCE_MS
  MaxTick, MaxRecords   \* bounds: ticks of the clock, records that are made

VARIABLES
  history,       \* the file: is it valid, and the series of each account
  mutex,         \* mutex[p]: the thread of process p that holds the store
  recorder,      \* recorder[r]: its process and what it is doing
  tick,          \* the clock; it may be set back
  records        \* number of records begun

historyVars == <<history, mutex, recorder, tick, records>>

Unscoped == "unscoped"   \* the bucket of samples without an identity
Keys == AccountKeys \cup {Unscoped}
NoThread == "no thread"
NoReset == 0

ASSUME NobodyRecords == NoThread \notin Recorders
ASSUME HistoryConstants ==
  MaxSamples \in Nat \ {0} /\ HourTicks \in Nat \ {0} /\ ResetTolerance \in Nat \ {0}

Uses == 1..2             \* used percent
Resets == 1..3           \* times of reset: 1 and 2 are one reset, as are 2 and 3

-----------------------------------------------------------------------------
(* Entries and series.                                                     *)

Entry(at, used, reset) == [at |-> at, used |-> used, reset |-> reset]
HourOf(e) == e.at \div HourTicks

\* entry_compare
Earlier(e, f) == e.at < f.at \/ (e.at = f.at /\ e.used < f.used)

Distance(a, b) == IF a < b THEN b - a ELSE a - b

StartsResetSegment(previous, current) ==
  /\ previous.reset # NoReset /\ current.reset # NoReset
  /\ Distance(previous.reset, current.reset) >= ResetTolerance

\* Deviation: the later of two entries replaces the peak.
BadSegmentPeak(e, f) == f

SegmentPeak(e, f) ==
  IF f.used > e.used \/ (f.used = e.used /\ f.at >= e.at) THEN f ELSE e

\* The peak of the first segment of an hour and the peak of its last one.
NextPeaks(peaks, e) ==
  IF peaks = <<>> THEN <<e>>
  ELSE IF StartsResetSegment(Last(peaks), e) THEN <<Head(peaks), e>>
  ELSE Append(Front(peaks), SegmentPeak(Last(peaks), e))

HourPeaks(hour) == FoldLeft(NextPeaks, <<>>, hour)

\* g_ptr_array_sort is stable.
Inserted(sorted, e) ==
  InsertAt(sorted, 1 + Max({0} \cup {i \in DOMAIN sorted : ~Earlier(e, sorted[i])}), e)

Sorted(entries) == FoldLeft(Inserted, <<>>, entries)

\* The members of a list that are in a set.
Only(list, set) ==
  LET Next(kept, e) == IF e \in set THEN Append(kept, e) ELSE kept
  IN FoldLeft(Next, <<>>, list)

HourEntries(entries, sample) == {e \in Range(entries) : HourOf(e) = HourOf(sample)}

ReplaceHourEntries(entries, sample) ==
  LET inHour == HourEntries(entries, sample)
      hour == Sorted(Append(Only(entries, inHour), sample))
      all  == Sorted(Only(entries, Range(entries) \ inHour) \o HourPeaks(hour))
  IN SubSeq(all, IF Len(all) > MaxSamples THEN Len(all) - MaxSamples + 1 ELSE 1, Len(all))

\* Windows of nearly the length of a session or a week count as that length.
Series(window, entries) == [window |-> window, entries |-> entries]
CanonicalMinutes(window) == IF window = "nearly a session" THEN "session" ELSE window

Sessions(bucket) == {s \in Range(bucket) : CanonicalMinutes(s.window) = "session"}

\* Equivalent series of a file are merged into the first one.
AddNew(kept, e) == IF Contains(kept, e) THEN kept ELSE Append(kept, e)
Merged(kept, s) == FoldLeft(AddNew, kept, s.entries)

SeriesEntries(bucket) ==
  LET same == Only(bucket, Sessions(bucket))
  IN IF same = <<>> THEN <<>> ELSE FoldLeft(Merged, Head(same).entries, Tail(same))

Recorded(bucket, sample) ==
  Append(Only(bucket, Range(bucket) \ Sessions(bucket)),
         Series("session", ReplaceHourEntries(SeriesEntries(bucket), sample)))

EmptyDocument == [valid |-> TRUE, buckets |-> [k \in Keys |-> <<>>], preferred |-> Unscoped]

RecordProvider(document, key, sample) ==
  [document EXCEPT !.buckets[key] = Recorded(@, sample),
                   !.preferred = IF key = Unscoped THEN @ ELSE key]

-----------------------------------------------------------------------------
(* Recording.                                                              *)

Waiting(process) ==
  [pc |-> "idle", process |-> process, base |-> EmptyDocument, lost |-> FALSE,
   key |-> Unscoped, sample |-> Entry(0, 0, NoReset)]

\* A refresh has ended: thread r has a sample of an account to record.
HasSample(r) ==
  /\ recorder[r].pc = "idle" /\ records < MaxRecords
  /\ records' = records + 1
  /\ \E key \in Keys, used \in Uses, reset \in Resets \cup {NoReset} :
       recorder' = [recorder EXCEPT ![r].pc = "read", ![r].key = key,
                                    ![r].sample = Entry(tick, used, reset)]

\* Deviation: the threads of a process do not exclude each other.
BadEnter(r) ==
  /\ HasSample(r)
  /\ UNCHANGED <<history, mutex, tick>>

Enter(r) ==
  /\ HasSample(r)
  /\ mutex[recorder[r].process] = NoThread
  /\ mutex' = [mutex EXCEPT ![recorder[r].process] = r]
  /\ UNCHANGED <<history, tick>>

\* load_path: a file of another schema, or one that cannot be read just now,
\* is as good as none.
Read(r) ==
  /\ recorder[r].pc = "read"
  /\ \E readable \in BOOLEAN :
       LET usable == readable /\ history.valid
       IN recorder' = [recorder EXCEPT
            ![r].pc = "write", ![r].lost = ~usable,
            ![r].base = IF usable THEN history ELSE EmptyDocument]
  /\ UNCHANGED <<history, mutex, tick, records>>

\* Another process that has read the file loses what r writes.
Overtaken(r) == [s \in Recorders |->
  IF recorder[s].pc = "write" /\ recorder[s].process # recorder[r].process
  THEN [recorder[s] EXCEPT !.lost = TRUE] ELSE recorder[s]]

\* record_provider and atomic_write; the file is replaced or stays.
Write(r) ==
  /\ recorder[r].pc = "write"
  /\ \/ /\ history' = RecordProvider(recorder[r].base, recorder[r].key, recorder[r].sample)
        /\ recorder' = [Overtaken(r) EXCEPT ![r] = Waiting(@.process)]
     \/ /\ recorder' = [recorder EXCEPT ![r] = Waiting(@.process)]
        /\ UNCHANGED history
  /\ mutex' = [mutex EXCEPT ![recorder[r].process] = IF @ = r THEN NoThread ELSE @]
  /\ UNCHANGED <<tick, records>>

\* Time passes between records; a clock that is set back makes it repeat.
Tick ==
  /\ \A r \in Recorders : recorder[r].pc = "idle"
  /\ tick' \in {tick - 1, tick + 1} \cap 0..MaxTick
  /\ UNCHANGED <<history, mutex, recorder, records>>

-----------------------------------------------------------------------------
\* A file of a newer version, and one of an older version that recorded windows
\* of 299 and 300 minutes apart.
NewerFile == [EmptyDocument EXCEPT !.valid = FALSE]
OlderSeries ==
  <<Series("nearly a session", <<Entry(0, 1, 1), Entry(0, 3, 1)>>),
    Series("week", <<Entry(0, 1, NoReset)>>),
    Series("session", <<Entry(0, 3, 1), Entry(1, 2, 2)>>)>>
OlderFile(k) == [EmptyDocument EXCEPT !.buckets[k] = OlderSeries]

HistoryInit ==
  /\ history \in {EmptyDocument, NewerFile} \cup {OlderFile(k) : k \in AccountKeys}
  /\ mutex = [p \in Processes |-> NoThread]
  /\ \E process \in [Recorders -> Processes] :
       recorder = [r \in Recorders |-> Waiting(process[r])]
  /\ tick \in 0..1
  /\ records = 0

HistoryNext == Tick \/ \E r \in Recorders : Enter(r) \/ Read(r) \/ Write(r)

HistorySpec == HistoryInit /\ [][HistoryNext]_historyVars

-----------------------------------------------------------------------------
Hours(entries) == {HourOf(entries[i]) : i \in DOMAIN entries}
SessionOf(document, key) == SeriesEntries(document.buckets[key])

\* A write that has lost nothing extends the very file it replaces, in the
\* series of its own account, or leaves it (codexbar_history_store_record reads
\* and replaces the file under the mutex of its process).
RecordsExtendTheFile ==
  [][\A r \in Recorders :
       recorder[r].pc = "write" /\ recorder'[r].pc = "idle" /\ ~recorder[r].lost =>
         /\ history' \in {history, RecordProvider(history, recorder[r].key, recorder[r].sample)}
         /\ \A k \in Keys \ {recorder[r].key} :
              history'.buckets[k] = history.buckets[k]]_historyVars

\* A write loses no hour that the file knew, of any account, except the oldest
\* ones beyond the limit; and no window but the one it extends.  What it may
\* lose is a file it could not read and what another process wrote since it
\* read (codexbar_history_store_record has no lock between processes).
RecordKeepsHistory ==
  [][\A r \in Recorders :
       recorder[r].pc = "write" /\ recorder'[r].pc = "idle" /\ ~recorder[r].lost =>
         \A k \in Keys :
           /\ \/ Hours(SessionOf(history, k)) \subseteq Hours(SessionOf(history', k))
              \/ Len(SessionOf(history', k)) = MaxSamples
           /\ \A i \in DOMAIN history.buckets[k] : history.buckets[k][i].window = "week" =>
                Contains(history'.buckets[k], history.buckets[k][i])]_historyVars

HourPlaces(entries, hour) == {i \in DOMAIN entries : HourOf(entries[i]) = hour}

\* The other entries of its hour are earlier than this one and of another segment.
Active(entries, hour, i) ==
  \A j \in HourPlaces(entries, hour) \ {i} :
    Earlier(entries[j], entries[i]) /\ StartsResetSegment(entries[j], entries[i])

KeepsPeaks(r) ==
  LET sample  == recorder[r].sample
      hour    == HourOf(sample)
      before  == SessionOf(recorder[r].base, recorder[r].key)
      entries == SessionOf(history', recorder[r].key)
  IN /\ Len(entries) <= MaxSamples /\ Cardinality(HourPlaces(entries, hour)) <= 2
     /\ \A i, j \in DOMAIN entries : i < j => ~Earlier(entries[j], entries[i])
     /\ (\A i \in DOMAIN before : Earlier(before[i], sample)) =>
          \E peak \in HourPlaces(entries, hour) :
            /\ ~StartsResetSegment(entries[peak], sample)
            /\ entries[peak].used >= sample.used
            /\ \A i \in HourPlaces(before, hour) :
                 Active(before, hour, i) /\ ~StartsResetSegment(before[i], sample) =>
                   entries[peak].used >= before[i].used

\* A series stays in order of time and within its limit, and the hour of the
\* new sample keeps two peaks at most (replace_hour_entries).  The use that was
\* measured is told until it resets: an entry of the sample's hour and reset
\* segment is as high as the sample, and as the last entry of the hour if the
\* sample goes on with its segment (segment_peak).  The exceptions are a sample
\* that a clock set back puts before entries that are already there, and an
\* hour of which a reset time that moves to and fro has left two entries in one
\* segment.
PeaksAreKept ==
  [][\A r \in Recorders :
       recorder[r].pc = "write" /\ recorder'[r].pc = "idle" /\ history' # history =>
         KeepsPeaks(r)]_historyVars
=============================================================================
