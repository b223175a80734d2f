----------------------------- MODULE ConfigStore -----------------------------
(***************************************************************************)
(* The private configuration file and the transactions that change it:     *)
(* codexbar_config_load_for_update, an edit, codexbar_config_save.  A      *)
(* writer is a command of the CLI, the TUI's first start or a refresh that *)
(* records the use of a token account.  An editor changes the file without *)
(* taking the lock, and a writer may be killed at any step.                *)
(*                                                                         *)
(* The part of the file that the properties tell apart is one provider's   *)
(* token accounts, the index of the active one and the account that was    *)
(* used last.                                                              *)
(***************************************************************************)
EXTENDS Integers, SequencesExt

CONSTANTS
  Writers,       \* processes that change the configuration
  Accounts,      \* identifiers of token accounts
  NewAccount,    \* the account an "add" creates
  Locks,         \* lock files: one for each runtime directory in use
  MaxForeign     \* bound: changes made by programs that do not lock

VARIABLES
  file,          \* the configuration file: Absent, Broken or contents
  holder,        \* holder[l]: the writer that holds flock on l, or Nobody
  writer,        \* writer[w]: how far its transaction is
  foreign        \* number of foreign changes so far

configVars == <<file, holder, writer, foreign>>

Nobody == "nobody"

ASSUME NobodyWrites == Nobody \notin Writers
ASSUME AccountsFinite == IsFiniteSet(Accounts)

\* What the file says; "rest" stands for the other fields of the provider.
Contents(ids, active, used) ==
  [state |-> "valid", ids |-> ids, active |-> active, used |-> used, rest |-> 0]

Absent == [Contents(<<>>, 0, Nobody) EXCEPT !.state = "absent"]
Broken == [Contents(<<>>, 0, Nobody) EXCEPT !.state = "broken"]  \* it does not parse

-----------------------------------------------------------------------------
(* Token accounts (token_accounts.c).  Positions are 1-based here, and     *)
(* activeIndex is 0-based as in the file, where it may hold any integer.   *)

Clamp(i, low, high) == IF i < low THEN low ELSE IF i > high THEN high ELSE i

\* The account that is read when none is named.
ActiveAccount(c) ==
  IF c.ids = <<>> THEN Nobody ELSE c.ids[Clamp(c.active, 0, Len(c.ids) - 1) + 1]

Found(c, id) == \E i \in DOMAIN c.ids : c.ids[i] = id
Position(c, id) == CHOOSE i \in DOMAIN c.ids : c.ids[i] = id

\* The new account becomes the active one.
Added(c, id) == [c EXCEPT !.ids = Append(@, id), !.active = Len(c.ids)]

Updated(c, id) == [c EXCEPT !.rest = 1 - @]

Removed(c, id) ==
  LET index == Position(c, id) - 1
      ids   == RemoveAt(c.ids, index + 1)
      next  == IF c.active = index THEN index
               ELSE IF c.active > index THEN c.active - 1 ELSE c.active
  IN [c EXCEPT !.ids = ids,
               !.active = IF ids = <<>> THEN 0 ELSE Clamp(next, 0, Len(ids) - 1)]

Selected(c, id) == [c EXCEPT !.active = Position(c, id) - 1]

\* Deviation: the index of the active account is left as it was.
BadMoved(c, id, to) ==
  [c EXCEPT !.ids = InsertAt(RemoveAt(c.ids, Position(c, id)), to + 1, id)]

Moved(c, id, to) ==
  LET from == Position(c, id) - 1
  IN [c EXCEPT
       !.ids = InsertAt(RemoveAt(c.ids, from + 1), to + 1, id),
       !.active = CASE @ = from -> to
                    [] from < to /\ @ > from /\ @ <= to -> @ - 1
                    [] to < from /\ @ >= to /\ @ < from -> @ + 1
                    [] OTHER -> @]

\* mark_token_account_used finds the account again, by its identifier.
Used(c, id) == [c EXCEPT !.used = id]

\* What a transaction is for: its operation, the account and a destination.
Job(op, id, to) == [op |-> op, id |-> id, to |-> to]
NoJob == Job("none", Nobody, 0)
Jobs == {Job("add", NewAccount, 0)} \cup
        {Job(op, id, 0) : op \in {"update", "remove", "select", "use"}, id \in Accounts} \cup
        {Job("move", id, to) : id \in Accounts, to \in 0..Cardinality(Accounts)}

\* The edits that fail leave the file alone.
Accepts(c, job) ==
  IF job.op = "add" THEN TRUE
  ELSE Found(c, job.id) /\ (job.op = "move" => job.to < Len(c.ids))

Edited(c, job) ==
  CASE job.op = "add"    -> Added(c, NewAccount)
    [] job.op = "update" -> Updated(c, job.id)
    [] job.op = "remove" -> Removed(c, job.id)
    [] job.op = "select" -> Selected(c, job.id)
    [] job.op = "move"   -> Moved(c, job.id, job.to)
    [] job.op = "use"    -> Used(c, job.id)

-----------------------------------------------------------------------------
(* The transaction.                                                        *)

\* A configuration that does not exist yet is loaded as the defaults.
Defaults == Contents(<<>>, 0, Nobody)
Loaded(f) == IF f = Absent THEN Defaults ELSE f

\* config_new: nothing is held and nothing is loaded.
Starting(lock) ==
  [pc |-> "start", job |-> NoJob, lock |-> lock, base |-> Absent, crossed |-> FALSE]
Ended(lock) == [Starting(lock) EXCEPT !.pc = "end"]

\* Deviation: a writer that is done does not close the lock.
BadRelease(w) == UNCHANGED holder

\* flock ends with the process and with codexbar_config_free.
Release(w) == holder' = [l \in Locks |-> IF holder[l] = w THEN Nobody ELSE holder[l]]
Leave(w) == Release(w) /\ writer' = [writer EXCEPT ![w] = Ended(@.lock)]
Goto(w, pc) == writer' = [writer EXCEPT ![w].pc = pc]

\* Deviation: the lock is not taken.
BadAcquire(w) ==
  /\ writer[w].pc = "start"
  /\ Goto(w, "locked")
  /\ UNCHANGED <<file, holder, foreign>>

Acquire(w) ==
  /\ writer[w].pc = "start"
  /\ holder[writer[w].lock] = Nobody
  /\ holder' = [holder EXCEPT ![writer[w].lock] = w]
  /\ Goto(w, "locked")
  /\ UNCHANGED <<file, foreign>>

\* A file that cannot be parsed ends the command.
Load(w) ==
  /\ writer[w].pc = "locked"
  /\ IF file = Broken
     THEN Leave(w)
     ELSE /\ writer' = [writer EXCEPT ![w].pc = "loaded", ![w].base = file]
          /\ UNCHANGED holder
  /\ UNCHANGED <<file, foreign>>

Edit(w) ==
  /\ writer[w].pc = "loaded"
  /\ \E job \in Jobs :
       IF Accepts(Loaded(writer[w].base), job)
       THEN /\ writer' = [writer EXCEPT ![w].pc = "edited", ![w].job = job]
            /\ UNCHANGED holder
       ELSE Leave(w)
  /\ UNCHANGED <<file, foreign>>

\* A file that changed since it was loaded is not overwritten.
Compare(w) ==
  /\ writer[w].pc = "edited"
  /\ IF file = writer[w].base
     THEN /\ writer' = [writer EXCEPT ![w].pc = "compared"]
          /\ UNCHANGED holder
     ELSE Leave(w)
  /\ UNCHANGED <<file, foreign>>

\* Every writer that has compared and not yet replaced is crossed by a change.
Cross(w) == [v \in Writers |->
  IF v # w /\ writer[v].pc = "compared" THEN [writer[v] EXCEPT !.crossed = TRUE]
  ELSE writer[v]]

\* g_file_set_contents_full replaces the file by a rename, or fails and leaves
\* it.  (The mode is set afterwards: when that fails the command reports an
\* error although the file has been replaced.)
Replace(w) ==
  /\ writer[w].pc = "compared"
  /\ \/ /\ file' = Edited(Loaded(writer[w].base), writer[w].job)
        /\ writer' = [Cross(w) EXCEPT ![w] = Ended(@.lock)]
        /\ Release(w)
     \/ Leave(w) /\ UNCHANGED file
  /\ UNCHANGED foreign

\* The process is killed: the kernel drops its lock, the file is not touched.
Crash(w) ==
  /\ writer[w].pc \notin {"start", "end"}
  /\ Leave(w)
  /\ UNCHANGED <<file, foreign>>

\* A text editor, a synchronisation tool, an installer.
ForeignContents ==
  {Absent, Broken} \cup {Contents(<<a>>, 0, Nobody) : a \in Accounts}

ForeignChange ==
  /\ foreign < MaxForeign
  /\ foreign' = foreign + 1
  /\ file' \in ForeignContents \ {file}
  /\ writer' = Cross(Nobody)
  /\ UNCHANGED holder

-----------------------------------------------------------------------------
\* The accounts of a file are interchangeable: one order of them is enough.
ConfigInit ==
  /\ file \in {Absent, Broken} \cup
       {Contents(SetToSeq(Accounts), active, Nobody) : active \in 0..Cardinality(Accounts)}
  /\ holder = [l \in Locks |-> Nobody]
  /\ \E lock \in [Writers -> Locks] : writer = [w \in Writers |-> Starting(lock[w])]
  /\ foreign = 0

Transaction(w) ==
  Acquire(w) \/ Load(w) \/ Edit(w) \/ Compare(w) \/ Replace(w)

ConfigNext ==
  \/ \E w \in Writers : Transaction(w) \/ Crash(w)
  \/ ForeignChange

\* flock is granted in no order, but each writer takes it once.
ConfigSpec ==
  /\ ConfigInit /\ [][ConfigNext]_configVars
  /\ \A w \in Writers : WF_configVars(Transaction(w))

-----------------------------------------------------------------------------
\* w is about to have replaced the file.
Replaces(w) == writer[w].pc = "compared" /\ writer'[w].pc = "end" /\ file' # file

\* Somebody that w's lock does not keep out.
Outsider(w) == foreign > 0 \/ \E v \in Writers : writer[v].lock # writer[w].lock

\* A transaction never undoes another: what replaces the file was made from
\* what it replaces.  The exception is a change by a program that does not
\* hold the same lock, between the comparison of the digests and the rename
\* (codexbar_config_save, acquire_config_lock).
UpdatesBuildOnTheFile ==
  [][\A w \in Writers : Replaces(w) =>
       \/ file = writer[w].base
       \/ writer[w].crossed /\ Outsider(w)]_configVars

\* Unless it was selected anew or removed, the active account is the same
\* before and after any change of the list, whatever positions it moves to
\* (codexbar_token_accounts_remove, codexbar_token_accounts_move).  A file
\* whose activeIndex is out of range is repaired by some edits only.
ActiveAccountStays ==
  [][\A w \in Writers :
       LET before == Loaded(writer[w].base)
           job    == writer[w].job
       IN /\ Replaces(w)
          /\ before.active \in 0..(Len(before.ids) - 1)
          /\ job.op \notin {"add", "select"}
          /\ ~(job.op = "remove" /\ job.id = ActiveAccount(before))
          => ActiveAccount(file') = ActiveAccount(before)]_configVars

\* Whoever waits for the lock gets it, however its holder ends
\* (acquire_config_lock, codexbar_config_free).
WritersEnd == \A w \in Writers : <>(writer[w].pc = "end")
=============================================================================
