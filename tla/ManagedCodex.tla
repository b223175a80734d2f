---------------------------- MODULE ManagedCodex ----------------------------
(***************************************************************************)
(* The managed Codex accounts: a file that lists them, one home directory  *)
(* for each, and the account the configuration selects.  Commands          *)
(* (codex-accounts import, login, reauth, remove, select) change the file  *)
(* under a lock, the homes around it and the selection after it; each step *)
(* may fail or be the last one of a command that is killed.                *)
(*                                                                         *)
(* Accounts of different e-mail addresses never meet in a comparison, so   *)
(* one address stands for each: an account is told apart by its workspace, *)
(* which its credentials may not name.  A change of the configuration is   *)
(* one step here (module ConfigStore shows what that takes).               *)
(***************************************************************************)
EXTENDS Integers, SequencesExt

CONSTANTS
  Commanders,    \* processes that run a command
  Workspaces,    \* workspace identifiers
  MaxCommands    \* bound: commands that are started

VARIABLES
  listed,        \* the accounts of the file, in order
  homes,         \* home directories that exist
  storeLock,     \* the process that holds flock on the file's lock
  active,        \* codexActiveSource of the configuration
  command,       \* command[p]: what process p is doing
  started,       \* number of commands started; numbers homes and accounts
  mishap,        \* a step failed, was cut short or dropped a duplicate
  torn,          \* a replaced file was reported as not saved
  raced          \* an account was selected after it had been removed

managedVars == <<listed, homes, storeLock, active, command, started, mishap, torn, raced>>

NoWorkspace == "no workspace"
Live == 0                \* CODEXBAR_CODEX_SOURCE_LIVE_SYSTEM; identifiers are not 0
Outside == 0             \* a home that is not below the managed root
NoHome == -1
Free == "free"

ASSUME FreeIsNobody == Free \notin Commanders

ManagedAccount(id, workspace, home) == [id |-> id, workspace |-> workspace, home |-> home]

Idle == [pc |-> "idle", kind |-> "none", id |-> 0, workspace |-> NoWorkspace,
         accounts |-> <<>>, new |-> NoHome, login |-> NoHome, old |-> NoHome,
         dropped |-> FALSE]

-----------------------------------------------------------------------------
(* Identity.                                                               *)

\* duplicate_account
Duplicate(a, b) == a.id = b.id \/ a.workspace = b.workspace

Distinct(accounts) == \A i, j \in DOMAIN accounts : i # j => ~Duplicate(accounts[i], accounts[j])

\* codexbar_managed_codex_store_load keeps the first of several duplicates.
WithoutDuplicates(accounts) ==
  LET kept[n \in 0..Len(accounts)] ==
        IF n = 0 THEN <<>>
        ELSE IF \E i \in DOMAIN kept[n - 1] : Duplicate(kept[n - 1][i], accounts[n])
        THEN kept[n - 1] ELSE Append(kept[n - 1], accounts[n])
  IN kept[Len(accounts)]

\* The same account, as far as both name their workspace.
SameIdentity(a, workspace) ==
  workspace = NoWorkspace \/ a.workspace = NoWorkspace \/ a.workspace = workspace

\* The account an import brings up to date: its exact workspace, or the first
\* one that names none.
Matches(a, workspace) ==
  \/ a.workspace = NoWorkspace
  \/ workspace # NoWorkspace /\ a.workspace = workspace

Ids(accounts) == {accounts[i].id : i \in DOMAIN accounts}
IndexOf(accounts, id) == CHOOSE i \in DOMAIN accounts : accounts[i].id = id

\* The index of the account to bring up to date, 0 when there is none.
Existing(c) ==
  LET fitting == {i \in DOMAIN c.accounts : Matches(c.accounts[i], c.workspace)}
  IN IF c.kind = "reauth" THEN IndexOf(c.accounts, c.id)
     ELSE IF fitting = {} THEN 0
     ELSE CHOOSE i \in fitting : \A j \in fitting : i <= j

\* Deviation: whatever the account names is deleted.
BadDeletable(h) == {h} \ {NoHome}

\* safe_home: only homes below the managed root are ever deleted.
Deletable(h) == {h} \ {Outside, NoHome}

-----------------------------------------------------------------------------
(* Commands.                                                               *)

\* remove_tree and codexbar_managed_codex_discard_home; a home that cannot be
\* deleted stays, and most callers ignore that.
Discard(doomed) ==
  \E kept \in SUBSET (doomed \cap homes) :
    /\ homes' = homes \ (doomed \ kept)
    /\ mishap' = (mishap \/ kept # {})

End(p) ==
  /\ command' = [command EXCEPT ![p] = Idle]
  /\ storeLock' = IF storeLock = p THEN Free ELSE storeLock

\* Identifiers of accounts and homes are random and never used twice.
Begin(p) ==
  /\ command[p].pc = "idle" /\ started < MaxCommands
  /\ started' = started + 1
  /\ \E kind \in {"import", "login", "reauth", "remove", "select"},
        id \in Ids(listed) \cup {0}, workspace \in Workspaces \cup {NoWorkspace} :
       /\ (id # 0) = (kind \in {"reauth", "remove", "select"})
       /\ command' = [command EXCEPT ![p] =
            [Idle EXCEPT
               !.pc = IF kind = "select" THEN "choose" ELSE "lock",
               !.kind = kind,
               !.id = id,
               !.workspace = IF kind = "import" THEN workspace ELSE NoWorkspace,
               !.new = 2 * started + 1,
               !.login = IF kind \in {"login", "reauth"} THEN 2 * started + 2 ELSE NoHome]]
  /\ UNCHANGED <<listed, homes, storeLock, active, mishap, torn, raced>>

\* Loads the accounts and finds the one that is named; a login starts in a
\* home of its own.  The lock or that home may be refused.
Opens(p, owner) ==
  LET c == command[p]
      accounts == WithoutDuplicates(listed)
  IN /\ c.pc = "lock"
     /\ \/ End(p) /\ UNCHANGED homes
        \/ /\ c.id # 0 => c.id \in Ids(accounts)
           /\ storeLock' = owner
           /\ command' = [command EXCEPT
                ![p].accounts = accounts,
                ![p].dropped = Len(accounts) < Len(listed),
                ![p].pc = CASE c.kind = "remove" -> "unlist"
                            [] c.kind = "import" -> "copy"
                            [] OTHER -> "login"]
           /\ homes' = homes \cup ({c.login} \ {NoHome})
     /\ UNCHANGED <<listed, active, started, mishap, torn, raced>>

\* Deviation: the accounts are loaded without the lock.
BadOpen(p) == Opens(p, storeLock)

\* codexbar_managed_codex_store_load takes the lock first.
Open(p) == storeLock = Free /\ Opens(p, p)

\* The user signs in to any workspace, gives up or runs out of time; the lock
\* is held all the while.
Login(p) ==
  /\ command[p].pc = "login"
  /\ \/ \E workspace \in Workspaces \cup {NoWorkspace} :
          command' = [command EXCEPT ![p].pc = "copy", ![p].workspace = workspace]
     \/ command' = [command EXCEPT ![p].pc = "tidy"]
  /\ UNCHANGED <<listed, homes, storeLock, active, started, mishap, torn, raced>>

\* Copies the credentials into a new home and changes the list in memory.
\* Refused: another identity, no room for the home or its credentials.
Copy(p) ==
  LET c     == command[p]
      index == Existing(c)
      entry == ManagedAccount(IF index = 0 THEN c.new ELSE c.accounts[index].id,
                              c.workspace, c.new)
  IN /\ c.pc = "copy"
     /\ \/ /\ c.kind = "reauth" => SameIdentity(c.accounts[index], c.workspace)
           /\ homes' = homes \cup {c.new}
           /\ command' = [command EXCEPT
                ![p].pc = "save",
                ![p].old = IF index = 0 THEN NoHome ELSE c.accounts[index].home,
                ![p].accounts = IF index = 0 THEN Append(@, entry)
                                ELSE [@ EXCEPT ![index] = entry]]
        \/ command' = [command EXCEPT ![p].pc = "tidy"] /\ UNCHANGED homes
     /\ UNCHANGED <<listed, storeLock, active, started, mishap, torn, raced>>

\* codexbar_managed_codex_store_save.  When it fails the new home is removed
\* (a failure there is ignored); the mode is set after the file was replaced,
\* so the file may name that home by then.
Save(p) ==
  LET c == command[p]
      tidy(old) == command' = [command EXCEPT ![p].pc = "tidy", ![p].old = old]
  IN /\ c.pc = "save"
     /\ \/ /\ listed' = c.accounts
           /\ mishap' = (mishap \/ c.dropped)
           /\ tidy(c.old)
           /\ UNCHANGED <<homes, torn>>
        \/ /\ Discard({c.new})
           /\ tidy(NoHome)
           /\ UNCHANGED <<listed, torn>>
        \/ /\ listed' = c.accounts /\ torn' = TRUE /\ mishap' = TRUE
           /\ homes' = homes \ {c.new}
           /\ tidy(NoHome)
     /\ UNCHANGED <<storeLock, active, started, raced>>

\* Removes the home the account had, then the home of the login.
Tidy(p) ==
  LET c == command[p]
  IN /\ c.pc = "tidy"
     /\ Discard(Deletable(c.old) \cup Deletable(c.login))
     /\ End(p)
     /\ UNCHANGED <<listed, active, started, torn, raced>>

\* codexbar_managed_codex_remove: the file first.
Unlist(p) ==
  LET c == command[p]
      index == IndexOf(c.accounts, c.id)
  IN /\ c.pc = "unlist"
     /\ \/ /\ listed' = RemoveAt(c.accounts, index)
           /\ mishap' = (mishap \/ c.dropped)
           /\ command' = [command EXCEPT ![p].pc = "erase",
                                         ![p].old = c.accounts[index].home]
           /\ UNCHANGED storeLock
        \/ /\ End(p)
           /\ UNCHANGED <<listed, mishap>>
        \/ /\ listed' = RemoveAt(c.accounts, index)
           /\ mishap' = TRUE
           /\ End(p)
     /\ UNCHANGED <<homes, active, started, torn, raced>>

\* Then its home.  A home that cannot be deleted ends the command before it
\* has looked at the selection.
Erase(p) ==
  LET c == command[p]
  IN /\ c.pc = "erase"
     /\ \/ /\ homes' = homes \ Deletable(c.old)
           /\ storeLock' = Free
           /\ command' = [command EXCEPT ![p].pc = "deselect", ![p].old = NoHome]
           /\ UNCHANGED mishap
        \/ /\ Deletable(c.old) # {}
           /\ mishap' = TRUE
           /\ End(p)
           /\ UNCHANGED homes
     /\ UNCHANGED <<listed, active, started, torn, raced>>

\* remove_account, after the accounts were unlocked.
Deselect(p) ==
  /\ command[p].pc = "deselect"
  /\ \/ /\ active' = IF active = command[p].id THEN Live ELSE active
        /\ UNCHANGED mishap
     \/ UNCHANGED active /\ mishap' = TRUE
  /\ End(p)
  /\ UNCHANGED <<listed, homes, started, torn, raced>>

\* select_account reads the accounts without the lock ...
Choose(p) ==
  LET c == command[p]
  IN /\ c.pc = "choose"
     /\ IF c.id \in Ids(WithoutDuplicates(listed))
        THEN command' = [command EXCEPT ![p].pc = "point"] /\ UNCHANGED storeLock
        ELSE End(p)
     /\ UNCHANGED <<listed, homes, active, started, mishap, torn, raced>>

\* ... and changes the configuration afterwards, whatever became of them.
Point(p) ==
  LET c == command[p]
  IN /\ c.pc = "point"
     /\ \/ /\ active' = c.id
           /\ raced' = (raced \/ c.id \notin Ids(listed))
        \/ UNCHANGED <<active, raced>>
     /\ End(p)
     /\ UNCHANGED <<listed, homes, started, mishap, torn>>

\* The process is killed, or the machine stops: flock ends with it.
Kill(p) ==
  /\ command[p].pc # "idle"
  /\ mishap' = (mishap \/ command[p].pc \notin {"lock", "choose", "point"})
  /\ End(p)
  /\ UNCHANGED <<listed, homes, active, started, torn, raced>>

-----------------------------------------------------------------------------
\* One account whose home is not managed, as an older version or another
\* program may have written it.
ManagedInit ==
  /\ listed = <<ManagedAccount(-1, NoWorkspace, Outside)>>
  /\ homes = {Outside}
  /\ storeLock = Free
  /\ active \in {Live, -1}
  /\ command = [p \in Commanders |-> Idle]
  /\ started = 0
  /\ mishap = FALSE /\ torn = FALSE /\ raced = FALSE

Command(p) ==
  \/ Open(p) \/ Login(p) \/ Copy(p) \/ Save(p) \/ Tidy(p)
  \/ Unlist(p) \/ Erase(p) \/ Deselect(p)
  \/ Choose(p) \/ Point(p)

ManagedNext == \E p \in Commanders : Begin(p) \/ Command(p) \/ Kill(p)

ManagedSpec == ManagedInit /\ [][ManagedNext]_managedVars

-----------------------------------------------------------------------------
HomesOf(accounts) == {accounts[i].home : i \in DOMAIN accounts}

\* The homes a running command will account for.
Pending(c) == {c.new, c.login, c.old}

\* Whatever fails or is cut short, an account in the file has its home, and no
\* home outside the managed root is deleted (import_account and
\* codexbar_managed_codex_remove do things in that order).  The exception is a
\* file that was replaced and reported as not saved.
AccountsHaveHomes == Outside \in homes /\ (torn \/ HomesOf(listed) \subseteq homes)

\* While nothing went wrong, no home with credentials is left over.
NoHomeIsForgotten ==
  mishap \/ homes \subseteq
    HomesOf(listed) \cup {Outside} \cup UNION {Pending(command[p]) : p \in Commanders}

\* The selected account exists, unless the command that removed it is about to
\* say so, was cut short, or crossed a selection that had already looked
\* (remove_account, select_account).
SelectionExists ==
  \/ active \in Ids(listed) \cup {Live}
  \/ mishap \/ raced
  \/ \E p \in Commanders :
       command[p].pc \in {"erase", "deselect"} /\ command[p].id = active

\* The file, the homes and the selection agree.
StoresAgree == AccountsHaveHomes /\ NoHomeIsForgotten /\ SelectionExists

\* An account leaves the file only when its removal was asked for, or because
\* it is the duplicate of one that stays (store_load, import_account).
OnlyRemovalRemoves ==
  [][\A id \in Ids(listed) \ Ids(listed') :
       \/ \E p \in Commanders : command[p].pc = "unlist" /\ command[p].id = id
       \/ ~Distinct(listed)]_managedVars
=============================================================================
