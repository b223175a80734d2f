---------------------------- MODULE Supervision ----------------------------
(***************************************************************************)
(* linux/src/process.c and linux/src/process_supervisor.c: one call of     *)
(* codexbar_process_run, from the moment the supervisor has been spawned.  *)
(* The caller configures the supervisor, which forks the target and stops  *)
(* it; the caller pins its identity and acknowledges; the target then      *)
(* executes its program.  From there on programs fork, leave the process   *)
(* group, close their output and end as they like, and may ignore every    *)
(* signal but SIGKILL; a parent-death signal once set stays set.  Deadlines*)
(* and cancellation come at any moment.  The caller's process may die, and *)
(* so may the supervisor.                                                  *)
(***************************************************************************)
EXTENDS Integers

CONSTANTS
  MaxPrograms,  \* bound: programs of the tree, the target included
  MayCrash      \* whether something outside may kill the supervisor

Programs == 1..MaxPrograms
Target == 1
Supervisor == 0
Outside == -1  \* init, which adopts what has no subreaper

ASSUME SupervisionAssumption == MaxPrograms \in Nat \ {0} /\ MayCrash \in BOOLEAN

VARIABLES
  call,        \* where the caller is in codexbar_process_run
  configured,  \* the configuration pipe, as the supervisor sees it
  ack,         \* the acknowledgement pipe, as the supervisor sees it
  listening,   \* whether the caller holds its end of the startup pipe
  report,      \* what waits in the startup pipe
  left,        \* whether the supervisor is left to the process-reaper thread
  sup,         \* where the supervisor is in its main
  pending,     \* signals that wait for the supervisor
  terminating, \* of the supervisor
  force,       \* of the supervisor
  stage,       \* how far the target is
  born,        \* the number of programs forked so far; they are numbered in order
  alive,       \* programs that have not ended
  parent,      \* of each program that has not ended
  grouped,     \* programs in the supervisor's process group
  holding,     \* programs with an end of the output pipes
  crashed      \* history: whether, and how late, the supervisor was killed from outside

caller == <<call, configured, ack, listening, left>>
supervisor == <<sup, pending, terminating, force>>
tree == <<alive, parent, grouped, holding>>
vars == <<caller, report, supervisor, stage, born, tree, crashed>>

Startup == {"configure", "start", "acknowledge", "abort"}
Cancelling == {"cancel", "forceCancel"}
Running == {"run", "terminate", "force"}
Over == {"returned", "dead"}
Unstarted == {"none", "setup", "stopped"}

TypeOK ==
  /\ call \in Startup \cup {"execute"} \cup Cancelling \cup Running \cup Over
  /\ configured \in {"open", "sent", "closed"} /\ ack \in {"open", "sent", "closed"}
  /\ listening \in BOOLEAN /\ left \in BOOLEAN
  /\ report \in {"none", "started", "error", "closed"}
  /\ sup \in {"boot", "configure", "fork", "ask", "exec", "watch", "gone"}
  /\ pending \subseteq {"TERM", "USR1"}
  /\ terminating \in BOOLEAN /\ force \in BOOLEAN /\ (force => terminating)
  /\ stage \in Unstarted \cup {"continued", "running", "failed"}
  /\ born \in 0..MaxPrograms
  /\ alive \subseteq 1..born
  /\ parent \in [Programs -> {Supervisor, Outside} \cup Programs]
  /\ \A p \in alive : parent[p] < p /\ parent[p] \in alive \cup {Supervisor, Outside}
  /\ grouped \subseteq alive /\ holding \subseteq alive
  /\ crashed \in {"no", "early", "late"}

Init ==
  /\ call = "configure" /\ configured = "open" /\ ack = "open"
  /\ listening = TRUE /\ left = FALSE /\ report = "none"
  /\ sup = "boot" /\ pending = {} /\ terminating = FALSE /\ force = FALSE
  /\ stage = "none"
  /\ born = 0 /\ alive = {} /\ parent = [p \in Programs |-> Outside]
  /\ grouped = {} /\ holding = {}
  /\ crashed = "no"

----------------------------------------------------------------------------
(* Processes end *)

\* Programs D end; children of D and of the processes in gone go to home.
End(D, gone, home) ==
  /\ alive' = alive \ D
  /\ grouped' = grouped \ D
  /\ holding' = holding \ D
  /\ parent' = [p \in Programs |->
                  IF p \notin alive \ D THEN Outside
                  ELSE IF parent[p] \in D \cup gone THEN home ELSE parent[p]]

\* Deviation: the supervisor has not made itself a subreaper.
BadHome == Outside

\* Who adopts an orphan: PR_SET_CHILD_SUBREAPER.
Home == IF sup = "gone" THEN Outside ELSE Supervisor

ProgramsEnd(D) == End(D, {}, Home)

\* Programs D and the supervisor end; the target's PR_SET_PDEATHSIG does the rest,
\* unless the target has not set it yet.
SupervisorEnds(D) ==
  /\ sup' = "gone" /\ pending' = {} /\ terminating' = FALSE /\ force' = FALSE
  /\ End(IF stage = "setup" THEN D ELSE D \cup {Target}, {Supervisor}, Outside)

----------------------------------------------------------------------------
(* The caller starts the target *)

Configure ==
  /\ call = "configure" /\ sup # "gone"
  /\ call' = "start" /\ configured' = "sent"
  /\ UNCHANGED <<ack, listening, left, report, supervisor, stage, born, tree, crashed>>

\* Cancellation, the deadline, a broken pipe, an error the supervisor reports or an
\* identity that cannot be pinned: the caller's ends are closed.
Abandon ==
  /\ call \in {"configure", "start", "acknowledge"}
  /\ call' = "abort"
  /\ configured' = IF configured = "open" THEN "closed" ELSE configured
  /\ ack' = "closed" /\ listening' = FALSE
  /\ UNCHANGED <<left, report, supervisor, stage, born, tree, crashed>>

\* abort_startup: SIGKILL to the group and the supervisor, which is waited for.
Abort ==
  /\ call = "abort"
  /\ call' = "returned"
  /\ IF sup = "gone" THEN ProgramsEnd(grouped) /\ UNCHANGED supervisor ELSE SupervisorEnds(grouped)
  /\ UNCHANGED <<configured, ack, listening, left, report, stage, born, crashed>>

\* The target's identity is pinned by open_process_handle.
ReadStarted ==
  /\ call = "start" /\ report = "started"
  /\ call' = "acknowledge" /\ report' = "none"
  /\ UNCHANGED <<configured, ack, listening, left, supervisor, stage, born, tree, crashed>>

SendAcknowledgement ==
  /\ call = "acknowledge" /\ sup # "gone"
  /\ call' = "execute" /\ ack' = "sent"
  /\ UNCHANGED <<configured, listening, left, report, supervisor, stage, born, tree, crashed>>

ReadExecution ==
  /\ call = "execute" /\ report \in {"started", "error"}
  /\ call' = IF report = "started" THEN "run" ELSE "returned"
  /\ listening' = FALSE
  /\ UNCHANGED <<configured, ack, left, report, supervisor, stage, born, tree, crashed>>

\* SIGTERM or SIGUSR1 for the supervisor, if there is one.
Signal(s) ==
  /\ pending' = IF sup = "gone" THEN pending ELSE pending \cup {s}
  /\ UNCHANGED <<sup, terminating, force>>

\* cancel_started_supervisor: cancellation, the deadline or the end of the pipe. The first
\* two are looked at before the pipe.
Cancel ==
  /\ call = "execute"
  /\ call' = "cancel" /\ listening' = FALSE
  /\ Signal("TERM")
  /\ UNCHANGED <<configured, ack, left, report, stage, born, tree, crashed>>

CancelByForce ==
  /\ call = "cancel" /\ sup # "gone"
  /\ call' = "forceCancel"
  /\ Signal("USR1")
  /\ UNCHANGED <<configured, ack, listening, left, report, stage, born, tree, crashed>>

CancelEnds ==
  /\ call \in Cancelling /\ sup = "gone"
  /\ call' = "returned"
  /\ ProgramsEnd(grouped)
  /\ UNCHANGED <<configured, ack, listening, left, report, supervisor, stage, born, crashed>>

CancelGivesUp ==
  /\ call = "forceCancel" /\ sup # "gone"
  /\ call' = "returned" /\ left' = TRUE
  /\ UNCHANGED <<configured, ack, listening, report, supervisor, stage, born, tree, crashed>>

----------------------------------------------------------------------------
(* The caller captures output and waits *)

\* Deviation: without a supervisor only the target is signalled.
BadFallbackKill == {Target}

\* signal_fallback_target with SIGKILL.
FallbackKill == grouped \cup {Target}

\* A stop reason: cancellation, the deadline, too much output, an internal error, or
\* the supervisor was lost before its tree.
Stop ==
  /\ call = "run"
  /\ call' = "terminate"
  /\ Signal("TERM")
  /\ UNCHANGED <<configured, ack, listening, left, report, stage, born, tree, crashed>>

Escalate ==
  /\ call = "terminate"
  /\ call' = "force"
  /\ IF sup = "gone" THEN ProgramsEnd(FallbackKill) ELSE UNCHANGED tree
  /\ Signal("USR1")
  /\ UNCHANGED <<configured, ack, listening, left, report, stage, born, crashed>>

\* The supervisor has exited and the output has ended; the supervisor is reaped. A target
\* that is still there is a stop reason.
Finish ==
  /\ call \in Running /\ sup = "gone" /\ holding = {}
  /\ call = "run" => Target \notin alive
  /\ call' = "returned"
  /\ UNCHANGED <<configured, ack, listening, left, report, supervisor, stage, born, tree, crashed>>

\* Deviation: the cleanup deadline is not kept.
BadGiveUpAt(c) == FALSE

GiveUpAt(c) == c = "force"

\* The cleanup deadline has passed: reap_child, or reap_child_later.
GiveUp ==
  /\ GiveUpAt(call)
  /\ call' = "returned" /\ left' = (sup # "gone")
  /\ UNCHANGED <<configured, ack, listening, report, supervisor, stage, born, tree, crashed>>

\* The process-reaper thread.
Reap ==
  /\ left /\ sup = "gone"
  /\ left' = FALSE
  /\ UNCHANGED <<call, configured, ack, listening, report, supervisor, stage, born, tree, crashed>>

Caller ==
  \/ Configure \/ Abandon \/ Abort \/ ReadStarted \/ SendAcknowledgement \/ ReadExecution
  \/ Cancel \/ CancelByForce \/ CancelEnds \/ CancelGivesUp
  \/ Stop \/ Escalate \/ Finish \/ GiveUp

----------------------------------------------------------------------------
(* The supervisor starts the target *)

\* Signals are blocked, PR_SET_PDEATHSIG is SIGKILL, the parent is looked at.
SupBoot ==
  /\ sup = "boot"
  /\ IF call = "dead" THEN SupervisorEnds({})
     ELSE sup' = "configure" /\ UNCHANGED <<pending, terminating, force, tree>>
  /\ UNCHANGED <<caller, report, stage, born, crashed>>

\* report_startup succeeds if the caller is there.
Report(r) == report' = IF listening THEN r ELSE report

\* read_configuration and fork; either may fail.
SupConfigure ==
  /\ sup = "configure" /\ configured # "open"
  /\ \/ /\ configured = "sent"
        /\ sup' = "fork" /\ stage' = "setup" /\ born' = Target
        /\ alive' = {Target} /\ grouped' = {Target} /\ holding' = {Target}
        /\ parent' = [parent EXCEPT ![Target] = Supervisor]
        /\ UNCHANGED <<report, pending, terminating, force>>
     \/ Report("error") /\ SupervisorEnds({}) /\ UNCHANGED <<stage, born>>
  /\ UNCHANGED <<caller, crashed>>

SupStopped ==
  /\ sup = "fork" /\ stage = "stopped" /\ Target \in alive
  /\ Report("started")
  /\ IF listening THEN sup' = "ask" /\ UNCHANGED <<pending, terminating, force, tree>>
     ELSE SupervisorEnds({Target})
  /\ UNCHANGED <<caller, stage, born, crashed>>

SupSetupFailed ==
  /\ sup = "fork" /\ Target \notin alive
  /\ Report("error")
  /\ SupervisorEnds({})
  /\ UNCHANGED <<caller, stage, born, crashed>>

Acknowledged == ack = "sent"

\* PR_SET_PDEATHSIG is SIGTERM from here on; the target is continued.
SupAcknowledged ==
  /\ sup = "ask" /\ Acknowledged
  /\ sup' = "exec" /\ stage' = "continued"
  /\ UNCHANGED <<caller, report, pending, terminating, force, born, tree, crashed>>

SupRefused ==
  /\ sup = "ask" /\ ack = "closed"
  /\ SupervisorEnds({Target})
  /\ UNCHANGED <<caller, report, stage, born, crashed>>

\* What handle_startup_signal and the loop of main do with control signals.
Obey(signals) == terminating' = TRUE /\ force' = (force \/ "USR1" \in signals)

\* handle_startup_signal: it interrupts the read of the execution pipe, or comes
\* just before it.
SupHandle ==
  /\ sup = "exec" /\ pending # {}
  /\ Obey(pending) /\ pending' = {}
  /\ \/ sup' = "watch" /\ report' = "closed"
     \/ UNCHANGED <<sup, report>>
  /\ UNCHANGED <<caller, stage, born, tree, crashed>>

\* The execution pipe ends, by execvpe or by the end of the target, or brings an error.
SupExecuted ==
  /\ sup = "exec" /\ (stage = "running" \/ Target \notin alive)
  /\ IF stage = "failed" /\ ~terminating
     THEN SupervisorEnds({}) /\ Report("error")
     ELSE /\ sup' = "watch"
          /\ report' = IF terminating \/ ~listening THEN "closed" ELSE "started"
          /\ terminating' = (terminating \/ ~listening)
          /\ UNCHANGED <<pending, force, tree>>
  /\ UNCHANGED <<caller, stage, born, crashed>>

----------------------------------------------------------------------------
(* The supervisor watches the tree *)

Children == {p \in alive : parent[p] = Supervisor}

\* One turn of the loop: reap_available, signal_owned_tree. What signal_owned_tree sends
\* to its own group, the supervisor takes back.
SupWatch ==
  /\ sup = "watch"
  /\ IF Children = {}
     THEN SupervisorEnds({})
     ELSE LET ends == terminating \/ Target \notin alive IN
          /\ terminating' = ends
          /\ IF ends /\ force THEN ProgramsEnd(Children) ELSE UNCHANGED tree
          /\ pending' = IF ends /\ ~force THEN pending \ {"TERM"} ELSE pending
          /\ UNCHANGED <<sup, force>>
  /\ UNCHANGED <<caller, report, stage, born, crashed>>

\* Deviation: the grace period is not measured.
BadGraceOver == FALSE

GraceOver == terminating /\ ~force

\* The grace period has passed.
SupForce ==
  /\ sup = "watch" /\ GraceOver
  /\ force' = TRUE
  /\ UNCHANGED <<caller, report, sup, pending, terminating, stage, born, tree, crashed>>

\* A control signal is taken.
SupTake ==
  /\ sup = "watch"
  /\ \E s \in pending : pending' = pending \ {s} /\ Obey({s})
  /\ UNCHANGED <<caller, report, sup, stage, born, tree, crashed>>

SupStep ==
  \/ SupBoot \/ SupConfigure \/ SupStopped \/ SupSetupFailed \/ SupAcknowledged \/ SupRefused
  \/ SupHandle \/ SupExecuted \/ SupWatch

----------------------------------------------------------------------------
(* The target and the programs it starts *)

\* PR_SET_PDEATHSIG and a look at the parent, signal mask, directory, raise(SIGSTOP).
SetUp ==
  /\ stage = "setup" /\ Target \in alive
  /\ \/ sup # "gone" /\ stage' = "stopped" /\ UNCHANGED tree
     \/ stage' = "failed" /\ ProgramsEnd({Target})
  /\ UNCHANGED <<caller, report, supervisor, born, crashed>>

Exec ==
  /\ stage = "continued" /\ Target \in alive
  /\ \/ stage' = "running" /\ UNCHANGED tree
     \/ stage' = "failed" /\ ProgramsEnd({Target})
  /\ UNCHANGED <<caller, report, supervisor, born, crashed>>

Fork ==
  /\ stage = "running" /\ born < MaxPrograms
  /\ \E p \in alive :
       /\ born' = born + 1
       /\ alive' = alive \cup {born + 1}
       /\ parent' = [parent EXCEPT ![born + 1] = p]
       /\ grouped' = IF p \in grouped THEN grouped \cup {born + 1} ELSE grouped
       /\ holding' = IF p \in holding THEN holding \cup {born + 1} ELSE holding
  /\ UNCHANGED <<caller, report, supervisor, stage, crashed>>

\* setsid
Escape ==
  /\ stage = "running"
  /\ \E p \in grouped : grouped' = grouped \ {p}
  /\ UNCHANGED <<caller, report, supervisor, stage, born, alive, parent, holding, crashed>>

CloseOutput ==
  /\ stage = "running"
  /\ \E p \in holding : holding' = holding \ {p}
  /\ UNCHANGED <<caller, report, supervisor, stage, born, alive, parent, grouped, crashed>>

\* By itself, by a signal of the supervisor or the caller, or by one from outside.
ProgramEnds ==
  /\ \E p \in alive : ProgramsEnd({p})
  /\ UNCHANGED <<caller, report, supervisor, stage, born, crashed>>

----------------------------------------------------------------------------
(* Deaths from outside *)

\* The caller's process ends: its pipes close, and the supervisor gets the signal that
\* PR_SET_PDEATHSIG names at that moment.
CallerDies ==
  /\ call \notin Over
  /\ call' = "dead"
  /\ configured' = IF configured = "open" THEN "closed" ELSE configured
  /\ ack' = IF ack = "open" THEN "closed" ELSE ack
  /\ listening' = FALSE
  /\ \/ sup \in {"configure", "fork", "ask"} /\ SupervisorEnds({})
     \/ sup \in {"exec", "watch"} /\ Signal("TERM") /\ UNCHANGED tree
     \/ sup \in {"boot", "gone"} /\ UNCHANGED <<supervisor, tree>>
  /\ UNCHANGED <<left, report, stage, born, crashed>>

SupervisorKilled ==
  /\ MayCrash /\ sup # "gone"
  /\ SupervisorEnds({})
  /\ crashed' = IF call \in {"force", "returned"} THEN "late" ELSE "early"
  /\ UNCHANGED <<caller, report, stage, born>>

\* Nothing is left of the call.
Rest == call \in Over /\ sup = "gone" /\ ~left /\ alive = {} /\ UNCHANGED vars

Next ==
  \/ Caller \/ Reap
  \/ SupStep \/ SupForce \/ SupTake
  \/ SetUp \/ Exec \/ Fork \/ Escape \/ CloseOutput \/ ProgramEnds
  \/ CallerDies \/ SupervisorKilled
  \/ Rest

\* Processes run and deadlines pass. Programs promise nothing.
Fairness ==
  /\ WF_vars(Caller) /\ WF_vars(Reap)
  /\ WF_vars(SupStep) /\ WF_vars(SupForce) /\ WF_vars(SupTake)
  /\ WF_vars(SetUp) /\ WF_vars(Exec)

Spec == Init /\ [][Next]_vars /\ Fairness

----------------------------------------------------------------------------
(* Properties *)

\* When codexbar_process_run has returned, with a result or an error, nothing of what
\* the target started is left, however it forked and whatever group it moved to,
\* unless someone killed the supervisor or the reaper thread still waits for it.
TreeIsGone == call = "returned" /\ ~left /\ crashed = "no" => alive = {}

\* Even without its supervisor, no program of the group that could still write output is
\* left: the fallback of the caller has ended it. A supervisor that is killed after it
\* was told to use force is not replaced.
OutputEnds == call = "returned" /\ ~left /\ crashed # "late" => grouped \cap holding = {}

\* The target's program does not run before the caller has pinned the target and
\* acknowledged, whatever dies or times out meanwhile.
RunsOnlyWhenPinned == stage \in {"continued", "running"} => ack = "sent"

\* A call returns, whatever the programs and the supervisor do.
CallReturns == <>(call \in Over)

\* After the call or the death of its process the supervisor ends and is reaped, and the
\* tree with it.
TreeEnds == call \in Over ~> sup = "gone" /\ ~left /\ (alive = {} \/ crashed # "no")
=============================================================================
