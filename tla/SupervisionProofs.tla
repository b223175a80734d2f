------------------------- MODULE SupervisionProofs -------------------------
(***************************************************************************)
(* Theorems about Supervision: what a call of codexbar_process_run leaves  *)
(* behind, for trees of any bounded number of programs.                    *)
(***************************************************************************)
EXTENDS Supervision, WellFoundedInduction, NaturalsInduction, TLAPS

\* How far the target is, against where the supervisor is.
StageInv ==
  /\ sup \in {"boot", "configure"} => stage = "none"
  /\ sup = "fork" => stage \in {"setup", "stopped", "failed"}
  /\ sup = "ask" => stage = "stopped"
  /\ sup \in {"exec", "watch"} => stage \in {"continued", "running", "failed"}

\* Until its program runs the target is alone, and in the group until it is continued.
AloneInv ==
  /\ stage \in {"none", "failed"} => alive = {}
  /\ stage # "running" => alive \subseteq {Target}
  /\ stage \in Unstarted => grouped = alive

AckInv ==
  /\ RunsOnlyWhenPinned
  /\ call \in Startup => ack # "sent"

\* The supervisor adopts every orphan.
HomeInv == sup # "gone" => crashed = "no" /\ \A p \in alive : parent[p] # Outside

\* A supervisor that ends by itself leaves nothing; only the death of the caller can end
\* it while the target is still setting itself up.
GoneInv == sup = "gone" /\ crashed = "no" => alive = {} \/ call = "dead"

ReportInv == report = "error" => sup = "gone" /\ crashed = "no"

OverInv ==
  /\ call = "returned" => left \/ sup = "gone"
  /\ left => call = "returned" /\ crashed # "early"

\* The fallback of the caller, and what is left when the call returns without it.
FallbackInv ==
  /\ call = "force" /\ sup = "gone" /\ crashed = "early" => grouped = {}
  /\ call = "returned" /\ crashed = "early" => grouped \cap holding = {}

FlagsOK ==
  /\ listening \in BOOLEAN /\ left \in BOOLEAN
  /\ terminating \in BOOLEAN /\ force \in BOOLEAN /\ (force => terminating)

\* TypeOK without the flags and the tree.
ScalarsOK ==
  /\ call \in Startup \cup {"execute"} \cup Cancelling \cup Running \cup Over
  /\ configured \in {"open", "sent", "closed"} /\ ack \in {"open", "sent", "closed"}
  /\ report \in {"none", "started", "error", "closed"}
  /\ sup \in {"boot", "configure", "fork", "ask", "exec", "watch", "gone"}
  /\ pending \subseteq {"TERM", "USR1"}
  /\ stage \in Unstarted \cup {"continued", "running", "failed"}
  /\ born \in 0..MaxPrograms
  /\ alive \subseteq 1..born
  /\ crashed \in {"no", "early", "late"}

\* The part of TypeOK about the tree: a program is younger than its parent.
TreeOK ==
  /\ alive \subseteq Programs
  /\ parent \in [Programs -> {Supervisor, Outside} \cup Programs]
  /\ \A p \in alive : parent[p] < p /\ parent[p] \in alive \cup {Supervisor, Outside}
  /\ grouped \subseteq alive /\ holding \subseteq alive

Inv ==
  /\ TypeOK /\ StageInv /\ AloneInv /\ AckInv /\ HomeInv /\ GoneInv /\ ReportInv
  /\ OverInv /\ FallbackInv

----------------------------------------------------------------------------
(* The tree *)

\* The numbers of living programs are numbers of programs.
LEMMA TreeTypes == TypeOK => TreeOK
  BY SupervisionAssumption DEF TypeOK, TreeOK, Programs

\* When programs end, the orphans' new parents are still living or none, and older.
LEMMA EndTree ==
  ASSUME TreeOK, NEW D, NEW gone \in SUBSET {Supervisor}, NEW home \in {Supervisor, Outside},
         End(D, gone, home)
  PROVE  TreeOK'
<1>1. alive' = alive \ D /\ grouped' = grouped \ D /\ holding' = holding \ D
  BY DEF End
<1>2. parent' = [p \in Programs |->
                  IF p \notin alive \ D THEN Outside
                  ELSE IF parent[p] \in D \cup gone THEN home ELSE parent[p]]
  BY DEF End
<1>3. ASSUME NEW p \in alive'
      PROVE  parent'[p] < p /\ parent'[p] \in alive' \cup {Supervisor, Outside}
  <2>1. p \in Programs /\ p \in alive \ D /\ p \in Nat \ {0}
    BY <1>1, <1>3, SupervisionAssumption DEF TreeOK, Programs
  <2>2. parent'[p] = IF parent[p] \in D \cup gone THEN home ELSE parent[p]
    BY <1>2, <2>1
  <2>. QED
    BY <1>1, <2>1, <2>2 DEF TreeOK, Supervisor, Outside
<1>4. parent' \in [Programs -> {Supervisor, Outside} \cup Programs]
  BY <1>2 DEF TreeOK
<1>. QED
  BY <1>1, <1>3, <1>4 DEF TreeOK

\* Programs that end are gone from the tree, and no orphan escapes a living supervisor.
LEMMA ProgramsEndTree ==
  ASSUME TreeOK, NEW D, ProgramsEnd(D)
  PROVE  /\ TreeOK' /\ alive' \subseteq alive
         /\ alive' = alive \ D /\ grouped' = grouped \ D /\ holding' = holding \ D
         /\ sup # "gone" /\ (\A p \in alive : parent[p] # Outside)
            => \A p \in alive' : parent'[p] # Outside
<1>1. Home \in {Supervisor, Outside} /\ End(D, {}, Home)
  BY DEF ProgramsEnd, Home
<1>2. TreeOK'
  BY <1>1, EndTree
<1>3. alive' = alive \ D /\ grouped' = grouped \ D /\ holding' = holding \ D
  BY <1>1 DEF End
<1>4. ASSUME sup # "gone", \A p \in alive : parent[p] # Outside, NEW p \in alive'
      PROVE  parent'[p] # Outside
  <2>1. parent'[p] = IF parent[p] \in D THEN Home ELSE parent[p]
    BY <1>1, <1>3 DEF End, TreeOK
  <2>. QED
    BY <1>3, <1>4, <2>1 DEF Home, Supervisor, Outside
<1>. QED
  BY <1>2, <1>3, <1>4

\* When the supervisor ends, the target ends with it once it asked for that.
LEMMA SupervisorEndsTree ==
  ASSUME TreeOK, NEW D, SupervisorEnds(D)
  PROVE  /\ TreeOK' /\ alive' \subseteq alive
         /\ sup' = "gone" /\ pending' = {} /\ terminating' = FALSE /\ force' = FALSE
         /\ IF stage = "setup"
            THEN alive' = alive \ D /\ grouped' = grouped \ D /\ holding' = holding \ D
            ELSE /\ alive' = alive \ (D \cup {Target}) /\ grouped' = grouped \ (D \cup {Target})
                 /\ holding' = holding \ (D \cup {Target})
<1>. DEFINE E == IF stage = "setup" THEN D ELSE D \cup {Target}
<1>1. End(E, {Supervisor}, Outside)
  BY DEF SupervisorEnds
<1>2. TreeOK'
  BY <1>1, EndTree
<1>. QED
  BY <1>1, <1>2 DEF SupervisorEnds, End

\* The oldest program that is left has nobody but the supervisor for a parent.
LEMMA OldestIsChild ==
  ASSUME TypeOK, HomeInv, sup # "gone", Children = {}
  PROVE  alive = {}
<1>. SUFFICES ASSUME alive # {} PROVE FALSE
  OBVIOUS
<1>1. TreeOK /\ alive \subseteq Nat
  BY TreeTypes, SupervisionAssumption DEF TreeOK, Programs
<1>2. PICK p \in alive : \A q \in alive : ~(q < p)
  <2>1. PICK p \in alive : \A q \in alive : ~(<<q, p>> \in OpToRel(<, Nat))
    BY <1>1, NatLessThanWellFounded, WFMin, Zenon
  <2>. QED
    BY <1>1, <2>1, Zenon DEF OpToRel
<1>3. parent[p] = Supervisor
  BY <1>1, <1>2 DEF TreeOK, HomeInv
<1>. QED
  BY <1>2, <1>3 DEF Children

\* A call whose supervisor has just been spawned satisfies the invariant.
LEMMA Initially == Init => Inv
<1>. SUFFICES ASSUME Init PROVE Inv
  OBVIOUS
<1>. USE SupervisionAssumption DEF Init, Programs, Supervisor, Outside, Target, Startup, Cancelling, Running, Over, Unstarted
<1>1. TypeOK
  <2>1. TreeOK
    BY DEF TreeOK
  <2>2. ScalarsOK
    BY DEF ScalarsOK
  <2>3. FlagsOK
    BY Zenon DEF FlagsOK
  <2>. QED
    BY <2>1, <2>2, <2>3 DEF TypeOK, ScalarsOK, FlagsOK, TreeOK
<1>2. StageInv /\ AloneInv /\ AckInv /\ HomeInv /\ GoneInv /\ ReportInv /\ OverInv /\ FallbackInv
  BY DEF StageInv, AloneInv, AckInv, RunsOnlyWhenPinned, HomeInv, GoneInv, ReportInv, OverInv,
     FallbackInv
<1>. QED
  BY <1>1, <1>2 DEF Inv

\* Every step of caller, supervisor and programs keeps the invariant.
LEMMA Step ==
  ASSUME Inv, Next
  PROVE  Inv'
<1>. USE SupervisionAssumption DEF Programs, Supervisor, Outside, Target, Startup, Cancelling, Running, Over, Unstarted,
     caller, supervisor, tree, Signal, Report, Obey, GraceOver, GiveUpAt, Acknowledged
<1>0. TreeOK /\ TypeOK /\ StageInv /\ AloneInv /\ AckInv /\ HomeInv /\ GoneInv /\ ReportInv /\ OverInv /\ FallbackInv
  BY TreeTypes DEF Inv
<1>1. CASE Configure
  BY <1>1 DEF Configure, Inv, TypeOK, StageInv, AloneInv, AckInv, RunsOnlyWhenPinned, HomeInv,
     GoneInv, ReportInv, OverInv, FallbackInv
<1>2. CASE Abandon
  <2>1. TreeOK' /\ alive' \subseteq alive
    BY <1>0, <1>2 DEF Abandon, TreeOK
  <2>2. ScalarsOK'
    BY <1>0, <1>2 DEF Abandon, TypeOK, ScalarsOK
  <2>3. FlagsOK'
    BY <1>0, <1>2, Zenon DEF Abandon, TypeOK, FlagsOK
  <2>4. TypeOK'
    BY <2>1, <2>2, <2>3 DEF TypeOK, ScalarsOK, FlagsOK, TreeOK
  <2>5. StageInv'
    BY <1>0, <1>2 DEF Abandon, StageInv
  <2>6. AloneInv'
    BY <1>0, <1>2 DEF Abandon, AloneInv
  <2>7. AckInv'
    BY <1>0, <1>2 DEF Abandon, AckInv, RunsOnlyWhenPinned
  <2>8. HomeInv'
    BY <1>0, <1>2 DEF Abandon, HomeInv
  <2>9. GoneInv'
    BY <1>0, <1>2 DEF Abandon, GoneInv
  <2>10. ReportInv'
    BY <1>0, <1>2 DEF Abandon, ReportInv
  <2>11. OverInv'
    BY <1>0, <1>2 DEF Abandon, OverInv
  <2>12. FallbackInv'
    BY <1>2 DEF Abandon, FallbackInv
  <2>. QED
    BY <2>4, <2>5, <2>6, <2>7, <2>8, <2>9, <2>10, <2>11, <2>12 DEF Inv
<1>3. CASE Abort
  <2>1. TreeOK' /\ alive' \subseteq alive
    BY <1>0, <1>3, ProgramsEndTree, SupervisorEndsTree DEF Abort
  <2>2. ScalarsOK'
    BY <1>0, <1>3, <2>1 DEF Abort, TypeOK, ScalarsOK, SupervisorEnds
  <2>3. FlagsOK'
    BY <1>0, <1>3, Zenon DEF Abort, TypeOK, FlagsOK, SupervisorEnds
  <2>4. TypeOK'
    BY <2>1, <2>2, <2>3 DEF TypeOK, ScalarsOK, FlagsOK, TreeOK
  <2>5. StageInv'
    BY <1>0, <1>3, SupervisorEndsTree DEF Abort, StageInv
  <2>6. AloneInv'
    BY <1>0, <1>3, ProgramsEndTree, SupervisorEndsTree DEF Abort, AloneInv
  <2>7. AckInv'
    BY <1>0, <1>3 DEF Abort, AckInv, RunsOnlyWhenPinned
  <2>8. HomeInv'
    BY <1>0, <1>3, SupervisorEndsTree DEF Abort, HomeInv
  <2>9. GoneInv'
    <3>1. CASE sup = "gone"
      BY <1>0, <1>3, <3>1, ProgramsEndTree DEF Abort, GoneInv
    <3>2. CASE sup # "gone"
      <4>1. stage \notin {"continued", "running"}
        BY <1>0, <1>3 DEF Abort, AckInv, RunsOnlyWhenPinned
      <4>2. alive = {} \/ alive = grouped
        BY <1>0, <4>1 DEF AloneInv, TypeOK
      <4>3. alive' \subseteq alive \ grouped
        BY <1>0, <1>3, <3>2, SupervisorEndsTree DEF Abort
      <4>. QED
        BY <4>2, <4>3 DEF GoneInv
    <3>. QED
      BY <3>1, <3>2
  <2>10. ReportInv'
    BY <1>0, <1>3 DEF Abort, ReportInv
  <2>11. OverInv'
    BY <1>0, <1>3, SupervisorEndsTree DEF Abort, OverInv
  <2>12. FallbackInv'
    BY <1>0, <1>3, ProgramsEndTree DEF Abort, FallbackInv, HomeInv
  <2>. QED
    BY <2>4, <2>5, <2>6, <2>7, <2>8, <2>9, <2>10, <2>11, <2>12 DEF Inv
<1>4. CASE ReadStarted
  BY <1>4 DEF ReadStarted, Inv, TypeOK, StageInv, AloneInv, AckInv, RunsOnlyWhenPinned,
     HomeInv, GoneInv, ReportInv, OverInv, FallbackInv
<1>5. CASE SendAcknowledgement
  BY <1>5 DEF SendAcknowledgement, Inv, TypeOK, StageInv, AloneInv, AckInv, RunsOnlyWhenPinned,
     HomeInv, GoneInv, ReportInv, OverInv, FallbackInv
<1>6. CASE ReadExecution
  <2>1. TreeOK' /\ alive' \subseteq alive
    BY <1>0, <1>6 DEF ReadExecution, TreeOK
  <2>2. ScalarsOK'
    BY <1>0, <1>6 DEF ReadExecution, TypeOK, ScalarsOK
  <2>3. FlagsOK'
    BY <1>0, <1>6, Zenon DEF ReadExecution, TypeOK, FlagsOK
  <2>4. TypeOK'
    BY <2>1, <2>2, <2>3 DEF TypeOK, ScalarsOK, FlagsOK, TreeOK
  <2>5. StageInv'
    BY <1>0, <1>6 DEF ReadExecution, StageInv
  <2>6. AloneInv'
    BY <1>0, <1>6 DEF ReadExecution, AloneInv
  <2>7. AckInv'
    BY <1>0, <1>6 DEF ReadExecution, AckInv, RunsOnlyWhenPinned
  <2>8. HomeInv'
    BY <1>0, <1>6 DEF ReadExecution, HomeInv
  <2>9. GoneInv'
    BY <1>0, <1>6 DEF ReadExecution, GoneInv
  <2>10. ReportInv'
    BY <1>0, <1>6 DEF ReadExecution, ReportInv
  <2>11. OverInv'
    BY <1>0, <1>6 DEF ReadExecution, OverInv, ReportInv
  <2>12. FallbackInv'
    BY <1>0, <1>6 DEF ReadExecution, FallbackInv, ReportInv
  <2>. QED
    BY <2>4, <2>5, <2>6, <2>7, <2>8, <2>9, <2>10, <2>11, <2>12 DEF Inv
<1>7. CASE Cancel
  <2>1. TreeOK' /\ alive' \subseteq alive
    BY <1>0, <1>7 DEF Cancel, TreeOK
  <2>2. ScalarsOK'
    BY <1>0, <1>7 DEF Cancel, TypeOK, ScalarsOK
  <2>3. FlagsOK'
    BY <1>0, <1>7, Zenon DEF Cancel, TypeOK, FlagsOK
  <2>4. TypeOK'
    BY <2>1, <2>2, <2>3 DEF TypeOK, ScalarsOK, FlagsOK, TreeOK
  <2>5. StageInv'
    BY <1>0, <1>7 DEF Cancel, StageInv
  <2>6. AloneInv'
    BY <1>0, <1>7 DEF Cancel, AloneInv
  <2>7. AckInv'
    BY <1>0, <1>7 DEF Cancel, AckInv, RunsOnlyWhenPinned
  <2>8. HomeInv'
    BY <1>0, <1>7 DEF Cancel, HomeInv
  <2>9. GoneInv'
    BY <1>0, <1>7 DEF Cancel, GoneInv
  <2>10. ReportInv'
    BY <1>0, <1>7 DEF Cancel, ReportInv
  <2>11. OverInv'
    BY <1>0, <1>7 DEF Cancel, OverInv
  <2>12. FallbackInv'
    BY <1>7 DEF Cancel, FallbackInv
  <2>. QED
    BY <2>4, <2>5, <2>6, <2>7, <2>8, <2>9, <2>10, <2>11, <2>12 DEF Inv
<1>8. CASE CancelByForce
  BY <1>8 DEF CancelByForce, Inv, TypeOK, StageInv, AloneInv, AckInv, RunsOnlyWhenPinned,
     HomeInv, GoneInv, ReportInv, OverInv, FallbackInv
<1>9. CASE CancelEnds
  <2>1. TreeOK' /\ alive' \subseteq alive
    BY <1>0, <1>9, ProgramsEndTree DEF CancelEnds
  <2>2. ScalarsOK'
    BY <1>0, <1>9, <2>1 DEF CancelEnds, TypeOK, ScalarsOK
  <2>3. FlagsOK'
    BY <1>0, <1>9, Zenon DEF CancelEnds, TypeOK, FlagsOK
  <2>4. TypeOK'
    BY <2>1, <2>2, <2>3 DEF TypeOK, ScalarsOK, FlagsOK, TreeOK
  <2>5. StageInv'
    BY <1>9 DEF CancelEnds, StageInv
  <2>6. AloneInv'
    BY <1>0, <1>9, ProgramsEndTree DEF CancelEnds, AloneInv
  <2>7. AckInv'
    BY <1>0, <1>9 DEF CancelEnds, AckInv, RunsOnlyWhenPinned
  <2>8. HomeInv'
    BY <1>9 DEF CancelEnds, HomeInv
  <2>9. GoneInv'
    BY <1>0, <1>9, <2>1 DEF CancelEnds, GoneInv
  <2>10. ReportInv'
    BY <1>0, <1>9 DEF CancelEnds, ReportInv
  <2>11. OverInv'
    BY <1>0, <1>9 DEF CancelEnds, OverInv
  <2>12. FallbackInv'
    BY <1>0, <1>9, ProgramsEndTree DEF CancelEnds, FallbackInv
  <2>. QED
    BY <2>4, <2>5, <2>6, <2>7, <2>8, <2>9, <2>10, <2>11, <2>12 DEF Inv
<1>10. CASE CancelGivesUp
  BY <1>10 DEF CancelGivesUp, Inv, TypeOK, StageInv, AloneInv, AckInv, RunsOnlyWhenPinned,
     HomeInv, GoneInv, ReportInv, OverInv, FallbackInv
<1>11. CASE Stop
  BY <1>11 DEF Stop, Inv, TypeOK, StageInv, AloneInv, AckInv, RunsOnlyWhenPinned, HomeInv,
     GoneInv, ReportInv, OverInv, FallbackInv
<1>12. CASE Escalate
  <2>1. TreeOK' /\ alive' \subseteq alive
    BY <1>0, <1>12, ProgramsEndTree DEF Escalate, TreeOK
  <2>2. ScalarsOK'
    BY <1>0, <1>12, <2>1 DEF Escalate, TypeOK, ScalarsOK
  <2>3. FlagsOK'
    BY <1>0, <1>12, Zenon DEF Escalate, TypeOK, FlagsOK
  <2>4. TypeOK'
    BY <2>1, <2>2, <2>3 DEF TypeOK, ScalarsOK, FlagsOK, TreeOK
  <2>5. StageInv'
    BY <1>0, <1>12 DEF Escalate, StageInv
  <2>6. AloneInv'
    BY <1>0, <1>12, ProgramsEndTree DEF Escalate, AloneInv
  <2>7. AckInv'
    BY <1>0, <1>12 DEF Escalate, AckInv, RunsOnlyWhenPinned
  <2>8. HomeInv'
    BY <1>0, <1>12 DEF Escalate, HomeInv
  <2>9. GoneInv'
    BY <1>0, <1>12, <2>1 DEF Escalate, GoneInv
  <2>10. ReportInv'
    BY <1>0, <1>12 DEF Escalate, ReportInv
  <2>11. OverInv'
    BY <1>0, <1>12 DEF Escalate, OverInv
  <2>12. FallbackInv'
    BY <1>0, <1>12, ProgramsEndTree DEF Escalate, FallbackKill, FallbackInv
  <2>. QED
    BY <2>4, <2>5, <2>6, <2>7, <2>8, <2>9, <2>10, <2>11, <2>12 DEF Inv
<1>13. CASE Finish
  BY <1>13 DEF Finish, Inv, TypeOK, StageInv, AloneInv, AckInv, RunsOnlyWhenPinned, HomeInv,
     GoneInv, ReportInv, OverInv, FallbackInv
<1>14. CASE GiveUp
  <2>1. TreeOK' /\ alive' \subseteq alive
    BY <1>0, <1>14 DEF GiveUp, TreeOK
  <2>2. ScalarsOK'
    BY <1>0, <1>14 DEF GiveUp, TypeOK, ScalarsOK
  <2>3. FlagsOK'
    BY <1>0, <1>14, Zenon DEF GiveUp, TypeOK, FlagsOK
  <2>4. TypeOK'
    BY <2>1, <2>2, <2>3 DEF TypeOK, ScalarsOK, FlagsOK, TreeOK
  <2>5. StageInv'
    BY <1>0, <1>14 DEF GiveUp, StageInv
  <2>6. AloneInv'
    BY <1>0, <1>14 DEF GiveUp, AloneInv
  <2>7. AckInv'
    BY <1>0, <1>14 DEF GiveUp, AckInv, RunsOnlyWhenPinned
  <2>8. HomeInv'
    BY <1>0, <1>14 DEF GiveUp, HomeInv
  <2>9. GoneInv'
    BY <1>0, <1>14 DEF GiveUp, GoneInv
  <2>10. ReportInv'
    BY <1>0, <1>14 DEF GiveUp, ReportInv
  <2>11. OverInv'
    BY <1>0, <1>14 DEF GiveUp, OverInv, HomeInv
  <2>12. FallbackInv'
    BY <1>0, <1>14 DEF GiveUp, FallbackInv, HomeInv
  <2>. QED
    BY <2>4, <2>5, <2>6, <2>7, <2>8, <2>9, <2>10, <2>11, <2>12 DEF Inv
<1>15. CASE Reap
  <2>1. TreeOK' /\ alive' \subseteq alive
    BY <1>0, <1>15 DEF Reap, TreeOK
  <2>2. ScalarsOK'
    BY <1>0, <1>15 DEF Reap, TypeOK, ScalarsOK
  <2>3. FlagsOK'
    BY <1>0, <1>15, Zenon DEF Reap, TypeOK, FlagsOK
  <2>4. TypeOK'
    BY <2>1, <2>2, <2>3 DEF TypeOK, ScalarsOK, FlagsOK, TreeOK
  <2>5. StageInv'
    BY <1>15 DEF Reap, StageInv
  <2>6. AloneInv'
    BY <1>0, <1>15 DEF Reap, AloneInv
  <2>7. AckInv'
    BY <1>0, <1>15 DEF Reap, AckInv, RunsOnlyWhenPinned
  <2>8. HomeInv'
    BY <1>15 DEF Reap, HomeInv
  <2>9. GoneInv'
    BY <1>0, <1>15 DEF Reap, GoneInv
  <2>10. ReportInv'
    BY <1>0, <1>15 DEF Reap, ReportInv
  <2>11. OverInv'
    BY <1>15 DEF Reap, OverInv
  <2>12. FallbackInv'
    BY <1>0, <1>15 DEF Reap, FallbackInv
  <2>. QED
    BY <2>4, <2>5, <2>6, <2>7, <2>8, <2>9, <2>10, <2>11, <2>12 DEF Inv
<1>16. CASE SupBoot
  <2>1. TreeOK' /\ alive' \subseteq alive
    BY <1>0, <1>16, SupervisorEndsTree DEF SupBoot, TreeOK
  <2>2. ScalarsOK'
    <3>1. \/ UNCHANGED <<sup, pending>>
          \/ sup' = "watch" /\ (UNCHANGED pending \/ pending' = pending \ {"TERM"})
          \/ sup' = "configure" /\ UNCHANGED pending
          \/ sup' = "gone" /\ pending' = {}
      BY <1>16 DEF SupervisorEnds, SupBoot
    <3>2. /\ UNCHANGED <<call, configured, ack, stage, born, crashed>>
          /\ report' \in {report, "started", "error", "closed"}
      BY <1>16 DEF SupBoot
    <3>3. sup' \in {sup, "watch", "configure", "gone"} /\ pending' \subseteq pending
      BY <3>1
    <3>4. alive' \subseteq 1..born
      BY <1>0, <2>1 DEF TypeOK
    <3>. QED
      BY <1>0, <3>2, <3>3, <3>4 DEF TypeOK, ScalarsOK
  <2>3. FlagsOK'
    BY <1>0, <1>16, Zenon DEF SupBoot, TypeOK, FlagsOK, SupervisorEnds
  <2>4. TypeOK'
    BY <2>1, <2>2, <2>3 DEF TypeOK, ScalarsOK, FlagsOK, TreeOK
  <2>5. StageInv'
    BY <1>0, <1>16, SupervisorEndsTree DEF SupBoot, StageInv
  <2>6. AloneInv'
    BY <1>0, <1>16, SupervisorEndsTree DEF SupBoot, AloneInv
  <2>7. AckInv'
    BY <1>0, <1>16 DEF SupBoot, AckInv, RunsOnlyWhenPinned
  <2>8. HomeInv'
    BY <1>0, <1>16, SupervisorEndsTree DEF SupBoot, HomeInv
  <2>9. GoneInv'
    BY <1>16 DEF SupBoot, GoneInv
  <2>10. ReportInv'
    BY <1>0, <1>16 DEF SupBoot, ReportInv
  <2>11. OverInv'
    BY <1>0, <1>16 DEF SupBoot, OverInv
  <2>12. FallbackInv'
    BY <1>0, <1>16 DEF SupBoot, FallbackInv
  <2>. QED
    BY <2>4, <2>5, <2>6, <2>7, <2>8, <2>9, <2>10, <2>11, <2>12 DEF Inv
<1>17. CASE SupConfigure
  <2>1. CASE Report("error") /\ SupervisorEnds({}) /\ UNCHANGED <<stage, born>>
    <3>1. /\ TreeOK' /\ alive' \subseteq alive /\ sup' = "gone" /\ pending' = {}
          /\ terminating' = FALSE /\ force' = FALSE
      BY <1>0, <2>1, SupervisorEndsTree
    <3>2. UNCHANGED <<caller, stage, born, crashed>> /\ report' \in {report, "error"}
      BY <1>17, <2>1 DEF SupConfigure
    <3>3. alive = {} /\ alive' = {} /\ grouped' = {} /\ stage = "none" /\ crashed = "no"
      BY <1>0, <1>17, <3>1 DEF SupConfigure, StageInv, AloneInv, TreeOK, HomeInv
    <3>4. ScalarsOK'
      BY <1>0, <3>1, <3>2 DEF TypeOK, ScalarsOK
    <3>5. FlagsOK'
      BY <1>0, <3>1, <3>2, Zenon DEF TypeOK, FlagsOK
    <3>6. TypeOK'
      BY <3>1, <3>4, <3>5 DEF TypeOK, ScalarsOK, FlagsOK, TreeOK
    <3>. QED
      BY <3>1, <3>2, <3>3, <3>6 DEF Inv, StageInv, AloneInv, AckInv, RunsOnlyWhenPinned,
         HomeInv, GoneInv, ReportInv, OverInv, FallbackInv
  <2>2. CASE sup' = "fork"
    <3>1. /\ UNCHANGED <<caller, report, crashed, pending, terminating, force>>
          /\ stage' = "setup" /\ born' = 1
          /\ alive' = {1} /\ grouped' = {1} /\ holding' = {1}
          /\ parent' = [parent EXCEPT ![1] = 0]
      BY <1>17, <2>2 DEF SupConfigure, SupervisorEnds
    <3>2. parent' \in [Programs -> {Supervisor, Outside} \cup Programs] /\ parent'[1] = 0
      BY <1>0, <3>1 DEF TreeOK
    <3>3. TreeOK'
      BY <3>1, <3>2 DEF TreeOK
    <3>4. ScalarsOK'
      BY <1>0, <2>2, <3>1 DEF TypeOK, ScalarsOK
    <3>5. FlagsOK'
      BY <1>0, <3>1, Zenon DEF TypeOK, FlagsOK
    <3>6. TypeOK'
      BY <3>3, <3>4, <3>5 DEF TypeOK, ScalarsOK, FlagsOK, TreeOK
    <3>. QED
      BY <1>17, <3>1, <3>2, <3>6 DEF SupConfigure, Inv, StageInv, AloneInv, AckInv,
         RunsOnlyWhenPinned, HomeInv, GoneInv, ReportInv, OverInv, FallbackInv
  <2>. QED
    BY <1>17, <2>1, <2>2 DEF SupConfigure
<1>18. CASE SupStopped
  <2>1. TreeOK' /\ alive' \subseteq alive
    BY <1>0, <1>18, SupervisorEndsTree DEF SupStopped, TreeOK
  <2>2. ScalarsOK'
    BY <1>0, <1>18, <2>1 DEF SupStopped, TypeOK, ScalarsOK, SupervisorEnds
  <2>3. FlagsOK'
    BY <1>0, <1>18, Zenon DEF SupStopped, TypeOK, FlagsOK, SupervisorEnds
  <2>4. TypeOK'
    BY <2>1, <2>2, <2>3 DEF TypeOK, ScalarsOK, FlagsOK, TreeOK
  <2>5. StageInv'
    BY <1>0, <1>18, SupervisorEndsTree DEF SupStopped, StageInv
  <2>6. AloneInv'
    BY <1>0, <1>18, SupervisorEndsTree DEF SupStopped, AloneInv, TypeOK
  <2>7. AckInv'
    BY <1>0, <1>18 DEF SupStopped, AckInv, RunsOnlyWhenPinned
  <2>8. HomeInv'
    BY <1>0, <1>18, SupervisorEndsTree DEF SupStopped, HomeInv
  <2>9. GoneInv'
    <3>1. alive \subseteq {Target}
      BY <1>0, <1>18 DEF SupStopped, AloneInv
    <3>2. sup' = "gone" => alive' \subseteq alive \ {Target}
      BY <1>0, <1>18, SupervisorEndsTree DEF SupStopped
    <3>. QED
      BY <3>1, <3>2 DEF GoneInv
  <2>10. ReportInv'
    BY <1>0, <1>18 DEF SupStopped, ReportInv
  <2>11. OverInv'
    BY <1>0, <1>18 DEF SupStopped, OverInv
  <2>12. FallbackInv'
    BY <1>0, <1>18 DEF SupStopped, FallbackInv, HomeInv
  <2>. QED
    BY <2>4, <2>5, <2>6, <2>7, <2>8, <2>9, <2>10, <2>11, <2>12 DEF Inv
<1>19. CASE SupSetupFailed
  <2>1. TreeOK' /\ alive' \subseteq alive
    BY <1>0, <1>19, SupervisorEndsTree DEF SupSetupFailed
  <2>2. ScalarsOK'
    BY <1>0, <1>19, <2>1 DEF SupSetupFailed, TypeOK, ScalarsOK, SupervisorEnds
  <2>3. FlagsOK'
    BY <1>0, <1>19, Zenon DEF SupSetupFailed, TypeOK, FlagsOK, SupervisorEnds
  <2>4. TypeOK'
    BY <2>1, <2>2, <2>3 DEF TypeOK, ScalarsOK, FlagsOK, TreeOK
  <2>5. StageInv'
    BY <1>0, <1>19, SupervisorEndsTree DEF SupSetupFailed, StageInv
  <2>6. AloneInv'
    BY <1>0, <1>19, SupervisorEndsTree DEF SupSetupFailed, AloneInv
  <2>7. AckInv'
    BY <1>0, <1>19 DEF SupSetupFailed, AckInv, RunsOnlyWhenPinned
  <2>8. HomeInv'
    BY <1>0, <1>19, SupervisorEndsTree DEF SupSetupFailed, HomeInv
  <2>9. GoneInv'
    BY <1>0, <1>19, <2>1 DEF SupSetupFailed, GoneInv, StageInv, AloneInv
  <2>10. ReportInv'
    BY <1>0, <1>19, SupervisorEndsTree DEF SupSetupFailed, ReportInv, HomeInv
  <2>11. OverInv'
    BY <1>0, <1>19 DEF SupSetupFailed, OverInv
  <2>12. FallbackInv'
    BY <1>0, <1>19 DEF SupSetupFailed, FallbackInv, HomeInv
  <2>. QED
    BY <2>4, <2>5, <2>6, <2>7, <2>8, <2>9, <2>10, <2>11, <2>12 DEF Inv
<1>20. CASE SupAcknowledged
  BY <1>20 DEF SupAcknowledged, Inv, TypeOK, StageInv, AloneInv, AckInv, RunsOnlyWhenPinned,
     HomeInv, GoneInv, ReportInv, OverInv, FallbackInv
<1>21. CASE SupRefused
  <2>1. TreeOK' /\ alive' \subseteq alive
    BY <1>0, <1>21, SupervisorEndsTree DEF SupRefused
  <2>2. ScalarsOK'
    BY <1>0, <1>21, <2>1 DEF SupRefused, TypeOK, ScalarsOK, SupervisorEnds
  <2>3. FlagsOK'
    BY <1>0, <1>21, Zenon DEF SupRefused, TypeOK, FlagsOK, SupervisorEnds
  <2>4. TypeOK'
    BY <2>1, <2>2, <2>3 DEF TypeOK, ScalarsOK, FlagsOK, TreeOK
  <2>5. StageInv'
    BY <1>0, <1>21, SupervisorEndsTree DEF SupRefused, StageInv
  <2>6. AloneInv'
    BY <1>0, <1>21, SupervisorEndsTree DEF SupRefused, AloneInv
  <2>7. AckInv'
    BY <1>0, <1>21 DEF SupRefused, AckInv, RunsOnlyWhenPinned
  <2>8. HomeInv'
    BY <1>0, <1>21, SupervisorEndsTree DEF SupRefused, HomeInv
  <2>9. GoneInv'
    <3>1. alive \subseteq {Target}
      BY <1>0, <1>21 DEF SupRefused, AloneInv, StageInv
    <3>2. sup' = "gone" => alive' \subseteq alive \ {Target}
      BY <1>0, <1>21, SupervisorEndsTree DEF SupRefused
    <3>. QED
      BY <3>1, <3>2 DEF GoneInv
  <2>10. ReportInv'
    BY <1>0, <1>21 DEF SupRefused, ReportInv
  <2>11. OverInv'
    BY <1>0, <1>21 DEF SupRefused, OverInv
  <2>12. FallbackInv'
    BY <1>0, <1>21 DEF SupRefused, FallbackInv, HomeInv
  <2>. QED
    BY <2>4, <2>5, <2>6, <2>7, <2>8, <2>9, <2>10, <2>11, <2>12 DEF Inv
<1>22. CASE SupHandle
  <2>1. TreeOK' /\ alive' \subseteq alive
    BY <1>0, <1>22 DEF SupHandle, TreeOK
  <2>2. ScalarsOK'
    BY <1>0, <1>22 DEF SupHandle, TypeOK, ScalarsOK
  <2>3. FlagsOK'
    BY <1>0, <1>22, Zenon DEF SupHandle, TypeOK, FlagsOK
  <2>4. TypeOK'
    BY <2>1, <2>2, <2>3 DEF TypeOK, ScalarsOK, FlagsOK, TreeOK
  <2>5. StageInv'
    BY <1>0, <1>22 DEF SupHandle, StageInv
  <2>6. AloneInv'
    BY <1>0, <1>22 DEF SupHandle, AloneInv
  <2>7. AckInv'
    BY <1>0, <1>22 DEF SupHandle, AckInv, RunsOnlyWhenPinned
  <2>8. HomeInv'
    BY <1>0, <1>22 DEF SupHandle, HomeInv
  <2>9. GoneInv'
    BY <1>22 DEF SupHandle, GoneInv
  <2>10. ReportInv'
    BY <1>0, <1>22 DEF SupHandle, ReportInv
  <2>11. OverInv'
    BY <1>0, <1>22 DEF SupHandle, OverInv
  <2>12. FallbackInv'
    BY <1>0, <1>22 DEF SupHandle, FallbackInv
  <2>. QED
    BY <2>4, <2>5, <2>6, <2>7, <2>8, <2>9, <2>10, <2>11, <2>12 DEF Inv
<1>23. CASE SupExecuted
  <2>1. TreeOK' /\ alive' \subseteq alive
    BY <1>0, <1>23, SupervisorEndsTree DEF SupExecuted, TreeOK
  <2>2. ScalarsOK'
    <3>1. \/ UNCHANGED <<sup, pending>>
          \/ sup' = "watch" /\ (UNCHANGED pending \/ pending' = pending \ {"TERM"})
          \/ sup' = "configure" /\ UNCHANGED pending
          \/ sup' = "gone" /\ pending' = {}
      BY <1>23 DEF SupervisorEnds, SupExecuted
    <3>2. /\ UNCHANGED <<call, configured, ack, stage, born, crashed>>
          /\ report' \in {report, "started", "error", "closed"}
      BY <1>23 DEF SupExecuted
    <3>3. sup' \in {sup, "watch", "configure", "gone"} /\ pending' \subseteq pending
      BY <3>1
    <3>4. alive' \subseteq 1..born
      BY <1>0, <2>1 DEF TypeOK
    <3>. QED
      BY <1>0, <3>2, <3>3, <3>4 DEF TypeOK, ScalarsOK
  <2>3. FlagsOK'
    BY <1>0, <1>23, Zenon DEF SupExecuted, TypeOK, FlagsOK, SupervisorEnds
  <2>4. TypeOK'
    BY <2>1, <2>2, <2>3 DEF TypeOK, ScalarsOK, FlagsOK, TreeOK
  <2>5. StageInv'
    BY <1>0, <1>23, SupervisorEndsTree DEF SupExecuted, StageInv
  <2>6. AloneInv'
    BY <1>0, <1>23, <2>1 DEF SupExecuted, AloneInv
  <2>7. AckInv'
    BY <1>0, <1>23 DEF SupExecuted, AckInv, RunsOnlyWhenPinned
  <2>8. HomeInv'
    BY <1>0, <1>23, SupervisorEndsTree DEF SupExecuted, HomeInv
  <2>9. GoneInv'
    BY <1>0, <1>23, <2>1 DEF SupExecuted, GoneInv, AloneInv
  <2>10. ReportInv'
    BY <1>0, <1>23, SupervisorEndsTree DEF SupExecuted, ReportInv, HomeInv
  <2>11. OverInv'
    BY <1>0, <1>23 DEF SupExecuted, OverInv
  <2>12. FallbackInv'
    BY <1>0, <1>23 DEF SupExecuted, FallbackInv, HomeInv
  <2>. QED
    BY <2>4, <2>5, <2>6, <2>7, <2>8, <2>9, <2>10, <2>11, <2>12 DEF Inv
<1>24. CASE SupWatch
  <2>1. TreeOK' /\ alive' \subseteq alive
    BY <1>0, <1>24, ProgramsEndTree, SupervisorEndsTree DEF SupWatch, TreeOK
  <2>2. ScalarsOK'
    <3>1. \/ UNCHANGED <<sup, pending>>
          \/ sup' = "watch" /\ (UNCHANGED pending \/ pending' = pending \ {"TERM"})
          \/ sup' = "configure" /\ UNCHANGED pending
          \/ sup' = "gone" /\ pending' = {}
      BY <1>24 DEF SupervisorEnds, SupWatch
    <3>2. /\ UNCHANGED <<call, configured, ack, stage, born, crashed>>
          /\ report' \in {report, "started", "error", "closed"}
      BY <1>24 DEF SupWatch
    <3>3. sup' \in {sup, "watch", "configure", "gone"} /\ pending' \subseteq pending
      BY <3>1
    <3>4. alive' \subseteq 1..born
      BY <1>0, <2>1 DEF TypeOK
    <3>. QED
      BY <1>0, <3>2, <3>3, <3>4 DEF TypeOK, ScalarsOK
  <2>3. FlagsOK'
    BY <1>0, <1>24, Zenon DEF SupWatch, TypeOK, FlagsOK, SupervisorEnds
  <2>4. TypeOK'
    BY <2>1, <2>2, <2>3 DEF TypeOK, ScalarsOK, FlagsOK, TreeOK
  <2>5. StageInv'
    BY <1>0, <1>24, SupervisorEndsTree DEF SupWatch, StageInv
  <2>6. AloneInv'
    BY <1>0, <1>24, <2>1, ProgramsEndTree, SupervisorEndsTree, OldestIsChild DEF SupWatch,
       AloneInv
  <2>7. AckInv'
    BY <1>0, <1>24 DEF SupWatch, AckInv, RunsOnlyWhenPinned
  <2>8. HomeInv'
    BY <1>0, <1>24, ProgramsEndTree, SupervisorEndsTree DEF SupWatch, HomeInv
  <2>9. GoneInv'
    BY <1>0, <1>24, <2>1, OldestIsChild DEF SupWatch, GoneInv
  <2>10. ReportInv'
    BY <1>0, <1>24 DEF SupWatch, ReportInv
  <2>11. OverInv'
    BY <1>0, <1>24 DEF SupWatch, OverInv
  <2>12. FallbackInv'
    BY <1>0, <1>24 DEF SupWatch, FallbackInv, HomeInv
  <2>. QED
    BY <2>4, <2>5, <2>6, <2>7, <2>8, <2>9, <2>10, <2>11, <2>12 DEF Inv
<1>25. CASE SupForce
  BY <1>25 DEF SupForce, Inv, TypeOK, StageInv, AloneInv, AckInv, RunsOnlyWhenPinned, HomeInv,
     GoneInv, ReportInv, OverInv, FallbackInv
<1>26. CASE SupTake
  BY <1>26 DEF SupTake, Inv, TypeOK, StageInv, AloneInv, AckInv, RunsOnlyWhenPinned, HomeInv,
     GoneInv, ReportInv, OverInv, FallbackInv
<1>27. CASE SetUp
  <2>1. TreeOK' /\ alive' \subseteq alive
    BY <1>0, <1>27, ProgramsEndTree DEF SetUp, TreeOK
  <2>2. ScalarsOK'
    BY <1>0, <1>27, <2>1 DEF SetUp, TypeOK, ScalarsOK
  <2>3. FlagsOK'
    BY <1>0, <1>27, Zenon DEF SetUp, TypeOK, FlagsOK
  <2>4. TypeOK'
    BY <2>1, <2>2, <2>3 DEF TypeOK, ScalarsOK, FlagsOK, TreeOK
  <2>5. StageInv'
    BY <1>0, <1>27 DEF SetUp, StageInv
  <2>6. AloneInv'
    BY <1>0, <1>27, ProgramsEndTree DEF SetUp, AloneInv
  <2>7. AckInv'
    BY <1>0, <1>27 DEF SetUp, AckInv, RunsOnlyWhenPinned
  <2>8. HomeInv'
    BY <1>0, <1>27, ProgramsEndTree DEF SetUp, HomeInv
  <2>9. GoneInv'
    BY <1>0, <1>27 DEF SetUp, GoneInv
  <2>10. ReportInv'
    BY <1>0, <1>27 DEF SetUp, ReportInv
  <2>11. OverInv'
    BY <1>0, <1>27 DEF SetUp, OverInv
  <2>12. FallbackInv'
    BY <1>0, <1>27, ProgramsEndTree DEF SetUp, FallbackInv
  <2>. QED
    BY <2>4, <2>5, <2>6, <2>7, <2>8, <2>9, <2>10, <2>11, <2>12 DEF Inv
<1>28. CASE Exec
  <2>1. TreeOK' /\ alive' \subseteq alive
    BY <1>0, <1>28, ProgramsEndTree DEF Exec, TreeOK
  <2>2. ScalarsOK'
    BY <1>0, <1>28, <2>1 DEF Exec, TypeOK, ScalarsOK
  <2>3. FlagsOK'
    BY <1>0, <1>28, Zenon DEF Exec, TypeOK, FlagsOK
  <2>4. TypeOK'
    BY <2>1, <2>2, <2>3 DEF TypeOK, ScalarsOK, FlagsOK, TreeOK
  <2>5. StageInv'
    BY <1>0, <1>28 DEF Exec, StageInv
  <2>6. AloneInv'
    BY <1>0, <1>28, ProgramsEndTree DEF Exec, AloneInv
  <2>7. AckInv'
    BY <1>0, <1>28 DEF Exec, AckInv, RunsOnlyWhenPinned
  <2>8. HomeInv'
    BY <1>0, <1>28, ProgramsEndTree DEF Exec, HomeInv
  <2>9. GoneInv'
    BY <1>0, <1>28 DEF Exec, GoneInv
  <2>10. ReportInv'
    BY <1>0, <1>28 DEF Exec, ReportInv
  <2>11. OverInv'
    BY <1>0, <1>28 DEF Exec, OverInv
  <2>12. FallbackInv'
    BY <1>0, <1>28, ProgramsEndTree DEF Exec, FallbackInv
  <2>. QED
    BY <2>4, <2>5, <2>6, <2>7, <2>8, <2>9, <2>10, <2>11, <2>12 DEF Inv
<1>29. CASE Fork
  BY <1>29 DEF Fork, Inv, TypeOK, StageInv, AloneInv, AckInv, RunsOnlyWhenPinned, HomeInv,
     GoneInv, ReportInv, OverInv, FallbackInv
<1>30. CASE Escape
  BY <1>30 DEF Escape, Inv, TypeOK, StageInv, AloneInv, AckInv, RunsOnlyWhenPinned, HomeInv,
     GoneInv, ReportInv, OverInv, FallbackInv
<1>31. CASE CloseOutput
  BY <1>31 DEF CloseOutput, Inv, TypeOK, StageInv, AloneInv, AckInv, RunsOnlyWhenPinned,
     HomeInv, GoneInv, ReportInv, OverInv, FallbackInv
<1>32. CASE ProgramEnds
  <2>1. TreeOK' /\ alive' \subseteq alive
    BY <1>0, <1>32, ProgramsEndTree DEF ProgramEnds
  <2>2. ScalarsOK'
    BY <1>0, <1>32, <2>1 DEF ProgramEnds, TypeOK, ScalarsOK
  <2>3. FlagsOK'
    BY <1>0, <1>32, Zenon DEF ProgramEnds, TypeOK, FlagsOK
  <2>4. TypeOK'
    BY <2>1, <2>2, <2>3 DEF TypeOK, ScalarsOK, FlagsOK, TreeOK
  <2>5. StageInv'
    BY <1>0, <1>32 DEF ProgramEnds, StageInv
  <2>6. AloneInv'
    BY <1>0, <1>32, ProgramsEndTree DEF ProgramEnds, AloneInv
  <2>7. AckInv'
    BY <1>0, <1>32 DEF ProgramEnds, AckInv, RunsOnlyWhenPinned
  <2>8. HomeInv'
    BY <1>0, <1>32, ProgramsEndTree DEF ProgramEnds, HomeInv
  <2>9. GoneInv'
    BY <1>0, <1>32 DEF ProgramEnds, GoneInv
  <2>10. ReportInv'
    BY <1>0, <1>32 DEF ProgramEnds, ReportInv
  <2>11. OverInv'
    BY <1>0, <1>32 DEF ProgramEnds, OverInv
  <2>12. FallbackInv'
    BY <1>0, <1>32, ProgramsEndTree DEF ProgramEnds, FallbackInv
  <2>. QED
    BY <2>4, <2>5, <2>6, <2>7, <2>8, <2>9, <2>10, <2>11, <2>12 DEF Inv
<1>33. CASE CallerDies
  <2>1. TreeOK' /\ alive' \subseteq alive
    BY <1>0, <1>33, SupervisorEndsTree DEF CallerDies, TreeOK
  <2>2. ScalarsOK'
    BY <1>0, <1>33, <2>1 DEF CallerDies, TypeOK, ScalarsOK, SupervisorEnds
  <2>3. FlagsOK'
    <3>1. (terminating' = FALSE /\ force' = FALSE) \/ (terminating' = terminating /\ force' = force)
      BY <1>33 DEF CallerDies, SupervisorEnds
    <3>2. listening' = FALSE /\ left' = left
      BY <1>33 DEF CallerDies
    <3>. QED
      <4>1. FlagsOK
        BY <1>0, Zenon DEF TypeOK, FlagsOK
      <4>2. listening' \in BOOLEAN /\ left' \in BOOLEAN
        BY <3>2, <4>1, Zenon DEF FlagsOK
      <4>3. terminating' \in BOOLEAN /\ force' \in BOOLEAN /\ (force' => terminating')
        <5>1. CASE terminating' = FALSE /\ force' = FALSE
          BY <5>1, Zenon
        <5>2. CASE terminating' = terminating /\ force' = force
          BY <4>1, <5>2, Zenon DEF FlagsOK
        <5>. QED
          BY <3>1, <5>2
      <4>. QED
        BY <4>2, <4>3, Zenon DEF FlagsOK
  <2>4. TypeOK'
    BY <2>1, <2>2, <2>3 DEF TypeOK, ScalarsOK, FlagsOK, TreeOK
  <2>5. StageInv'
    BY <1>0, <1>33, SupervisorEndsTree DEF CallerDies, StageInv
  <2>6. AloneInv'
    BY <1>0, <1>33, SupervisorEndsTree DEF CallerDies, AloneInv
  <2>7. AckInv'
    BY <1>0, <1>33 DEF CallerDies, AckInv, RunsOnlyWhenPinned
  <2>8. HomeInv'
    BY <1>0, <1>33, SupervisorEndsTree DEF CallerDies, HomeInv
  <2>9. GoneInv'
    BY <1>33 DEF CallerDies, GoneInv
  <2>10. ReportInv'
    BY <1>0, <1>33 DEF CallerDies, ReportInv
  <2>11. OverInv'
    BY <1>0, <1>33 DEF CallerDies, OverInv
  <2>12. FallbackInv'
    BY <1>33 DEF CallerDies, FallbackInv
  <2>. QED
    BY <2>4, <2>5, <2>6, <2>7, <2>8, <2>9, <2>10, <2>11, <2>12 DEF Inv
<1>34. CASE SupervisorKilled
  <2>1. TreeOK' /\ alive' \subseteq alive
    BY <1>0, <1>34, SupervisorEndsTree DEF SupervisorKilled
  <2>2. ScalarsOK'
    BY <1>0, <1>34, <2>1 DEF SupervisorKilled, TypeOK, ScalarsOK, SupervisorEnds
  <2>3. FlagsOK'
    BY <1>0, <1>34, Zenon DEF SupervisorKilled, TypeOK, FlagsOK, SupervisorEnds
  <2>4. TypeOK'
    BY <2>1, <2>2, <2>3 DEF TypeOK, ScalarsOK, FlagsOK, TreeOK
  <2>5. StageInv'
    BY <1>0, <1>34, SupervisorEndsTree DEF SupervisorKilled, StageInv
  <2>6. AloneInv'
    BY <1>0, <1>34, SupervisorEndsTree DEF SupervisorKilled, AloneInv
  <2>7. AckInv'
    BY <1>0, <1>34 DEF SupervisorKilled, AckInv, RunsOnlyWhenPinned
  <2>8. HomeInv'
    BY <1>0, <1>34, SupervisorEndsTree DEF SupervisorKilled, HomeInv
  <2>9. GoneInv'
    BY <1>34 DEF SupervisorKilled, GoneInv
  <2>10. ReportInv'
    BY <1>0, <1>34 DEF SupervisorKilled, ReportInv
  <2>11. OverInv'
    BY <1>0, <1>34 DEF SupervisorKilled, OverInv
  <2>12. FallbackInv'
    BY <1>34 DEF SupervisorKilled, FallbackInv
  <2>. QED
    BY <2>4, <2>5, <2>6, <2>7, <2>8, <2>9, <2>10, <2>11, <2>12 DEF Inv
<1>35. CASE Rest
  BY <1>35 DEF Rest, Inv, vars, TypeOK, StageInv, AloneInv, AckInv, RunsOnlyWhenPinned,
     HomeInv, GoneInv, ReportInv, OverInv, FallbackInv
<1>. QED
  BY <1>1, <1>2, <1>3, <1>4, <1>5, <1>6, <1>7, <1>8, <1>9, <1>10, <1>11, <1>12, <1>13, <1>14,
     <1>15, <1>16, <1>17, <1>18, <1>19, <1>20, <1>21, <1>22, <1>23, <1>24, <1>25, <1>26, <1>27,
     <1>28, <1>29, <1>30, <1>31, <1>32, <1>33, <1>34, <1>35 DEF Next, SupStep, Caller

\* The strengthened invariant holds in every reachable state.
LEMMA Invariance == Spec => []Inv
<1>1. Inv /\ UNCHANGED vars => Inv'
  <2>. SUFFICES ASSUME Inv, UNCHANGED vars PROVE Inv'
    OBVIOUS
  <2>1. TypeOK' /\ StageInv' /\ AloneInv' /\ AckInv'
    BY DEF Inv, vars, caller, supervisor, tree, TypeOK, StageInv, AloneInv, AckInv,
       RunsOnlyWhenPinned
  <2>2. HomeInv' /\ GoneInv' /\ ReportInv' /\ OverInv' /\ FallbackInv'
    BY DEF Inv, vars, caller, supervisor, tree, HomeInv, GoneInv, ReportInv, OverInv,
       FallbackInv
  <2>. QED
    BY <2>1, <2>2 DEF Inv
<1>2. Inv /\ [Next]_vars => Inv'
  BY <1>1, Step
<1>. QED
  BY <1>2, Initially, PTL DEF Spec

\* Every variable keeps its type; a program's parent is older than the program.
THEOREM TypeCorrect == Spec => []TypeOK
<1>. QED
  BY Invariance, PTL DEF Inv

\* A returned call whose supervisor was not killed leaves no program behind, for every
\* number of programs and every way in which they fork, move and ignore signals.
THEOREM TreeGone == Spec => []TreeIsGone
<1>1. Inv => TreeIsGone
  BY DEF Inv, TreeIsGone, OverInv, GoneInv
<1>. QED
  BY <1>1, Invariance, PTL

\* A call leaves nothing in the target's group that could still write output, even if it
\* lost its supervisor before it told it to use force.
THEOREM OutputEnded == Spec => []OutputEnds
<1>1. Inv => OutputEnds
  BY DEF Inv, TypeOK, OutputEnds, OverInv, GoneInv, FallbackInv, HomeInv
<1>. QED
  BY <1>1, Invariance, PTL

\* The target's program runs only after its identity was pinned.
THEOREM PinnedFirst == Spec => []RunsOnlyWhenPinned
<1>. QED
  BY Invariance, PTL DEF Inv, AckInv
=============================================================================
