--------------------------- MODULE FetchingProofs ---------------------------
(***************************************************************************)
(* Whatever plans the providers have, as long as each of them obeys the     *)
(* disciplines of Fetch, which can be seen from its steps and moves: a      *)
(* cancelled fetch learns nothing more and shows nothing, an explicit mode  *)
(* is strict, a snapshot has one owner and the name of the source that      *)
(* answered, and an account is read with its own credential.  Whatever the  *)
(* quotas are, as long as their shares are whole percents, every parser of  *)
(* UsageWindows shows the share that was used, or no window.                *)
(***************************************************************************)
EXTENDS Fetching, SequenceTheorems, TLAPS

\* A fetch is a record of these fields.
Shaped(f) ==
  f = [provider |-> f.provider, mode |-> f.mode, selected |-> f.selected, leg |-> f.leg,
       at |-> f.at, round |-> f.round, owners |-> f.owners, facts |-> f.facts,
       outcome |-> f.outcome, earlier |-> f.earlier, shownAs |-> f.shownAs,
       noticed |-> f.noticed]

\* What a step never changes.
SameErrand(f, g) == g.provider = f.provider /\ g.mode = f.mode /\ g.selected = f.selected

\* Where a fetch may be: in a leg of its mode, at a step of its plan.
Placed(f) ==
  /\ f.provider \in DOMAIN Plans
  /\ f.mode \in DOMAIN PlanOf(f).legs
  /\ f.leg \in DOMAIN Legs(f)
  /\ f.outcome = "running" => f.at \in DOMAIN PlanOf(f).steps
  /\ f.earlier \in Verdicts

\* A fetch that has noticed its cancellation is on its way out.
Leaving(f, told) ==
  f.noticed /\ f.provider \notin Heedless =>
    /\ f.outcome # "shown"
    /\ f.outcome = "running" => told /\ f.at \in Wake(f.provider)

Inv == Shaped(fetch) /\ Placed(fetch) /\ Leaving(fetch, cancelled)

-----------------------------------------------------------------------------
\* A new leg starts at its label and keeps the errand.
LEMMA StartLegFacts ==
  ASSUME NEW f, Shaped(f), NEW leg
  PROVE  LET g == StartLeg(f, leg)
         IN /\ Shaped(g) /\ SameErrand(f, g)
            /\ g.leg = leg /\ g.at = Legs(f)[leg].at
            /\ g.facts = {} /\ g.outcome = f.outcome /\ g.noticed = f.noticed
            /\ g.earlier = f.earlier /\ g.owners = NoOwners
<1> DEFINE start == Legs(f)[leg].at
           owners == NoOwners
<1>1. StartLeg(f, leg) =
        [f EXCEPT !.leg = leg, !.at = start, !.round = 0, !.owners = owners, !.facts = {}]
  BY DEF StartLeg
<1> HIDE DEF start, owners
<1>2. StartLeg(f, leg) =
        [provider |-> f.provider, mode |-> f.mode, selected |-> f.selected, leg |-> leg,
         at |-> start, round |-> 0, owners |-> owners, facts |-> {},
         outcome |-> f.outcome, earlier |-> f.earlier, shownAs |-> f.shownAs,
         noticed |-> f.noticed]
  BY <1>1 DEF Shaped
<1> QED BY <1>2 DEF Shaped, SameErrand, start, owners

\* After a failure the fetch has ended or is at the start of the next leg, in
\* either case with nothing learned.
LEMMA FailedFacts ==
  ASSUME NEW f, Shaped(f), Placed(f), f.outcome = "running", NEW verdict \in Verdicts
  PROVE  LET g == Failed(f, verdict)
         IN /\ Shaped(g) /\ SameErrand(f, g) /\ Placed(g)
            /\ g.facts = {} /\ g.outcome # "shown" /\ g.noticed = f.noticed
            /\ g.outcome = "running" =>
                 /\ verdict \in Legs(f)[f.leg].soft
                 /\ g.leg > 1 /\ g.leg \in DOMAIN Legs(f) /\ g.at = Legs(f)[g.leg].at
                 /\ g.owners = NoOwners
<1> DEFINE s == StartLeg(f, f.leg + 1)
           soft == f.leg < Len(Legs(f)) /\ verdict \in Legs(f)[f.leg].soft
           labels == DOMAIN PlanOf(f).steps
<1>0. /\ Legs(f) \in Seq([at : labels, soft : SUBSET Failures])
      /\ f.leg \in Nat /\ f.leg > 0
  <2>1. Legs(f) \in Seq([at : labels, soft : SUBSET Failures])
    BY PlansWellMade DEF Placed, WellMade, PlanOf, Legs
  <2>2. f.leg \in 1..Len(Legs(f))
    <3> HIDE DEF labels
    <3> QED BY <2>1, LenProperties DEF Placed
  <2> QED BY <2>1, <2>2
<1>1. CASE soft
  <2>1. Failed(f, verdict) = [s EXCEPT !.earlier = verdict]
    BY <1>1 DEF Failed
  <2>2. /\ Shaped(s) /\ SameErrand(f, s) /\ s.leg = f.leg + 1 /\ s.at = Legs(f)[f.leg + 1].at
        /\ s.facts = {} /\ s.outcome = f.outcome /\ s.noticed = f.noticed
        /\ s.owners = NoOwners
    BY StartLegFacts
  <2>3. f.leg + 1 \in DOMAIN Legs(f) /\ f.leg + 1 > 1 /\ Legs(f)[f.leg + 1].at \in labels
    <3>1. f.leg + 1 \in 1..Len(Legs(f)) /\ f.leg + 1 > 1
      BY <1>0, <1>1
    <3>2. \A legs : legs \in Seq([at : labels, soft : SUBSET Failures]) =>
            \A n \in 1..Len(legs) : n \in DOMAIN legs /\ legs[n].at \in labels
      <4> HIDE DEF labels
      <4> TAKE legs
      <4> HAVE legs \in Seq([at : labels, soft : SUBSET Failures])
      <4> TAKE n \in 1..Len(legs)
      <4>1. legs[n] \in [at : labels, soft : SUBSET Failures]
        BY ElementOfSeq
      <4>2. DOMAIN legs = 1..Len(legs)
        BY LenProperties
      <4> QED BY <4>1, <4>2
    <3> HIDE DEF labels
    <3> QED BY <1>0, <3>1, <3>2
  <2>4. LET g == Failed(f, verdict)
        IN /\ Shaped(g) /\ SameErrand(f, g) /\ g.leg = f.leg + 1 /\ g.at = Legs(f)[f.leg + 1].at
           /\ g.facts = {} /\ g.outcome = "running" /\ g.noticed = f.noticed
           /\ g.earlier = verdict /\ g.owners = NoOwners
    BY <2>1, <2>2 DEF Shaped, SameErrand
  <2> QED BY <1>1, <2>3, <2>4 DEF Placed, Legs, PlanOf, SameErrand
<1>2. CASE ~soft
  <2>1. Failed(f, verdict) = [f EXCEPT !.outcome = verdict, !.at = Fail, !.facts = {}]
    BY <1>2 DEF Failed
  <2>2. LET g == Failed(f, verdict)
        IN /\ Shaped(g) /\ SameErrand(f, g) /\ g.leg = f.leg
           /\ g.facts = {} /\ g.outcome = verdict /\ g.noticed = f.noticed
           /\ g.earlier = f.earlier
    BY <2>1 DEF Shaped, SameErrand
  <2> QED BY <2>2 DEF Placed, Verdicts, Legs, PlanOf, SameErrand
<1> QED BY <1>1, <1>2

\* What an answer teaches is a credential's owner or a fact; only an answer
\* about usage is a fact.
LEMMA LearnedFacts ==
  ASSUME NEW f, Shaped(f), NEW ask, NEW reply
  PROVE  LET g == Learned(f, ask, reply)
         IN /\ Shaped(g) /\ SameErrand(f, g)
            /\ g.leg = f.leg /\ g.at = f.at /\ g.outcome = f.outcome /\ g.noticed = f.noticed
            /\ g.earlier = f.earlier
            /\ ask.kind # "usage" => g.facts = f.facts
            /\ ask.kind # "credential" => g.owners = f.owners
<1>1. CASE ask.kind = "credential"
  <2> DEFINE owners == [f.owners EXCEPT ![ask.source] = Owner(f, ask, reply)]
  <2>1. Learned(f, ask, reply) = [f EXCEPT !.owners = owners]
    BY <1>1 DEF Learned
  <2> HIDE DEF owners
  <2> QED BY <1>1, <2>1 DEF Shaped, SameErrand
<1>2. CASE ask.kind = "usage"
  <2> DEFINE facts == f.facts \cup {Fact(ask.source, f.owners[ask.source])}
  <2>1. Learned(f, ask, reply) = [f EXCEPT !.facts = facts]
    BY <1>2 DEF Learned
  <2> HIDE DEF facts
  <2> QED BY <1>2, <2>1 DEF Shaped, SameErrand
<1>3. CASE ask.kind # "credential" /\ ask.kind # "usage"
  <2>1. Learned(f, ask, reply) = f
    BY <1>3 DEF Learned
  <2> QED BY <2>1 DEF SameErrand
<1> QED BY <1>1, <1>2, <1>3

\* An answer about usage is a fact of its source, owned by whoever's credential
\* the source was asked with.
LEMMA FactLearned ==
  ASSUME NEW f, Shaped(f), NEW ask, ask.kind = "usage", NEW reply
  PROVE  Learned(f, ask, reply).facts = f.facts \cup {Fact(ask.source, f.owners[ask.source])}
<1> DEFINE facts == f.facts \cup {Fact(ask.source, f.owners[ask.source])}
<1>1. Learned(f, ask, reply) = [f EXCEPT !.facts = facts]
  BY DEF Learned
<1> HIDE DEF facts
<1>2. Learned(f, ask, reply).facts = facts
  BY <1>1 DEF Shaped
<1> QED BY <1>2 DEF facts

\* A credential that was found is what its source is asked with.
LEMMA OwnerLearned ==
  ASSUME NEW f, Shaped(f), NEW ask, ask.kind = "credential", NEW reply
  PROVE  Learned(f, ask, reply).owners = [f.owners EXCEPT ![ask.source] = Owner(f, ask, reply)]
<1> DEFINE owners == [f.owners EXCEPT ![ask.source] = Owner(f, ask, reply)]
<1>1. Learned(f, ask, reply) = [f EXCEPT !.owners = owners]
  BY DEF Learned
<1> HIDE DEF owners
<1>2. Learned(f, ask, reply).owners = owners
  BY <1>1 DEF Shaped
<1> QED BY <1>2 DEF owners

\* Going to a step keeps everything else.
LEMMA MoveFacts ==
  ASSUME NEW f, Shaped(f), Placed(f), f.outcome = "running",
         NEW label, label \in DOMAIN PlanOf(f).steps
  PROVE  LET g == [f EXCEPT !.at = label]
         IN /\ Shaped(g) /\ SameErrand(f, g) /\ Placed(g)
            /\ g.at = label /\ g.facts = f.facts /\ g.outcome = "running"
            /\ g.noticed = f.noticed /\ g.leg = f.leg
<1> DEFINE g == [f EXCEPT !.at = label]
<1>1. /\ Shaped(g) /\ SameErrand(f, g) /\ g.at = label /\ g.facts = f.facts
      /\ g.outcome = "running" /\ g.noticed = f.noticed /\ g.leg = f.leg
      /\ g.earlier = f.earlier
  BY DEF Shaped, SameErrand
<1> HIDE DEF g
<1>2. Placed(g)
  BY <1>1 DEF Placed, PlanOf, Legs, SameErrand
<1> QED BY <1>1, <1>2 DEF g

-----------------------------------------------------------------------------
\* What a step may do to a fetch that has noticed its cancellation.
Heeding ==
  fetch.noticed /\ fetch.provider \notin Heedless =>
    fetch'.facts \subseteq fetch.facts /\ fetch'.outcome # "shown"

\* After a failure a fetch that has noticed its cancellation is on its way out:
\* the failure is the cancellation itself, or the fetch was on its way already.
LEMMA FailedLeaves ==
  ASSUME NEW f, Shaped(f), Placed(f), f.outcome = "running", NEW verdict \in Verdicts,
         f.provider \notin Heedless, verdict = "cancelled" \/ Wake(f.provider) # {}
  PROVE  Leaving(Failed(f, verdict), TRUE)
<1> DEFINE g == Failed(f, verdict)
           wake == Wake(f.provider)
           plan == Plans[f.provider]
<1>1. /\ SameErrand(f, g) /\ g.outcome # "shown"
      /\ g.outcome = "running" =>
           /\ verdict \in Legs(f)[f.leg].soft
           /\ g.leg > 1 /\ g.leg \in DOMAIN Legs(f) /\ g.at = Legs(f)[g.leg].at
  BY FailedFacts
<1>2. Heeds(plan, wake)
  BY PlansHeed DEF Placed
<1>3. \A leg \in DOMAIN Legs(f) :
        /\ "cancelled" \notin Legs(f)[leg].soft
        /\ leg > 1 /\ wake # {} => Legs(f)[leg].at \in wake
  BY <1>2 DEF Heeds, Placed, Legs, PlanOf
<1> HIDE DEF g, wake, plan
<1>4. g.outcome = "running" => g.at \in wake
  BY <1>1, <1>3 DEF Placed, wake
<1> QED BY <1>1, <1>4 DEF Leaving, SameErrand, g, wake

\* The first leg of every mode starts at a step of the plan.
LEMMA BegunPlaced == FetchInit => Inv
<1> SUFFICES ASSUME FetchInit PROVE Inv
  OBVIOUS
<1>1. PICK provider \in DOMAIN Plans : \E mode \in DOMAIN Plans[provider].legs,
        selected \in {FALSE} \cup {Plans[provider].token # "none"} :
          fetch = Begun(provider, mode, selected)
  BY DEF FetchInit
<1>2. PICK mode \in DOMAIN Plans[provider].legs, selected \in {FALSE} \cup {Plans[provider].token # "none"} :
        fetch = Begun(provider, mode, selected)
  BY <1>1
<1> DEFINE blank == [provider |-> provider, mode |-> mode, selected |-> selected, leg |-> 1,
                     at |-> Fail, round |-> 0, owners |-> NoOwners, facts |-> {},
                     outcome |-> "running", earlier |-> "absent", shownAs |-> "none", noticed |-> FALSE]
           legs == Plans[provider].legs[mode]
           labels == DOMAIN Plans[provider].steps
<1>3. fetch = StartLeg(blank, 1)
  BY <1>2 DEF Begun
<1>4. Shaped(blank)
  BY DEF Shaped
<1>5. /\ Shaped(fetch) /\ SameErrand(blank, fetch) /\ fetch.leg = 1 /\ fetch.at = Legs(blank)[1].at
      /\ fetch.outcome = "running" /\ fetch.noticed = FALSE /\ fetch.earlier = "absent"
  BY <1>3, <1>4, StartLegFacts
<1>6. legs \in Seq([at : labels, soft : SUBSET Failures]) /\ legs # <<>>
  BY PlansWellMade DEF WellMade
<1>7. 1 \in DOMAIN legs /\ legs[1].at \in labels
  <2> HIDE DEF legs, labels
  <2>1. 1 \in 1..Len(legs) /\ DOMAIN legs = 1..Len(legs)
    BY <1>6, LenProperties
  <2>2. legs[1] \in [at : labels, soft : SUBSET Failures]
    BY <1>6, <2>1, ElementOfSeq
  <2> QED BY <2>1, <2>2
<1>8. Legs(fetch) = legs /\ PlanOf(fetch) = Plans[provider] /\ Legs(blank) = legs
  BY <1>5 DEF Legs, PlanOf, SameErrand
<1>9. Placed(fetch)
  BY <1>2, <1>5, <1>7, <1>8 DEF Placed, Verdicts, SameErrand
<1> QED BY <1>5, <1>9 DEF Inv, Leaving

\* An answer: a step that is told of the cancellation leaves, a step where a
\* cancelled fetch may still be is told of it or asks for no usage.
LEMMA AnswerStep == Inv /\ Answer => Inv' /\ Heeding
<1> SUFFICES ASSUME Inv, Answer PROVE Inv' /\ Heeding
  OBVIOUS
<1> DEFINE step == StepOf(fetch)
           ask == step.ask
           plan == Plans[fetch.provider]
           wake == Wake(fetch.provider)
<1>1. Shaped(fetch) /\ Placed(fetch) /\ Leaving(fetch, cancelled) /\ fetch.outcome = "running"
      /\ step.does = "ask" /\ cancelled' = cancelled
  BY DEF Inv, Answer, Running
<1>2. PICK reply \in DOMAIN ask.sees :
        /\ Possible(fetch, ask, reply)
        /\ fetch' = Goto([IF ask.sees[reply] = "ok" THEN Learned(fetch, ask, reply) ELSE fetch
                            EXCEPT !.noticed = @ \/ ask.sees[reply] = "cancelled"],
                         step.next[ask.sees[reply]], ask.sees[reply])
  BY DEF Answer
<1> DEFINE verdict == ask.sees[reply]
           label == step.next[verdict]
           h == IF verdict = "ok" THEN Learned(fetch, ask, reply) ELSE fetch
           noticed == h.noticed \/ verdict = "cancelled"
           n == [h EXCEPT !.noticed = noticed]
<1>3. fetch' = Goto(n, label, verdict)
  BY <1>2
<1>4. /\ Shaped(h) /\ SameErrand(fetch, h)
      /\ h.leg = fetch.leg /\ h.at = fetch.at /\ h.outcome = fetch.outcome
      /\ h.noticed = fetch.noticed /\ h.earlier = fetch.earlier
      /\ (ask.kind # "usage" \/ verdict # "ok") => h.facts = fetch.facts
  <2>1. CASE verdict = "ok"
    <3>1. h = Learned(fetch, ask, reply)
      BY <2>1
    <3> HIDE DEF h, ask, verdict
    <3> QED BY <1>1, <2>1, <3>1, LearnedFacts
  <2>2. CASE verdict # "ok"
    BY <1>1, <2>2 DEF SameErrand
  <2> QED BY <2>1, <2>2
<1> HIDE DEF h, noticed, verdict
<1>5. /\ Shaped(n) /\ SameErrand(fetch, n)
      /\ n.leg = fetch.leg /\ n.at = fetch.at /\ n.outcome = "running"
      /\ n.noticed = noticed /\ n.earlier = fetch.earlier /\ n.facts = h.facts
  BY <1>1, <1>4 DEF Shaped, SameErrand
<1> HIDE DEF n
<1>6. Placed(n)
  BY <1>1, <1>5 DEF Placed, Legs, PlanOf, SameErrand
<1>7. verdict \in Verdicts /\ label \in DOMAIN plan.steps \cup {Fail}
  BY <1>1, PlansWellMade DEF WellMade, Placed, StepOf, PlanOf, verdict
<1>8. ASSUME fetch.provider \notin Heedless, noticed
      PROVE  /\ cancelled /\ label \in wake \cup {Fail}
             /\ verdict = "cancelled" \/ wake # {}
             /\ fetch.noticed => h.facts = fetch.facts
  <2>1. Heeds(plan, wake) /\ step = plan.steps[fetch.at] /\ fetch.at \in DOMAIN plan.steps
    BY <1>1, <1>8, PlansHeed DEF Placed, StepOf, PlanOf
  <2>2. CASE verdict = "cancelled"
    <3>1. reply = "cancelled" /\ label \in wake \cup {Fail}
      BY <1>1, <2>1, <2>2 DEF Heeds, verdict
    <3>2. cancelled
      BY <1>2, <3>1 DEF Possible
    <3> QED BY <1>4, <2>2, <3>1, <3>2
  <2>3. CASE verdict # "cancelled"
    <3>1. fetch.noticed
      BY <1>4, <1>8, <2>3 DEF noticed
    <3>2. cancelled /\ fetch.at \in wake
      BY <1>1, <1>8, <3>1 DEF Leaving
    <3>3. ~("cancelled" \in DOMAIN ask.sees /\ ask.sees["cancelled"] = "cancelled")
      BY <1>2, <2>3, <3>2 DEF Possible, verdict
    <3>4. ask.kind # "usage" /\ label \in wake \cup {Fail}
      <4>1. LET here == plan.steps[fetch.at]
            IN \/ here.does = "give"
               \/ /\ here.does = "ask"
                  /\ \/ "cancelled" \in DOMAIN here.ask.sees /\ here.ask.sees["cancelled"] = "cancelled"
                     \/ /\ here.ask.kind # "usage"
                        /\ \A r \in DOMAIN here.ask.sees :
                             here.next[here.ask.sees[r]] \in wake \cup {Fail}
        BY <2>1, <3>2 DEF Heeds
      <4>2. /\ ask.kind # "usage"
            /\ \A r \in DOMAIN ask.sees : step.next[ask.sees[r]] \in wake \cup {Fail}
        BY <1>1, <2>1, <3>3, <4>1
      <4> QED BY <1>2, <4>2 DEF verdict
    <3> QED BY <1>4, <3>2, <3>4
  <2> QED BY <2>2, <2>3
<1> HIDE DEF label, wake, step, plan
<1>9. CASE label = Fail
  <2>1. fetch' = Failed(n, verdict)
    BY <1>3, <1>9 DEF Goto
  <2>2. /\ Shaped(fetch') /\ SameErrand(n, fetch') /\ Placed(fetch')
        /\ fetch'.facts = {} /\ fetch'.outcome # "shown" /\ fetch'.noticed = noticed
    BY <1>5, <1>6, <1>7, <2>1, FailedFacts
  <2>3. ASSUME fetch.provider \notin Heedless, noticed PROVE Leaving(fetch', TRUE)
    <3>1. n.provider \notin Heedless /\ Wake(n.provider) = wake
      BY <1>5, <2>3 DEF SameErrand, wake
    <3> QED BY <1>5, <1>6, <1>7, <1>8, <2>1, <2>3, <3>1, FailedLeaves
  <2>4. Leaving(fetch', cancelled')
    BY <1>1, <1>5, <1>8, <2>2, <2>3 DEF Leaving, SameErrand
  <2> QED BY <1>5, <2>2, <2>4 DEF Inv, Heeding
<1>10. CASE label # Fail
  <2>1. fetch' = [n EXCEPT !.at = label]
    BY <1>3, <1>10 DEF Goto
  <2>2. label \in DOMAIN PlanOf(n).steps
    BY <1>5, <1>7, <1>10 DEF PlanOf, SameErrand, plan
  <2>3. /\ Shaped(fetch') /\ SameErrand(n, fetch') /\ Placed(fetch')
        /\ fetch'.at = label /\ fetch'.facts = h.facts /\ fetch'.outcome = "running"
        /\ fetch'.noticed = noticed
    BY <1>5, <1>6, <2>1, <2>2, MoveFacts
  <2>4. fetch'.provider = fetch.provider
    BY <1>5, <2>3 DEF SameErrand
  <2>5. Leaving(fetch', cancelled')
    BY <1>1, <1>8, <1>10, <2>3, <2>4 DEF Leaving, wake
  <2>6. Heeding
    BY <1>4, <1>8, <2>3 DEF Heeding, noticed
  <2> QED BY <2>3, <2>5, <2>6 DEF Inv
<1> QED BY <1>9, <1>10

\* Where a fetch that has noticed its cancellation may still be, there is an
\* answer to wait for or a verdict to give: no choice, no round, no snapshot.
LEMMA WakeFacts ==
  ASSUME Inv, Running(fetch), fetch.noticed, fetch.provider \notin Heedless
  PROVE  cancelled /\ Wake(fetch.provider) # {} /\ StepOf(fetch).does \in {"ask", "give"}
<1>1. cancelled /\ fetch.at \in Wake(fetch.provider)
  BY DEF Inv, Leaving, Running
<1>2. Heeds(Plans[fetch.provider], Wake(fetch.provider))
  BY PlansHeed DEF Inv, Placed
<1> QED BY <1>1, <1>2 DEF Heeds, StepOf, PlanOf

\* A choice or a round goes to another step of the plan.
LEMMA MoveStep ==
  ASSUME Inv, Running(fetch), StepOf(fetch).does \in {"choose", "repeat"},
         NEW label \in DOMAIN PlanOf(fetch).steps, NEW round,
         fetch' = [fetch EXCEPT !.at = label, !.round = round], cancelled' = cancelled
  PROVE  Inv' /\ Heeding
<1>1. ~(fetch.noticed /\ fetch.provider \notin Heedless)
  BY WakeFacts
<1>2. /\ Shaped(fetch') /\ SameErrand(fetch, fetch') /\ fetch'.leg = fetch.leg
      /\ fetch'.at = label /\ fetch'.outcome = fetch.outcome /\ fetch'.noticed = fetch.noticed
      /\ fetch'.earlier = fetch.earlier
  BY DEF Inv, Shaped, SameErrand
<1>3. Placed(fetch')
  BY <1>2 DEF Inv, Placed, Legs, PlanOf, SameErrand
<1>4. Leaving(fetch', cancelled') /\ Heeding
  BY <1>1, <1>2 DEF Leaving, Heeding, SameErrand
<1> QED BY <1>2, <1>3, <1>4 DEF Inv

\* A choice of the code goes to one of the steps it may lead to.
LEMMA DecideStep == Inv /\ Decide => Inv' /\ Heeding
<1> SUFFICES ASSUME Inv, Decide PROVE Inv' /\ Heeding
  OBVIOUS
<1>1. PICK label \in StepOf(fetch).to : fetch' = [fetch EXCEPT !.at = label]
  BY DEF Decide
<1>2. label \in DOMAIN PlanOf(fetch).steps
  BY PlansWellMade DEF Inv, Placed, WellMade, Decide, Running, StepOf, PlanOf
<1>3. fetch' = [fetch EXCEPT !.at = label, !.round = fetch.round]
  BY <1>1 DEF Inv, Shaped
<1> QED BY <1>2, <1>3, MoveStep DEF Decide

\* A loop of the code runs once more or goes on.
LEMMA AgainStep == Inv /\ Again => Inv' /\ Heeding
<1> SUFFICES ASSUME Inv, Again PROVE Inv' /\ Heeding
  OBVIOUS
<1> DEFINE step == StepOf(fetch)
<1>1. step.again \in DOMAIN PlanOf(fetch).steps /\ step.next \in DOMAIN PlanOf(fetch).steps
  BY PlansWellMade DEF Inv, Placed, WellMade, Again, Running, StepOf, PlanOf
<1>2. \/ fetch' = [fetch EXCEPT !.at = step.again, !.round = fetch.round + 1]
      \/ fetch' = [fetch EXCEPT !.at = step.next, !.round = 0]
  BY DEF Again
<1> QED BY <1>1, <1>2, MoveStep DEF Again

\* A verdict ends the fetch, or the leg of an automatic choice.
LEMMA GiveUpStep == Inv /\ GiveUp => Inv' /\ Heeding
<1> SUFFICES ASSUME Inv, GiveUp PROVE Inv' /\ Heeding
  OBVIOUS
<1> DEFINE verdict == IF StepOf(fetch).verdict = "earlier" THEN fetch.earlier ELSE StepOf(fetch).verdict
<1>1. fetch' = Failed(fetch, verdict) /\ cancelled' = cancelled /\ Running(fetch)
  BY DEF GiveUp
<1>2. verdict \in Verdicts
  BY PlansWellMade DEF Inv, Placed, WellMade, GiveUp, Running, StepOf, PlanOf, Failures
<1>3. Shaped(fetch) /\ Placed(fetch) /\ fetch.outcome = "running"
  BY <1>1 DEF Inv, Running
<1> HIDE DEF verdict
<1>4. /\ Shaped(fetch') /\ SameErrand(fetch, fetch') /\ Placed(fetch')
      /\ fetch'.facts = {} /\ fetch'.outcome # "shown" /\ fetch'.noticed = fetch.noticed
  BY <1>1, <1>2, <1>3, FailedFacts
<1>5. ASSUME fetch.noticed, fetch.provider \notin Heedless
      PROVE  cancelled /\ Leaving(fetch', TRUE)
  <2>1. cancelled /\ Wake(fetch.provider) # {}
    BY <1>1, <1>5, WakeFacts
  <2>2. Leaving(fetch', TRUE)
    BY <1>1, <1>2, <1>3, <1>5, <2>1, FailedLeaves
  <2> QED BY <2>1, <2>2
<1>6. Leaving(fetch', cancelled')
  BY <1>1, <1>4, <1>5 DEF Leaving, SameErrand
<1> QED BY <1>4, <1>6 DEF Inv, Heeding

\* What was learnt is shown, which a fetch that noticed its cancellation never does.
LEMMA PublishStep == Inv /\ Publish => Inv' /\ Heeding
<1> SUFFICES ASSUME Inv, Publish PROVE Inv' /\ Heeding
  OBVIOUS
<1>1. ~(fetch.noticed /\ fetch.provider \notin Heedless)
  BY WakeFacts DEF Publish
<1> DEFINE source == StepOf(fetch).source
<1>2. fetch' = [fetch EXCEPT !.outcome = "shown", !.shownAs = source] /\ Shaped(fetch)
  BY DEF Publish, Inv
<1> HIDE DEF source
<1>3. /\ Shaped(fetch') /\ SameErrand(fetch, fetch') /\ fetch'.leg = fetch.leg
      /\ fetch'.outcome = "shown" /\ fetch'.noticed = fetch.noticed /\ fetch'.earlier = fetch.earlier
  BY <1>2 DEF Shaped, SameErrand
<1>4. Placed(fetch')
  BY <1>3 DEF Inv, Placed, Legs, PlanOf, SameErrand
<1>5. Leaving(fetch', cancelled') /\ Heeding
  BY <1>1, <1>3 DEF Leaving, Heeding, SameErrand
<1> QED BY <1>3, <1>4, <1>5 DEF Inv

\* The caller's cancellation changes nothing the fetch has read.
LEMMA CancelStep == Inv /\ CancelFetch => Inv' /\ Heeding
<1> SUFFICES ASSUME Inv, CancelFetch PROVE Inv' /\ Heeding
  OBVIOUS
<1>1. fetch' = fetch /\ cancelled' /\ fetch.outcome = "running"
  BY DEF CancelFetch, Running
<1> QED BY <1>1 DEF Inv, Leaving, Heeding

\* What every step keeps, and what it may do to a cancelled fetch.
LEMMA FetchStep == Inv /\ [FetchNext]_fetchVars => Inv' /\ [Heeding]_fetchVars
<1>1. Inv /\ FetchNext => Inv' /\ Heeding
  BY AnswerStep, DecideStep, AgainStep, GiveUpStep, PublishStep, CancelStep DEF FetchNext, Walk
<1>2. Inv /\ UNCHANGED fetchVars => Inv'
  BY DEF Inv, fetchVars
<1> QED BY <1>1, <1>2

\* The providers' code hands GIO's cancellation up through every fallback and
\* every optional request: once a fetch has been told of it, it learns nothing
\* more and shows nothing, for every table of plans that obeys the discipline.
THEOREM CancellationIsHeeded == FetchSteps => CancellationHeeded
<1>1. [FetchNext]_fetchVars /\ Inv /\ Inv' => [Heeding]_fetchVars
  BY FetchStep
<1>2. FetchSteps => []Inv
  BY BegunPlaced, FetchStep, PTL DEF FetchSteps
<1>3. FetchSteps => [][Heeding]_fetchVars
  BY <1>1, <1>2, PTL DEF FetchSteps
<1> QED BY <1>3 DEF CancellationHeeded, Heeding

\* A fetch never leaves its errand's plan: it is always in a leg of the mode
\* that was asked for, at one of the plan's steps until it ends.
THEOREM FetchKeepsToItsPlan == FetchSteps => []Placed(fetch)
<1>1. Inv => Placed(fetch)
  BY DEF Inv
<1> QED BY <1>1, BegunPlaced, FetchStep, PTL DEF FetchSteps

-----------------------------------------------------------------------------
(* What a plan's moves are worth: every step of a fetch is one of them, the *)
(* end of a leg or the snapshot.                                           *)

Move(at, reply, label) == [from |-> at, reply |-> reply, to |-> label]
Took(f, reply, g) == Move(f.at, reply, g.at) \in Moves(PlanOf(f))

\* The leg has failed: nothing is left of it.
Dropped(f, g) ==
  /\ g.facts = {} /\ g.outcome # "shown"
  /\ g.outcome = "running" => g.at \in StartsOf(PlanOf(f), f.mode) /\ g.owners = NoOwners

\* A choice or a round.
Went(f, g) ==
  /\ StepOf(f).does \in {"choose", "repeat"} /\ Took(f, "none", g)
  /\ g.outcome = "running" /\ g.facts = f.facts /\ g.owners = f.owners

\* An answer that does not end the leg.
Asked(f, reply, g) ==
  LET ask == StepOf(f).ask
      good == ask.sees[reply] = "ok"
  IN /\ StepOf(f).does = "ask" /\ reply \in DOMAIN ask.sees /\ Took(f, reply, g)
     /\ ask.kind = "credential" /\ Replaced(f, ask) => reply # "missing"
     /\ g.outcome = "running"
     /\ good /\ ask.kind = "usage" =>
          g.facts = f.facts \cup {Fact(ask.source, f.owners[ask.source])}
     /\ ~(good /\ ask.kind = "usage") => g.facts = f.facts
     /\ good /\ ask.kind = "credential" =>
          g.owners = [f.owners EXCEPT ![ask.source] = Owner(f, ask, reply)]
     /\ ~(good /\ ask.kind = "credential") => g.owners = f.owners

\* The snapshot.
Showed(f, g) ==
  /\ StepOf(f).does = "show" /\ g.outcome = "shown" /\ g.shownAs = StepOf(f).source
  /\ g.facts = f.facts /\ g.owners = f.owners

\* An answer's next label, unless it ends the leg, is a move of the plan.
LEMMA AnswerMoves ==
  ASSUME NEW plan, NEW at \in DOMAIN plan.steps, plan.steps[at].does = "ask",
         NEW reply \in DOMAIN plan.steps[at].ask.sees, NEW label,
         label = plan.steps[at].next[plan.steps[at].ask.sees[reply]], label # Fail
  PROVE  Move(at, reply, label) \in Moves(plan)
BY SMTT(30) DEF Moves, Move

\* So is where a choice leads,
LEMMA ChoiceMoves ==
  ASSUME NEW plan, NEW at \in DOMAIN plan.steps, plan.steps[at].does = "choose",
         NEW label \in plan.steps[at].to, label # Fail
  PROVE  Move(at, "none", label) \in Moves(plan)
BY DEF Moves, Move

\* and where a loop does.
LEMMA LoopMoves ==
  ASSUME NEW plan, NEW at \in DOMAIN plan.steps, plan.steps[at].does = "repeat",
         NEW label \in {plan.steps[at].again, plan.steps[at].next}, label # Fail
  PROVE  Move(at, "none", label) \in Moves(plan)
BY DEF Moves, Move

\* An answer ends the leg or is one of the plan's moves.
LEMMA AnswerWalk ==
  Inv /\ Answer => /\ SameErrand(fetch, fetch')
                   /\ \/ Dropped(fetch, fetch')
                      \/ \E reply \in DOMAIN StepOf(fetch).ask.sees : Asked(fetch, reply, fetch')
<1> SUFFICES ASSUME Inv, Answer
             PROVE  /\ SameErrand(fetch, fetch')
                    /\ \/ Dropped(fetch, fetch')
                       \/ \E reply \in DOMAIN StepOf(fetch).ask.sees : Asked(fetch, reply, fetch')
  OBVIOUS
<1> DEFINE step == StepOf(fetch)
           ask == step.ask
           plan == Plans[fetch.provider]
<1>1. Shaped(fetch) /\ Placed(fetch) /\ fetch.outcome = "running" /\ step.does = "ask"
  BY DEF Inv, Answer, Running
<1>2. PICK reply \in DOMAIN ask.sees :
        /\ Possible(fetch, ask, reply)
        /\ fetch' = Goto([IF ask.sees[reply] = "ok" THEN Learned(fetch, ask, reply) ELSE fetch
                            EXCEPT !.noticed = @ \/ ask.sees[reply] = "cancelled"],
                         step.next[ask.sees[reply]], ask.sees[reply])
  BY DEF Answer
<1> DEFINE verdict == ask.sees[reply]
           label == step.next[verdict]
           h == IF verdict = "ok" THEN Learned(fetch, ask, reply) ELSE fetch
           noticed == h.noticed \/ verdict = "cancelled"
           n == [h EXCEPT !.noticed = noticed]
<1>3. fetch' = Goto(n, label, verdict)
  BY <1>2
<1>4. /\ Shaped(h) /\ SameErrand(fetch, h)
      /\ h.leg = fetch.leg /\ h.outcome = fetch.outcome /\ h.earlier = fetch.earlier
      /\ h.at = fetch.at
      /\ (ask.kind # "usage" \/ verdict # "ok") => h.facts = fetch.facts
      /\ (ask.kind # "credential" \/ verdict # "ok") => h.owners = fetch.owners
  <2>1. CASE verdict = "ok"
    <3>1. h = Learned(fetch, ask, reply)
      BY <2>1
    <3> HIDE DEF h, ask, verdict
    <3> QED BY <1>1, <2>1, <3>1, LearnedFacts
  <2>2. CASE verdict # "ok"
    BY <1>1, <2>2 DEF SameErrand
  <2> QED BY <2>1, <2>2
<1>5. ASSUME verdict = "ok", ask.kind = "usage"
      PROVE  h.facts = fetch.facts \cup {Fact(ask.source, fetch.owners[ask.source])}
  <2>1. h = Learned(fetch, ask, reply)
    BY <1>5
  <2> HIDE DEF h, ask, verdict
  <2> QED BY <1>1, <1>5, <2>1, FactLearned
<1>6. ASSUME verdict = "ok", ask.kind = "credential"
      PROVE  h.owners = [fetch.owners EXCEPT ![ask.source] = Owner(fetch, ask, reply)]
  <2>1. h = Learned(fetch, ask, reply)
    BY <1>6
  <2> HIDE DEF h, ask, verdict
  <2> QED BY <1>1, <1>6, <2>1, OwnerLearned
<1> HIDE DEF h, noticed, verdict
<1>7. /\ Shaped(n) /\ SameErrand(fetch, n) /\ n.outcome = "running" /\ n.leg = fetch.leg
      /\ n.earlier = fetch.earlier /\ n.facts = h.facts /\ n.owners = h.owners /\ n.at = fetch.at
  BY <1>1, <1>4 DEF Shaped, SameErrand
<1> HIDE DEF n
<1>8. Placed(n)
  BY <1>1, <1>7 DEF Placed, Legs, PlanOf, SameErrand
<1>9. verdict \in Verdicts /\ label \in DOMAIN plan.steps \cup {Fail}
  BY <1>1, PlansWellMade DEF WellMade, Placed, StepOf, PlanOf, verdict
<1>10. CASE label = Fail
  <2>1. fetch' = Failed(n, verdict)
    BY <1>3, <1>10 DEF Goto
  <2>2. /\ SameErrand(n, fetch') /\ fetch'.facts = {} /\ fetch'.outcome # "shown"
        /\ fetch'.outcome = "running" =>
             /\ fetch'.leg \in DOMAIN Legs(n) /\ fetch'.at = Legs(n)[fetch'.leg].at
             /\ fetch'.owners = NoOwners
    BY <1>7, <1>8, <1>9, <2>1, FailedFacts
  <2>3. Legs(n) = plan.legs[fetch.mode]
    BY <1>7 DEF Legs, PlanOf, SameErrand
  <2>4. Dropped(fetch, fetch')
    BY <2>2, <2>3 DEF Dropped, StartsOf, PlanOf
  <2> QED BY <1>7, <2>2, <2>4 DEF SameErrand
<1>11. CASE label # Fail
  <2>1. fetch' = [n EXCEPT !.at = label]
    BY <1>3, <1>11 DEF Goto
  <2>2. /\ SameErrand(fetch, fetch') /\ fetch'.at = label /\ fetch'.outcome = "running"
        /\ fetch'.facts = h.facts /\ fetch'.owners = h.owners
    <3> HIDE DEF label
    <3> QED BY <1>7, <2>1 DEF Shaped, SameErrand
  <2>3. step = plan.steps[fetch.at] /\ fetch.at \in DOMAIN plan.steps
    BY <1>1 DEF Placed, StepOf, PlanOf
  <2>4. Move(fetch.at, reply, label) \in Moves(plan)
    BY <1>1, <1>2, <1>11, <2>3, AnswerMoves DEF verdict
  <2>5. Took(fetch, reply, fetch')
    BY <2>2, <2>4 DEF Took, PlanOf
  <2>6. ask.kind = "credential" /\ Replaced(fetch, ask) => reply # "missing"
    BY <1>2 DEF Possible
  <2>7. Asked(fetch, reply, fetch')
    <3>1. /\ verdict = "ok" /\ ask.kind = "usage" =>
               h.facts = fetch.facts \cup {Fact(ask.source, fetch.owners[ask.source])}
          /\ ~(verdict = "ok" /\ ask.kind = "usage") => h.facts = fetch.facts
      BY <1>4, <1>5
    <3>2. /\ verdict = "ok" /\ ask.kind = "credential" =>
               h.owners = [fetch.owners EXCEPT ![ask.source] = Owner(fetch, ask, reply)]
          /\ ~(verdict = "ok" /\ ask.kind = "credential") => h.owners = fetch.owners
      BY <1>4, <1>6
    <3> QED BY <1>1, <1>2, <2>2, <2>5, <2>6, <3>1, <3>2 DEF Asked, verdict
  <2> QED BY <1>2, <2>2, <2>7
<1> QED BY <1>10, <1>11

\* So does every step: what the code chooses, repeats, gives up and shows.
Walks ==
  \/ Dropped(fetch, fetch')
  \/ Went(fetch, fetch')
  \/ StepOf(fetch).does = "ask"
     /\ \E reply \in DOMAIN StepOf(fetch).ask.sees : Asked(fetch, reply, fetch')
  \/ Showed(fetch, fetch')
  \/ fetch' = fetch

\* Every step of a fetch is one of its plan's.
LEMMA StepsWalk ==
  Inv /\ FetchNext => Running(fetch) /\ SameErrand(fetch, fetch') /\ Walks
<1> SUFFICES ASSUME Inv, FetchNext
             PROVE  Running(fetch) /\ SameErrand(fetch, fetch') /\ Walks
  OBVIOUS
<1> DEFINE plan == Plans[fetch.provider]
<1>1. /\ Shaped(fetch) /\ Placed(fetch) /\ fetch.at \in DOMAIN plan.steps /\ WellMade(plan)
      /\ StepOf(fetch) = plan.steps[fetch.at]
      /\ Running(fetch)
  <2>1. Running(fetch)
    BY DEF FetchNext, Walk, Answer, Decide, Again, GiveUp, Publish, CancelFetch
  <2> QED BY <2>1, PlansWellMade DEF Inv, Placed, Running, PlanOf, StepOf
<1>2. CASE Answer
  BY <1>1, <1>2, AnswerWalk DEF Walks, Answer
<1>3. CASE Decide
  <2>1. PICK label \in StepOf(fetch).to : fetch' = [fetch EXCEPT !.at = label]
    BY <1>3 DEF Decide
  <2>2. /\ SameErrand(fetch, fetch') /\ fetch'.at = label /\ fetch'.outcome = fetch.outcome
        /\ fetch'.facts = fetch.facts /\ fetch'.owners = fetch.owners
    BY <1>1, <2>1 DEF Shaped, SameErrand
  <2>3. label # Fail /\ StepOf(fetch).does = "choose"
    BY <1>1, <1>3, <2>1 DEF WellMade, Decide
  <2>4. Move(fetch.at, "none", label) \in Moves(plan)
    BY <1>1, <2>1, <2>3, ChoiceMoves
  <2>5. Went(fetch, fetch')
    BY <1>1, <2>2, <2>3, <2>4 DEF Went, Took, PlanOf, Running
  <2> QED BY <1>1, <2>2, <2>5 DEF Walks
<1>4. CASE Again
  <2> DEFINE step == StepOf(fetch)
  <2>1. PICK label \in {step.again, step.next}, round \in {fetch.round + 1, 0} :
          fetch' = [fetch EXCEPT !.at = label, !.round = round]
    BY <1>4 DEF Again
  <2>2. /\ SameErrand(fetch, fetch') /\ fetch'.at = label /\ fetch'.outcome = fetch.outcome
        /\ fetch'.facts = fetch.facts /\ fetch'.owners = fetch.owners
    <3> HIDE DEF step
    <3> QED BY <1>1, <2>1 DEF Shaped, SameErrand
  <2>3. label # Fail /\ StepOf(fetch).does = "repeat"
    <3>1. StepOf(fetch).does = "repeat"
      BY <1>4 DEF Again
    <3>2. {step.again, step.next} \subseteq DOMAIN plan.steps /\ Fail \notin DOMAIN plan.steps
      BY <1>1, <3>1 DEF WellMade
    <3> HIDE DEF step
    <3> QED BY <2>1, <3>1, <3>2
  <2>4. Move(fetch.at, "none", label) \in Moves(plan)
    BY <1>1, <2>1, <2>3, LoopMoves
  <2>5. Went(fetch, fetch')
    BY <1>1, <2>2, <2>3, <2>4 DEF Went, Took, PlanOf, Running
  <2> QED BY <1>1, <2>2, <2>5 DEF Walks
<1>5. CASE GiveUp
  <2> DEFINE verdict == IF StepOf(fetch).verdict = "earlier" THEN fetch.earlier
                        ELSE StepOf(fetch).verdict
  <2>1. fetch' = Failed(fetch, verdict)
    BY <1>5 DEF GiveUp
  <2>2. verdict \in Verdicts
    BY <1>1, <1>5 DEF WellMade, GiveUp, Failures, Placed
  <2> HIDE DEF verdict
  <2>3. /\ SameErrand(fetch, fetch') /\ fetch'.facts = {} /\ fetch'.outcome # "shown"
        /\ fetch'.outcome = "running" =>
             /\ fetch'.leg \in DOMAIN Legs(fetch) /\ fetch'.at = Legs(fetch)[fetch'.leg].at
             /\ fetch'.owners = NoOwners
    BY <1>1, <2>1, <2>2, FailedFacts DEF Running
  <2>4. Dropped(fetch, fetch')
    BY <2>3 DEF Dropped, StartsOf, PlanOf, Legs
  <2> QED BY <1>1, <2>3, <2>4 DEF Walks
<1>6. CASE Publish
  <2> DEFINE source == StepOf(fetch).source
  <2>1. fetch' = [fetch EXCEPT !.outcome = "shown", !.shownAs = source]
        /\ StepOf(fetch).does = "show"
    BY <1>6 DEF Publish
  <2> HIDE DEF source
  <2>2. /\ SameErrand(fetch, fetch') /\ fetch'.outcome = "shown" /\ fetch'.shownAs = source
        /\ fetch'.facts = fetch.facts /\ fetch'.owners = fetch.owners
    BY <1>1, <2>1 DEF Shaped, SameErrand
  <2>3. Showed(fetch, fetch')
    BY <2>1, <2>2 DEF Showed, source
  <2> QED BY <1>1, <2>2, <2>3 DEF Walks
<1>7. CASE CancelFetch
  BY <1>1, <1>7 DEF CancelFetch, Walks, SameErrand
<1> QED BY <1>2, <1>3, <1>4, <1>5, <1>6, <1>7 DEF FetchNext, Walk

-----------------------------------------------------------------------------
(* What holds in every fetch of plans of these disciplines.                *)

\* Whoever asks for one source never leaves its route.
OnRoute ==
  fetch.provider \notin Lax /\ fetch.mode # "auto" =>
    /\ Running(fetch) => fetch.at \in Route(PlanOf(fetch), fetch.mode)
    /\ \A fact \in fetch.facts : fact.source = fetch.mode

Named(f, name) == \E fact \in f.facts : name \in Names(fact.source)

\* As long as nothing has been told under a name, the fetch is where that name
\* is not shown.
NotBefore ==
  /\ SourceIsTruthful
  /\ \A at \in DOMAIN PlanOf(fetch).steps :
       LET step == PlanOf(fetch).steps[at]
       IN Running(fetch) /\ step.does = "show" =>
            Named(fetch, step.source) \/ fetch.at \in Unheard(PlanOf(fetch), step.source)

\* A source that the plan asks for usage.
Serves(plan, source) == \E at \in DOMAIN plan.steps : Asks(plan, at, "usage") /\ SourceAt(plan, at) = source

\* What is known came from one source, with the credential that it still has.
Alone ==
  /\ Running(fetch) => fetch.owners \in [Sources -> {"account", "machine"}]
  /\ \A fact \in fetch.facts :
       /\ Serves(PlanOf(fetch), fact.source) /\ fact.source \in Sources
       /\ fact.owner = fetch.owners[fact.source]
       /\ Running(fetch) => fetch.at \in Heard(PlanOf(fetch), fact.source)
  /\ \A one, other \in fetch.facts : one.source = other.source

\* Until a source has the account's credential, the fetch is where that source
\* is not asked.
Faithful ==
  fetch.selected /\ fetch.provider \notin Borrowers =>
    /\ PlanOf(fetch).token # "none"
    /\ \A fact \in fetch.facts : fact.owner = "account"
    /\ Running(fetch) =>
         \A source \in Sources : Serves(PlanOf(fetch), source) =>
           /\ fetch.at \in Visited(PlanOf(fetch))
           /\ fetch.owners[source] # "account" => fetch.at \in Foreign(PlanOf(fetch), source)

\* A new fetch is at the start of a leg, with nothing learned.
LEMMA BegunFresh ==
  FetchInit =>
    /\ fetch.provider \in DOMAIN Plans /\ fetch.mode \in DOMAIN PlanOf(fetch).legs
    /\ fetch.at \in StartsOf(PlanOf(fetch), fetch.mode)
    /\ fetch.facts = {} /\ fetch.owners = NoOwners /\ fetch.outcome = "running"
    /\ fetch.selected => PlanOf(fetch).token # "none"
<1> SUFFICES ASSUME FetchInit
             PROVE  /\ fetch.provider \in DOMAIN Plans /\ fetch.mode \in DOMAIN PlanOf(fetch).legs
                    /\ fetch.at \in StartsOf(PlanOf(fetch), fetch.mode)
                    /\ fetch.facts = {} /\ fetch.owners = NoOwners /\ fetch.outcome = "running"
                    /\ fetch.selected => PlanOf(fetch).token # "none"
  OBVIOUS
<1>1. PICK provider \in DOMAIN Plans : \E mode \in DOMAIN Plans[provider].legs,
        selected \in {FALSE} \cup {Plans[provider].token # "none"} :
          fetch = Begun(provider, mode, selected)
  BY DEF FetchInit
<1>2. PICK mode \in DOMAIN Plans[provider].legs, selected \in {FALSE} \cup {Plans[provider].token # "none"} :
        fetch = Begun(provider, mode, selected)
  BY <1>1
<1> DEFINE blank == [provider |-> provider, mode |-> mode, selected |-> selected, leg |-> 1,
                     at |-> Fail, round |-> 0, owners |-> NoOwners, facts |-> {},
                     outcome |-> "running", earlier |-> "absent", shownAs |-> "none", noticed |-> FALSE]
<1>3. fetch = StartLeg(blank, 1)
  BY <1>2 DEF Begun
<1>4. /\ Shaped(blank) /\ blank.outcome = "running"
      /\ blank.provider = provider /\ blank.mode = mode /\ blank.selected = selected
  BY DEF Shaped
<1> HIDE DEF blank
<1>5. /\ SameErrand(blank, fetch) /\ fetch.leg = 1 /\ fetch.at = Legs(blank)[1].at
      /\ fetch.facts = {} /\ fetch.owners = NoOwners /\ fetch.outcome = "running"
  BY <1>3, <1>4, StartLegFacts
<1>6. fetch.provider = provider /\ fetch.mode = mode /\ fetch.selected = selected
  BY <1>4, <1>5 DEF SameErrand
<1>7. fetch.at = PlanOf(fetch).legs[fetch.mode][1].at
  BY <1>4, <1>5, <1>6 DEF Legs, PlanOf
<1>8. 1 \in DOMAIN PlanOf(fetch).legs[fetch.mode]
  BY <1>5, BegunPlaced DEF Inv, Placed, Legs
<1> QED BY <1>2, <1>5, <1>6, <1>7, <1>8 DEF StartsOf, PlanOf

\* Where the legs of a mode start, legs start.
LEMMA StartsAll ==
  ASSUME NEW plan, NEW mode \in DOMAIN plan.legs
  PROVE  StartsOf(plan, mode) \subseteq Starts(plan)
BY DEF Starts

\* A route that covers its starts is never left.
LEMMA StaysOnRoute == Inv /\ OnRoute /\ FetchNext => OnRoute'
<1> SUFFICES ASSUME Inv, OnRoute, FetchNext, fetch'.provider \notin Lax, fetch'.mode # "auto"
             PROVE  /\ Running(fetch') => fetch'.at \in Route(PlanOf(fetch'), fetch'.mode)
                    /\ \A fact \in fetch'.facts : fact.source = fetch'.mode
  BY DEF OnRoute
<1> DEFINE plan == Plans[fetch.provider]
           mode == fetch.mode
           route == Route(plan, mode)
<1>1. Running(fetch) /\ SameErrand(fetch, fetch') /\ Walks
  BY StepsWalk
<1>2. /\ fetch.provider \notin Lax /\ mode # "auto" /\ fetch'.mode = mode
      /\ PlanOf(fetch) = plan /\ PlanOf(fetch') = plan
      /\ fetch.provider \in DOMAIN Plans /\ mode \in DOMAIN plan.legs
  BY <1>1 DEF SameErrand, PlanOf, Inv, Placed
<1>3. Covers(route, StartsOf(plan, mode), Moves(plan))
      /\ \A at \in route : Asks(plan, at, "usage") => SourceAt(plan, at) = mode
  BY <1>2, PlansStrict DEF Strict
<1>4. fetch.at \in route /\ \A fact \in fetch.facts : fact.source = mode
  BY <1>1, <1>2 DEF OnRoute
<1> HIDE DEF plan, mode, route
<1>5. ASSUME NEW reply, Took(fetch, reply, fetch') PROVE fetch'.at \in route
  BY <1>2, <1>3, <1>4, <1>5 DEF Took, Move, Covers
<1>6. CASE Dropped(fetch, fetch')
  BY <1>2, <1>3, <1>6 DEF Dropped, Running, Covers, route, mode
<1>7. CASE Went(fetch, fetch')
  BY <1>2, <1>4, <1>5, <1>7 DEF Went, route
<1>8. ASSUME NEW reply \in DOMAIN StepOf(fetch).ask.sees, Asked(fetch, reply, fetch')
      PROVE  fetch'.at \in route /\ \A fact \in fetch'.facts : fact.source = mode
  <2> DEFINE ask == StepOf(fetch).ask
  <2>1. fetch'.at \in route
    BY <1>5, <1>8 DEF Asked
  <2>2. CASE ask.sees[reply] = "ok" /\ ask.kind = "usage"
    <3>1. ask.source = mode
      BY <1>2, <1>3, <1>4, <1>8, <2>2 DEF Asked, Asks, SourceAt, StepOf
    <3>2. fetch'.facts = fetch.facts \cup {Fact(ask.source, fetch.owners[ask.source])}
      BY <1>8, <2>2 DEF Asked
    <3> QED BY <1>4, <2>1, <3>1, <3>2 DEF Fact
  <2>3. CASE ~(ask.sees[reply] = "ok" /\ ask.kind = "usage")
    BY <1>4, <1>8, <2>1, <2>3 DEF Asked
  <2> QED BY <2>2, <2>3
<1>9. CASE Showed(fetch, fetch')
  BY <1>2, <1>4, <1>9 DEF Showed, Running
<1>10. CASE fetch' = fetch
  BY <1>2, <1>4, <1>10 DEF route
<1> QED BY <1>1, <1>2, <1>6, <1>7, <1>8, <1>9, <1>10 DEF Walks, route

\* "Explicit api, web, cli, or oauth sources are strict": of every provider
\* whose plan keeps each mode on its route, whatever fails, no part of what is
\* shown comes from a source of another mode.
THEOREM ExplicitStaysStrict == FetchSteps => []ExplicitIsStrict
<1>1. FetchInit => OnRoute
  <2> SUFFICES ASSUME FetchInit, fetch.provider \notin Lax, fetch.mode # "auto" PROVE
        fetch.at \in Route(PlanOf(fetch), fetch.mode) /\ fetch.facts = {}
    BY DEF OnRoute
  <2>1. /\ fetch.provider \in DOMAIN Plans /\ fetch.mode \in DOMAIN PlanOf(fetch).legs
        /\ fetch.at \in StartsOf(PlanOf(fetch), fetch.mode) /\ fetch.facts = {}
    BY BegunFresh
  <2>2. Covers(Route(PlanOf(fetch), fetch.mode), StartsOf(PlanOf(fetch), fetch.mode), Moves(PlanOf(fetch)))
    BY <2>1, PlansStrict DEF Strict, PlanOf
  <2> QED BY <2>1, <2>2 DEF Covers
<1>2. Inv /\ OnRoute /\ [FetchNext]_fetchVars => OnRoute'
  <2>1. OnRoute /\ UNCHANGED fetchVars => OnRoute'
    BY DEF OnRoute, fetchVars
  <2> QED BY <2>1, StaysOnRoute
<1>3. OnRoute => ExplicitIsStrict
  BY DEF OnRoute, ExplicitIsStrict
<1> QED BY <1>1, <1>2, <1>3, BegunPlaced, FetchStep, PTL DEF FetchSteps

\* An answer that is not shown under a name leads on where that name is not
\* shown; any other answer is told under it.
LEMMA StaysBefore == Inv /\ NotBefore /\ FetchNext => NotBefore'
<1> SUFFICES ASSUME Inv, NotBefore, FetchNext PROVE NotBefore'
  OBVIOUS
<1> DEFINE plan == Plans[fetch.provider]
<1>1. Running(fetch) /\ SameErrand(fetch, fetch') /\ Walks
  BY StepsWalk
<1>2. /\ PlanOf(fetch) = plan /\ PlanOf(fetch') = plan /\ fetch.provider \in DOMAIN Plans
      /\ fetch.mode \in DOMAIN plan.legs /\ fetch.at \in DOMAIN plan.steps
      /\ StepOf(fetch) = plan.steps[fetch.at]
  BY <1>1 DEF SameErrand, PlanOf, StepOf, Inv, Placed, Running
<1>3. ASSUME NEW at \in DOMAIN plan.steps, plan.steps[at].does = "show", Running(fetch')
      PROVE  Named(fetch', plan.steps[at].source)
             \/ fetch'.at \in Unheard(plan, plan.steps[at].source)
  <2> DEFINE name == plan.steps[at].source
             unheard == Unheard(plan, name)
  <2>1. Named(fetch, name) \/ fetch.at \in unheard
    BY <1>1, <1>2, <1>3 DEF NotBefore
  <2>2. Covers(unheard, Starts(plan), Silent(plan, name))
    BY <1>2, <1>3, PlansTruthful DEF Truthful
  <2> HIDE DEF unheard, name, plan
  <2>3. ASSUME NEW m \in Silent(plan, name), m.from \in unheard PROVE m.to \in unheard
    BY <2>2, <2>3 DEF Covers
  <2>4. ASSUME NEW reply, Took(fetch, reply, fetch'), fetch.at \in unheard,
               Asks(plan, fetch.at, "usage") /\ plan.steps[fetch.at].ask.sees[reply] = "ok"
                 => name \notin Names(SourceAt(plan, fetch.at))
        PROVE  fetch'.at \in unheard
    <3>1. Move(fetch.at, reply, fetch'.at) \in Silent(plan, name)
      BY <1>2, <2>4 DEF Took, Silent, Move, Brings
    <3> QED BY <2>3, <2>4, <3>1 DEF Move
  <2>5. CASE Dropped(fetch, fetch')
    <3>1. fetch'.at \in StartsOf(plan, fetch.mode)
      BY <1>2, <1>3, <2>5 DEF Dropped, Running
    <3>2. fetch'.at \in unheard
      BY <1>2, <2>2, <3>1, StartsAll DEF Covers
    <3> QED BY <3>2 DEF unheard, name
  <2>6. CASE Went(fetch, fetch')
    <3>1. Took(fetch, "none", fetch') /\ ~Asks(plan, fetch.at, "usage") /\ fetch'.facts = fetch.facts
      BY <1>2, <2>6 DEF Went, Asks
    <3>2. Named(fetch', name) \/ fetch'.at \in unheard
      BY <2>1, <2>4, <3>1 DEF Named
    <3> QED BY <3>2 DEF unheard, name
  <2>7. ASSUME NEW reply \in DOMAIN StepOf(fetch).ask.sees, Asked(fetch, reply, fetch')
        PROVE  Named(fetch', name) \/ fetch'.at \in unheard
    <3> DEFINE ask == StepOf(fetch).ask
    <3>1. fetch.facts \subseteq fetch'.facts
      BY <2>7 DEF Asked
    <3>2. CASE ask.sees[reply] = "ok" /\ ask.kind = "usage" /\ name \in Names(ask.source)
      <4>1. Fact(ask.source, fetch.owners[ask.source]) \in fetch'.facts
        BY <2>7, <3>2 DEF Asked
      <4> QED BY <3>2, <4>1 DEF Named, Fact
    <3>3. CASE ~(ask.sees[reply] = "ok" /\ ask.kind = "usage" /\ name \in Names(ask.source))
      <4>1. Took(fetch, reply, fetch')
            /\ (Asks(plan, fetch.at, "usage") /\ plan.steps[fetch.at].ask.sees[reply] = "ok"
                  => name \notin Names(SourceAt(plan, fetch.at)))
        BY <1>2, <2>7, <3>3 DEF Asked, Asks, SourceAt
      <4> QED BY <2>1, <2>4, <3>1, <4>1 DEF Named
    <3> QED BY <3>2, <3>3
  <2>8. ~Showed(fetch, fetch')
    BY <1>3 DEF Showed, Running
  <2>9. CASE fetch' = fetch
    BY <2>1, <2>9 DEF unheard, name
  <2> QED BY <1>1, <2>5, <2>6, <2>7, <2>8, <2>9 DEF Walks, unheard, name
<1>4. SourceIsTruthful'
  <2>1. CASE Showed(fetch, fetch')
    <3> DEFINE name == plan.steps[fetch.at].source
               unheard == Unheard(plan, name)
    <3>1. plan.steps[fetch.at].does = "show" /\ fetch'.shownAs = name /\ fetch'.facts = fetch.facts
      BY <1>2, <2>1 DEF Showed
    <3>2. Named(fetch, name) \/ fetch.at \in unheard
      BY <1>1, <1>2, <3>1 DEF NotBefore
    <3>3. \A at \in unheard : plan.steps[at].does = "show" => plan.steps[at].source # name
      BY <1>2, <3>1, PlansTruthful DEF Truthful
    <3> QED BY <3>1, <3>2, <3>3 DEF SourceIsTruthful, Named
  <2>2. CASE fetch'.outcome # "shown"
    BY <2>2 DEF SourceIsTruthful
  <2>3. Showed(fetch, fetch') \/ fetch'.outcome # "shown"
    BY <1>1 DEF Walks, Dropped, Went, Asked, Running
  <2> QED BY <2>1, <2>2, <2>3
<1> QED BY <1>2, <1>3, <1>4 DEF NotBefore

\* The name of the source in a snapshot: of every provider whose plan shows no
\* name before its source has answered, what is shown was told by the source
\* that it names, in the very leg that is shown.
THEOREM ShownAsWhatAnswered == FetchSteps => []SourceIsTruthful
<1>1. FetchInit => NotBefore
  <2> SUFFICES ASSUME FetchInit PROVE NotBefore
    OBVIOUS
  <2> DEFINE plan == PlanOf(fetch)
  <2>1. /\ fetch.provider \in DOMAIN Plans /\ fetch.mode \in DOMAIN plan.legs
        /\ fetch.at \in StartsOf(plan, fetch.mode) /\ fetch.outcome = "running"
    BY BegunFresh
  <2>2. fetch.at \in Starts(plan)
    BY <2>1, StartsAll
  <2>3. ASSUME NEW at \in DOMAIN plan.steps, plan.steps[at].does = "show"
        PROVE  Covers(Unheard(plan, plan.steps[at].source), Starts(plan), Silent(plan, plan.steps[at].source))
    BY <2>1, <2>3, PlansTruthful DEF Truthful, PlanOf
  <2> QED BY <2>1, <2>2, <2>3 DEF NotBefore, SourceIsTruthful, Covers
<1>2. Inv /\ NotBefore /\ [FetchNext]_fetchVars => NotBefore'
  <2>1. NotBefore /\ UNCHANGED fetchVars => NotBefore'
    BY DEF NotBefore, SourceIsTruthful, Named, fetchVars
  <2> QED BY <2>1, StaysBefore
<1>3. NotBefore => SourceIsTruthful
  BY DEF NotBefore
<1> QED BY <1>1, <1>2, <1>3, BegunPlaced, FetchStep, PTL DEF FetchSteps

\* Once a source has answered, the fetch asks no other in this leg and looks up
\* no credential for it again.
LEMMA StaysAlone == Inv /\ Alone /\ FetchNext => Alone'
<1> SUFFICES ASSUME Inv, Alone, FetchNext PROVE Alone'
  OBVIOUS
<1> DEFINE plan == Plans[fetch.provider]
           owners == fetch.owners
<1>1. Running(fetch) /\ SameErrand(fetch, fetch') /\ Walks
  BY StepsWalk
<1>2. /\ PlanOf(fetch) = plan /\ PlanOf(fetch') = plan /\ fetch.provider \in DOMAIN Plans
      /\ fetch.at \in DOMAIN plan.steps /\ StepOf(fetch) = plan.steps[fetch.at]
  BY <1>1 DEF SameErrand, PlanOf, StepOf, Inv, Placed, Running
<1>3. /\ owners \in [Sources -> {"account", "machine"}]
      /\ \A fact \in fetch.facts :
           /\ Serves(plan, fact.source) /\ fact.source \in Sources
           /\ fact.owner = owners[fact.source] /\ fetch.at \in Heard(plan, fact.source)
      /\ \A one, other \in fetch.facts : one.source = other.source
  BY <1>1, <1>2 DEF Alone
<1>4. ASSUME NEW source, Serves(plan, source)
      PROVE  OneSource(plan, source, Heard(plan, source))
  BY <1>2, <1>4, PlansOneSource DEF Serves
<1>5. ASSUME NEW reply, Took(fetch, reply, fetch'), NEW fact \in fetch.facts
      PROVE  fetch'.at \in Heard(plan, fact.source)
  <2>1. Covers(Heard(plan, fact.source), Answers(plan, fact.source), Moves(plan))
    BY <1>3, <1>4, <1>5 DEF OneSource
  <2>2. fetch.at \in Heard(plan, fact.source)
    BY <1>3, <1>5
  <2> HIDE DEF plan
  <2> QED BY <1>2, <1>5, <2>1, <2>2 DEF Covers, Took, Move
<1>6. CASE Dropped(fetch, fetch')
  <2>1. NoOwners \in [Sources -> {"account", "machine"}]
    BY DEF NoOwners
  <2> QED BY <1>6, <2>1 DEF Dropped, Alone, Running
<1>7. CASE Went(fetch, fetch')
  <2> HIDE DEF plan, owners
  <2>1. fetch'.facts = fetch.facts /\ fetch'.owners = owners /\ Took(fetch, "none", fetch')
    BY <1>7 DEF Went, owners
  <2> QED BY <1>2, <1>3, <1>5, <2>1 DEF Alone
<1>8. ASSUME NEW reply \in DOMAIN StepOf(fetch).ask.sees, Asked(fetch, reply, fetch')
      PROVE  Alone'
  <2> DEFINE ask == StepOf(fetch).ask
             good == ask.sees[reply] = "ok"
             owner == Owner(fetch, ask, reply)
  <2>1. ask.source \in Sources
    <3>1. WellMade(plan) /\ StepOf(fetch).does = "ask"
      BY <1>2, <1>8, PlansWellMade DEF Asked
    <3> HIDE DEF plan
    <3> QED BY <1>2, <3>1 DEF WellMade
  <2>2. Took(fetch, reply, fetch') /\ StepOf(fetch).does = "ask"
    BY <1>8 DEF Asked
  <2>3. owner \in {"account", "machine"}
    BY DEF Owner
  <2>4. CASE good /\ ask.kind = "usage"
    <3> DEFINE new == Fact(ask.source, owners[ask.source])
    <3>1. fetch'.facts = fetch.facts \cup {new} /\ fetch'.owners = owners
      BY <1>8, <2>4 DEF Asked
    <3>2. new.source = ask.source /\ new.owner = owners[ask.source]
      BY DEF Fact
    <3>3. Asks(plan, fetch.at, "usage") /\ SourceAt(plan, fetch.at) = ask.source
      BY <1>2, <2>2, <2>4 DEF Asks, SourceAt
    <3>4. Serves(plan, ask.source)
      BY <1>2, <3>3 DEF Serves
    <3>5. ASSUME NEW fact \in fetch.facts PROVE fact.source = ask.source
      <4>1. fetch.at \in Heard(plan, fact.source) /\ Serves(plan, fact.source)
        BY <1>3, <3>5
      <4> QED BY <1>4, <3>3, <4>1 DEF OneSource
    <3>6. fetch'.at \in Heard(plan, ask.source)
      <4>1. Move(fetch.at, reply, fetch'.at) \in Moves(plan)
        BY <1>2, <2>2 DEF Took
      <4>2. Brings(plan, Move(fetch.at, reply, fetch'.at), "usage")
        BY <1>2, <2>4, <3>3 DEF Brings, Move
      <4>3. fetch'.at \in Answers(plan, ask.source)
        BY <3>3, <4>1, <4>2 DEF Answers, Move
      <4>4. Covers(Heard(plan, ask.source), Answers(plan, ask.source), Moves(plan))
        BY <1>4, <3>4 DEF OneSource
      <4> QED BY <4>3, <4>4 DEF Covers
    <3> HIDE DEF plan, owners, new, ask
    <3>7. \A fact \in fetch'.facts : fact.source = ask.source /\ fact.owner = owners[ask.source]
      BY <1>3, <3>1, <3>2, <3>5
    <3> QED BY <1>2, <1>3, <2>1, <3>1, <3>4, <3>6, <3>7 DEF Alone
  <2>5. CASE good /\ ask.kind = "credential"
    <3>1. fetch'.facts = fetch.facts /\ fetch'.owners = [owners EXCEPT ![ask.source] = owner]
      BY <1>8, <2>5 DEF Asked
    <3>2. fetch'.owners \in [Sources -> {"account", "machine"}]
      <4> HIDE DEF owner, owners, ask
      <4> QED BY <1>3, <2>3, <3>1
    <3>3. ASSUME NEW fact \in fetch.facts PROVE fetch'.owners[fact.source] = owners[fact.source]
      <4>1. fetch.at \in Heard(plan, fact.source) /\ Serves(plan, fact.source) /\ fact.source \in Sources
        BY <1>3, <3>3
      <4>2. Asks(plan, fetch.at, "credential") /\ SourceAt(plan, fetch.at) = ask.source
        BY <1>2, <2>2, <2>5 DEF Asks, SourceAt
      <4>3. ask.source # fact.source
        BY <1>4, <4>1, <4>2 DEF OneSource
      <4> HIDE DEF owner, owners, ask
      <4> QED BY <1>3, <3>1, <4>1, <4>3
    <3> HIDE DEF plan, owners, ask
    <3> QED BY <1>2, <1>3, <1>5, <2>2, <3>1, <3>2, <3>3 DEF Alone
  <2>6. CASE ~good \/ ask.kind \notin {"usage", "credential"}
    <3>1. fetch'.facts = fetch.facts /\ fetch'.owners = owners
      BY <1>8, <2>6 DEF Asked
    <3> HIDE DEF plan, owners
    <3> QED BY <1>2, <1>3, <1>5, <2>2, <3>1 DEF Alone
  <2> QED BY <2>4, <2>5, <2>6
<1>9. CASE Showed(fetch, fetch')
  <2> HIDE DEF plan, owners
  <2>1. fetch'.facts = fetch.facts /\ fetch'.owners = owners /\ ~Running(fetch')
    BY <1>9 DEF Showed, owners, Running
  <2> QED BY <1>2, <1>3, <2>1 DEF Alone
<1>10. CASE fetch' = fetch
  BY <1>10 DEF Alone
<1> QED BY <1>1, <1>6, <1>7, <1>8, <1>9, <1>10 DEF Walks

\* At first no source has answered.
LEMMA BegunAlone == FetchInit => Alone
<1> SUFFICES ASSUME FetchInit PROVE Alone
  OBVIOUS
<1>1. fetch.facts = {} /\ fetch.owners = NoOwners
  BY BegunFresh
<1>2. NoOwners \in [Sources -> {"account", "machine"}]
  BY DEF NoOwners
<1> QED BY <1>1, <1>2 DEF Alone

\* With the plan's other invariants it is kept by every step.
LEMMA AloneStep == Inv /\ Alone /\ [FetchNext]_fetchVars => Alone'
<1>1. Alone /\ UNCHANGED fetchVars => Alone'
  BY DEF Alone, fetchVars
<1> QED BY <1>1, StaysAlone

\* A snapshot has one owner: of every provider whose plan stays with the source
\* that answered and with its credential, what is shown is not pieced together
\* from the selected account and from whoever is logged in on this machine.
THEOREM SnapshotHasOneOwner == FetchSteps => []OneOwnerPerSnapshot
<1>1. FetchInit => Alone
  BY BegunAlone
<1>2. Inv /\ Alone /\ [FetchNext]_fetchVars => Alone'
  BY AloneStep
<1>3. Alone => OneOwnerPerSnapshot
  BY DEF Alone, OneOwnerPerSnapshot
<1> QED BY <1>1, <1>2, <1>3, BegunPlaced, FetchStep, PTL DEF FetchSteps

\* Of every move to where a source's credential is not the account's, either
\* the fetch was there already or the move has just found another's.
LEMMA StaysFaithful == Inv /\ Alone /\ Faithful /\ FetchNext => Faithful'
<1> SUFFICES ASSUME Inv, Alone, Faithful, FetchNext, fetch'.selected, fetch'.provider \notin Borrowers
             PROVE  /\ PlanOf(fetch').token # "none"
                    /\ \A fact \in fetch'.facts : fact.owner = "account"
                    /\ Running(fetch') =>
                         \A source \in Sources : Serves(PlanOf(fetch'), source) =>
                           /\ fetch'.at \in Visited(PlanOf(fetch'))
                           /\ fetch'.owners[source] # "account" =>
                                fetch'.at \in Foreign(PlanOf(fetch'), source)
  BY DEF Faithful
<1> DEFINE plan == Plans[fetch.provider]
           owners == fetch.owners
<1>1. Running(fetch) /\ SameErrand(fetch, fetch') /\ Walks
  BY StepsWalk
<1>2. /\ PlanOf(fetch) = plan /\ PlanOf(fetch') = plan /\ fetch.provider \in DOMAIN Plans
      /\ fetch.at \in DOMAIN plan.steps /\ StepOf(fetch) = plan.steps[fetch.at]
      /\ fetch.mode \in DOMAIN plan.legs
      /\ fetch.selected /\ fetch.provider \notin Borrowers
  BY <1>1 DEF SameErrand, PlanOf, StepOf, Inv, Placed, Running
<1>3. /\ plan.token # "none"
      /\ \A fact \in fetch.facts : fact.owner = "account"
      /\ owners \in [Sources -> {"account", "machine"}]
  BY <1>1, <1>2 DEF Faithful, Alone
<1>4. ASSUME NEW source \in Sources, Serves(plan, source)
      PROVE  /\ fetch.at \in Visited(plan)
             /\ owners[source] # "account" => fetch.at \in Foreign(plan, source)
             /\ Own(plan, source, Foreign(plan, source))
  <2>1. Own(plan, source, Foreign(plan, source))
    BY <1>2, <1>3, <1>4, PlansOwn DEF Serves
  <2> QED BY <1>1, <1>2, <1>4, <2>1 DEF Faithful
\* An account's own move, after which no more is foreign than was or than a
\* credential just found makes so.
<1>5. ASSUME NEW reply, Took(fetch, reply, fetch'),
             Selected(plan, Move(fetch.at, reply, fetch'.at)) => reply # "missing",
             NEW source \in Sources, Serves(plan, source),
             NEW own,
             Renews(plan, Move(fetch.at, reply, fetch'.at), source) =>
               (own # "account" =>
                  ~(Selected(plan, Move(fetch.at, reply, fetch'.at)) /\ reply = "found")),
             ~Renews(plan, Move(fetch.at, reply, fetch'.at), source) => own = owners[source]
      PROVE  /\ fetch'.at \in Visited(plan)
             /\ own # "account" => fetch'.at \in Foreign(plan, source)
  <2> DEFINE move == Move(fetch.at, reply, fetch'.at)
  <2>1. move.from = fetch.at /\ move.reply = reply /\ move.to = fetch'.at
    BY DEF Move
  <2>2. move \in OwnMoves(plan)
    BY <1>2, <1>5, <2>1 DEF OwnMoves, Took
  <2>3. fetch.at \in Visited(plan) /\ Own(plan, source, Foreign(plan, source))
        /\ (owners[source] # "account" => fetch.at \in Foreign(plan, source))
    BY <1>4, <1>5
  <2> HIDE DEF plan, move
  <2>4. fetch'.at \in Visited(plan)
    BY <2>1, <2>2, <2>3 DEF Own, Covers
  <2>5. ASSUME own # "account" PROVE fetch'.at \in Foreign(plan, source)
    <3>1. Covers(Foreign(plan, source), Starts(plan) \cup Borrows(plan, source), Keeping(plan, source))
      BY <2>3 DEF Own
    <3>2. CASE Renews(plan, move, source)
      <4>1. ~(Selected(plan, move) /\ move.reply = "found")
        BY <1>5, <2>1, <2>5, <3>2 DEF move
      <4>2. move.to \in Borrows(plan, source)
        BY <2>1, <2>2, <2>3, <3>2, <4>1 DEF Borrows
      <4> QED BY <2>1, <3>1, <4>2 DEF Covers
    <3>3. CASE ~Renews(plan, move, source)
      <4>1. move \in Keeping(plan, source) /\ fetch.at \in Foreign(plan, source)
        BY <1>5, <2>2, <2>3, <2>5, <3>3 DEF Keeping, move
      <4> QED BY <2>1, <3>1, <4>1 DEF Covers
    <3> QED BY <3>2, <3>3
  <2> QED BY <2>4, <2>5
<1>6. CASE Dropped(fetch, fetch')
  <2>1. ASSUME Running(fetch'), NEW source \in Sources, Serves(plan, source)
        PROVE  fetch'.at \in Visited(plan) /\ fetch'.at \in Foreign(plan, source)
    <3>1. fetch'.at \in Starts(plan)
      <4>1. fetch'.at \in StartsOf(plan, fetch.mode)
        BY <1>2, <1>6, <2>1 DEF Dropped, Running
      <4> QED BY <1>2, <4>1, StartsAll
    <3>2. Own(plan, source, Foreign(plan, source))
      BY <1>4, <2>1
    <3> HIDE DEF plan
    <3> QED BY <3>1, <3>2 DEF Own, Covers
  <2> QED BY <1>2, <1>3, <1>6, <2>1 DEF Dropped
<1>7. CASE Went(fetch, fetch')
  <2>1. /\ Took(fetch, "none", fetch') /\ fetch'.facts = fetch.facts /\ fetch'.owners = owners
        /\ ~Asks(plan, fetch.at, "credential")
    BY <1>2, <1>7 DEF Went, Asks
  <2> DEFINE move == Move(fetch.at, "none", fetch'.at)
  <2>2. ~Selected(plan, move) /\ \A source : ~Renews(plan, move, source)
    BY <2>1 DEF Selected, Renews, Brings, Move
  <2>3. ASSUME NEW source \in Sources, Serves(plan, source)
        PROVE  /\ fetch'.at \in Visited(plan)
               /\ owners[source] # "account" => fetch'.at \in Foreign(plan, source)
    <3> HIDE DEF plan, owners
    <3> QED BY <1>5, <2>1, <2>2, <2>3
  <2> QED BY <1>2, <1>3, <2>1, <2>3
<1>8. ASSUME NEW reply \in DOMAIN StepOf(fetch).ask.sees, Asked(fetch, reply, fetch')
      PROVE  /\ \A fact \in fetch'.facts : fact.owner = "account"
             /\ \A source \in Sources : Serves(plan, source) =>
                  /\ fetch'.at \in Visited(plan)
                  /\ fetch'.owners[source] # "account" => fetch'.at \in Foreign(plan, source)
  <2> DEFINE ask == StepOf(fetch).ask
             good == ask.sees[reply] = "ok"
             owner == Owner(fetch, ask, reply)
             move == Move(fetch.at, reply, fetch'.at)
  <2>1. /\ Took(fetch, reply, fetch') /\ StepOf(fetch).does = "ask"
        /\ ask.kind = "credential" /\ Replaced(fetch, ask) => reply # "missing"
    BY <1>8 DEF Asked
  <2>2. ask.source \in Sources
    <3>1. WellMade(plan)
      BY <1>2, PlansWellMade
    <3> HIDE DEF plan
    <3> QED BY <1>2, <2>1, <3>1 DEF WellMade
  <2>3. move.from = fetch.at /\ move.reply = reply
    BY DEF Move
  <2>4. Selected(plan, move) <=> ask.kind = "credential" /\ Replaced(fetch, ask)
    BY <1>2, <2>1, <2>3 DEF Selected, Asks, Replaced
  <2>5. \A source : Renews(plan, move, source) <=>
                      good /\ ask.kind = "credential" /\ ask.source = source
    BY <1>2, <2>1, <2>3 DEF Renews, Brings, Asks, SourceAt
  <2>6. owner = IF Replaced(fetch, ask) /\ reply = "found" THEN "account" ELSE "machine"
    BY DEF Owner
  <2>7. ASSUME NEW fact \in fetch'.facts PROVE fact.owner = "account"
    <3>1. CASE fact \in fetch.facts
      BY <1>3, <3>1
    <3>2. CASE fact \notin fetch.facts
      <4>1. good /\ ask.kind = "usage" /\ fact = Fact(ask.source, owners[ask.source])
        BY <1>8, <2>7, <3>2 DEF Asked
      <4>2. Asks(plan, fetch.at, "usage") /\ SourceAt(plan, fetch.at) = ask.source
        BY <1>2, <2>1, <4>1 DEF Asks, SourceAt
      <4>3. Serves(plan, ask.source)
        BY <1>2, <4>2 DEF Serves
      <4>4. owners[ask.source] = "account"
        <5>1. /\ fetch.at \in Visited(plan)
              /\ owners[ask.source] # "account" => fetch.at \in Foreign(plan, ask.source)
              /\ Own(plan, ask.source, Foreign(plan, ask.source))
          BY <1>4, <2>2, <4>3
        <5> HIDE DEF plan, owners
        <5> QED BY <4>2, <5>1 DEF Own
      <4> QED BY <4>1, <4>4 DEF Fact
    <3> QED BY <3>1, <3>2
  <2>8. ASSUME NEW source \in Sources, Serves(plan, source)
        PROVE  /\ fetch'.at \in Visited(plan)
               /\ fetch'.owners[source] # "account" => fetch'.at \in Foreign(plan, source)
    <3>1. CASE Renews(plan, move, source)
      <4>1. fetch'.owners = [owners EXCEPT ![source] = owner]
        BY <1>8, <2>5, <3>1 DEF Asked
      <4>2. fetch'.owners[source] = owner
        <5> HIDE DEF owners, owner
        <5> QED BY <1>3, <2>8, <4>1
      <4>3. fetch'.owners[source] # "account" => ~(Selected(plan, move) /\ reply = "found")
        BY <2>4, <2>6, <4>2
      <4>4. Selected(plan, move) => reply # "missing"
        BY <2>1, <2>4
      <4> HIDE DEF plan, owners
      <4> QED BY <1>5, <2>1, <2>8, <3>1, <4>3, <4>4
    <3>2. CASE ~Renews(plan, move, source)
      <4>1. fetch'.owners[source] = owners[source]
        <5>1. CASE good /\ ask.kind = "credential"
          <6>1. fetch'.owners = [owners EXCEPT ![ask.source] = owner] /\ ask.source # source
            BY <1>8, <2>5, <3>2, <5>1 DEF Asked
          <6> HIDE DEF owners, owner, ask
          <6> QED BY <1>3, <2>8, <6>1
        <5>2. CASE ~(good /\ ask.kind = "credential")
          BY <1>8, <5>2 DEF Asked
        <5> QED BY <5>1, <5>2
      <4>2. Selected(plan, move) => reply # "missing"
        BY <2>1, <2>4
      <4> HIDE DEF plan, owners
      <4> QED BY <1>5, <2>1, <2>8, <3>2, <4>1, <4>2
    <3> QED BY <3>1, <3>2
  <2> QED BY <2>7, <2>8
<1>9. CASE Showed(fetch, fetch')
  BY <1>2, <1>3, <1>9 DEF Showed, Running
<1>10. CASE fetch' = fetch
  BY <1>2, <1>3, <1>4, <1>10
<1> QED BY <1>1, <1>2, <1>3, <1>6, <1>7, <1>8, <1>9, <1>10 DEF Walks

\* The usage of a selected account is read with its own credential: of every
\* provider whose plan asks no source for usage unless that account was the
\* last credential found for it, whatever this machine has besides.
THEOREM AccountReadsItsOwn == FetchSteps => []OwnAccountOnly
<1>1. FetchInit => Alone
  BY BegunAlone
<1>2. FetchInit => Faithful
  <2> SUFFICES ASSUME FetchInit, fetch.selected, fetch.provider \notin Borrowers
               PROVE  /\ PlanOf(fetch).token # "none" /\ fetch.facts = {}
                      /\ \A source \in Sources : Serves(PlanOf(fetch), source) =>
                           /\ fetch.at \in Visited(PlanOf(fetch))
                           /\ fetch.at \in Foreign(PlanOf(fetch), source)
    BY DEF Faithful
  <2> DEFINE plan == PlanOf(fetch)
  <2>1. /\ fetch.provider \in DOMAIN Plans /\ fetch.mode \in DOMAIN plan.legs
        /\ fetch.at \in StartsOf(plan, fetch.mode) /\ plan.token # "none" /\ fetch.facts = {}
    BY BegunFresh
  <2>2. fetch.at \in Starts(plan)
    BY <2>1, StartsAll
  <2>3. ASSUME NEW source \in Sources, Serves(plan, source)
        PROVE  Own(plan, source, Foreign(plan, source))
    BY <2>1, <2>3, PlansOwn DEF Serves, PlanOf
  <2> HIDE DEF plan
  <2>4. ASSUME NEW source \in Sources, Serves(plan, source)
        PROVE  fetch.at \in Visited(plan) /\ fetch.at \in Foreign(plan, source)
    BY <2>2, <2>3, <2>4 DEF Own, Covers
  <2> QED BY <2>1, <2>4 DEF plan
<1>3. Inv /\ Alone /\ [FetchNext]_fetchVars => Alone'
  BY AloneStep
<1>4. Inv /\ Alone /\ Faithful /\ [FetchNext]_fetchVars => Faithful'
  <2>1. Faithful /\ UNCHANGED fetchVars => Faithful'
    BY DEF Faithful, fetchVars
  <2> QED BY <2>1, StaysFaithful
<1>5. Faithful => OwnAccountOnly
  BY DEF Faithful, OwnAccountOnly
<1> QED BY <1>1, <1>2, <1>3, <1>4, <1>5, BegunPlaced, FetchStep, PTL DEF FetchSteps

-----------------------------------------------------------------------------
(* What the windows show: first, that it is between nothing and everything. *)

\* What a window may show.
Shown == {NoWindow} \cup 0..Whole

\* A clamped number is between nothing and everything, and so is the rest of
\* one that is.
LEMMA ClampedIsShown ==
  /\ \A n \in Int : Clamped(n) \in 0..Whole
  /\ \A n \in 0..Whole : n \in Int /\ Whole - n \in 0..Whole
  /\ {0, Whole} \subseteq 0..Whole /\ Whole \in Int
<1>1. \A n \in Int : Clamped(n) \in 0..Whole
  BY DEF Clamped, Whole, Unit
<1>2. \A n \in 0..Whole : n \in Int /\ Whole - n \in 0..Whole
  BY DEF Whole, Unit
<1>3. {0, Whole} \subseteq 0..Whole /\ Whole \in Int
  BY DEF Whole, Unit
<1>. QED BY <1>1, <1>2, <1>3

\* A share is a number.
LEMMA ShareIsInt == \A part, limit \in Int : limit > 0 => Share(part, limit) \in Int
BY DEF Share, Whole, Unit

\* A fraction is a number in percents, and so is what it leaves.
LEMMA FractionIsInt ==
  \A p \in Int :
    /\ p * 100 \in Int /\ (Unit - p) * 100 \in Int
    /\ \A n \in {ChutesFraction(p), SyntheticFraction(p), DevinFraction(p), OneOrLess(p)} :
         n \in Int /\ Whole - n \in Int
<1>1. \A p \in Int : p * 100 \in Int /\ (Unit - p) * 100 \in Int /\ Whole - p \in Int
  BY DEF Unit, Whole
<1>2. \A p \in Int : ChutesFraction(p) \in Int
  BY <1>1, ClampedIsShown DEF ChutesFraction
<1>. QED BY <1>1, <1>2 DEF SyntheticFraction, DevinFraction, OneOrLess

\* What the parsers share: a share of a limit, a percentage, a fraction and the
\* rest of one are shown.
LEMMA SharesAreShown ==
  /\ \A used, limit \in Int :
       /\ limit > 0 => DisplayShare(used, limit) \in 0..Whole
       /\ ShareOrNone(used, limit) \in Shown
       /\ \A default \in {0, Whole} : ShareOr(default, used, limit) \in 0..Whole
  /\ \A p \in Int : {PercentGiven(p), FractionGiven(p), FractionRest(p), Rest(p)} \subseteq Shown
<1>1. \A used, limit \in Int : limit > 0 => DisplayShare(used, limit) \in 0..Whole
  BY ClampedIsShown, ShareIsInt DEF DisplayShare
<1>2. \A used, limit \in Int : ShareOrNone(used, limit) \in Shown
  BY <1>1 DEF ShareOrNone, Positive, Shown
<1>3. \A used, limit \in Int : \A default \in {0, Whole} : ShareOr(default, used, limit) \in 0..Whole
  BY <1>1, ClampedIsShown DEF ShareOr
<1>4. \A p \in Int : PercentGiven(p) \in Shown /\ FractionGiven(p) \in Shown
  BY FractionIsInt, ClampedIsShown DEF PercentGiven, FractionGiven, Shown
<1>5. \A p \in Int : FractionRest(p) \in Shown /\ Rest(p) \in Shown
  BY FractionIsInt, ClampedIsShown DEF FractionRest, Rest, Shown
<1>. QED BY <1>1, <1>2, <1>3, <1>4, <1>5

\* Every figure of a quota is a number, told or worked out.
LEMMA FiguresAreInts ==
  ASSUME NEW q \in Quotas
  PROVE  /\ q.used \in Int /\ q.limit \in Int /\ q.remaining \in Int
         /\ q.usedPercent \in Int /\ q.leftPercent \in Int
         /\ Gone(q) \in Int /\ UsedOrGone(q) \in Int /\ ShareUsed(q) \in Shown
<1>1. /\ q.used \in Int /\ q.limit \in Int /\ q.remaining \in Int
      /\ q.usedPercent \in Int /\ q.leftPercent \in Int
  BY DEF Quotas
<1>2. Gone(q) \in Int
  BY <1>1 DEF Gone, AtLeastZero
<1>3. UsedOrGone(q) \in Int
  BY <1>1, <1>2 DEF UsedOrGone, Missing
<1>4. LimitOf(q) \in Int
  BY <1>1 DEF LimitOf
<1>5. UsedOf(q) \in Int
  BY <1>1, <1>4 DEF UsedOf
<1>6. ShareUsed(q) \in Shown
  BY <1>4, <1>5, ShareIsInt, ClampedIsShown DEF ShareUsed, Shown
<1>. QED BY <1>1, <1>2, <1>3, <1>6

\* Numbers that are cut at zero or taken for zero stay numbers.
LEMMA CutIsInt == \A n \in Int : OrZero(n) \in Int /\ AtLeastZero(n) \in Int
BY DEF OrZero, AtLeastZero

\* A part of what is allowed is at most all of it.
LEMMA QuotientIsBounded ==
  ASSUME NEW limit \in Nat \ {0}, NEW left \in Nat, left <= limit
  PROVE  (100 * left) \div limit \in 0..100
<1> DEFINE part == (100 * left) \div limit
           over == (100 * left) % limit
<1>1. part \in Int /\ over \in Int /\ 0 <= over /\ over < limit /\ 100 * left = limit * part + over
  OBVIOUS
<1> HIDE DEF part, over
<1>2. ASSUME part < 0 PROVE FALSE
  <2>1. PICK d \in Nat : part = -1 - d
    BY <1>1, <1>2
  <2>2. limit * part = -limit - limit * d
    BY <2>1
  <2>3. limit * d >= 0
    OBVIOUS
  <2>. QED BY <1>1, <2>2, <2>3
<1>3. ASSUME part > 100 PROVE FALSE
  <2>1. PICK d \in Nat : part = 101 + d
    BY <1>1, <1>3
  <2>2. limit * part = limit * 101 + limit * d
    BY <2>1
  <2>3. limit * d >= 0
    OBVIOUS
  <2>. QED BY <1>1, <2>2, <2>3
<1>. QED BY <1>1, <1>2, <1>3 DEF part

\* The parsers of the providers that speak of percents first.
LEMMA PercentParsersShow ==
  ASSUME NEW q \in Quotas
  PROVE  /\ ChutesPercent(q) \in Shown /\ SyntheticPercent(q) \in Shown /\ WarpPercent(q) \in Shown
         /\ MiniMaxPercent(q) \in Shown /\ MiniMaxServicePercent(q) \in Shown
         /\ AlibabaPercent(q) \in Shown /\ DoubaoCodingPercent(q) \in Shown
         /\ DoubaoAgentPercent(q) \in Shown /\ DoubaoProbePercent(q) \in Shown
         /\ FactoryLegacyPercent(q) \in Shown /\ FactoryBillingPercent(q) \in Shown
         /\ FactoryExpiredPercent(q) \in Shown
<1>0. /\ q.used \in Int /\ q.limit \in Int /\ q.remaining \in Int
      /\ q.usedPercent \in Int /\ q.leftPercent \in Int /\ ShareUsed(q) \in Shown
  BY FiguresAreInts
<1>1. ChutesPercent(q) \in Shown
  <2>1. \A p \in Int : ChutesFraction(p) \in 0..Whole
    BY ClampedIsShown, FractionIsInt DEF ChutesFraction
  <2>. QED BY <1>0, <2>1, ClampedIsShown DEF ChutesPercent, Shown
<1>2. SyntheticPercent(q) \in Shown
  BY <1>0, ClampedIsShown, FractionIsInt DEF SyntheticPercent, Shown
<1>3. WarpPercent(q) \in Shown
  BY <1>0, ClampedIsShown, ShareIsInt DEF WarpPercent, Shown
<1>4. MiniMaxPercent(q) \in Shown
  <2>1. Whole - q.leftPercent \in Int /\ q.limit - q.remaining \in Int
    BY <1>0, ClampedIsShown
  <2>. QED BY <1>0, <2>1, ClampedIsShown, ShareIsInt DEF MiniMaxPercent, Shown
<1>5. MiniMaxServicePercent(q) \in Shown
  BY <1>0, ClampedIsShown, ShareIsInt DEF MiniMaxServicePercent, Shown
<1>6. AlibabaPercent(q) \in Shown /\ DoubaoAgentPercent(q) \in Shown
  BY <1>0, ClampedIsShown, ShareIsInt DEF AlibabaPercent, DoubaoAgentPercent, Shown
<1>7. DoubaoCodingPercent(q) \in Shown
  BY <1>0, ClampedIsShown DEF DoubaoCodingPercent, Shown
<1>8. DoubaoProbePercent(q) \in Shown
  <2>1. q.limit - q.remaining \in Int /\ q.limit - 0 \in Int
    BY <1>0, ClampedIsShown
  <2>. QED BY <1>0, <2>1, ClampedIsShown, ShareIsInt DEF DoubaoProbePercent, Shown
<1>9. FactoryLegacyPercent(q) \in Shown
  BY <1>0, ClampedIsShown, FractionIsInt, SharesAreShown DEF FactoryLegacyPercent, Positive, Shown
<1>10. FactoryBillingPercent(q) \in Shown
  BY <1>0, SharesAreShown DEF FactoryBillingPercent
<1>11. FactoryExpiredPercent(q) \in Shown
  BY ClampedIsShown DEF FactoryExpiredPercent, Shown
<1>. QED BY <1>1, <1>2, <1>3, <1>4, <1>5, <1>6, <1>7, <1>8, <1>9, <1>10, <1>11

\* Those of the balances, proxies, routers and vendors.
LEMMA ShareParsersShow ==
  ASSUME NEW q \in Quotas
  PROVE  /\ BothOrNone(q) \in Shown /\ CrofPercent(q) \in Shown
         /\ KiroPercent(q) \in Shown /\ AugmentPercent(q) \in Shown
         /\ JetBrainsPercent(q) \in Shown /\ VenicePercent(q) \in Shown /\ ZenMuxPercent(q) \in Shown
         /\ KiloPercent(q) \in Shown /\ LlmProxyPercent(q) \in Shown
         /\ NeuralWattPercent(q) \in Shown /\ CodebuffPercent(q) \in Shown
         /\ KiroManagedPercent(q) \in Shown /\ OpenRouterNullPercent(q) \in Shown
<1>0. /\ q.used \in Int /\ q.limit \in Int /\ q.remaining \in Int
      /\ q.usedPercent \in Int /\ q.leftPercent \in Int /\ UsedOrGone(q) \in Int
  BY FiguresAreInts
<1>1. BothOrNone(q) \in Shown
  BY <1>0, SharesAreShown DEF BothOrNone, Shown
<1>2. CrofPercent(q) \in Shown
  <2> DEFINE limit == AtLeastZero(q.limit)
             left  == IF q.remaining > limit THEN limit ELSE AtLeastZero(q.remaining)
             cut   == IF limit > 0 THEN Unit * ((100 * left) \div limit) ELSE 0
  <2>1. limit \in Int /\ limit >= 0 /\ left \in 0..limit
    BY <1>0 DEF AtLeastZero
  <2> HIDE DEF left, limit
  <2>2. limit > 0 => (100 * left) \div limit \in 0..100
    <3>1. ASSUME limit > 0 PROVE (100 * left) \div limit \in 0..100
      <4>1. limit \in Nat \ {0} /\ left \in Nat /\ left <= limit
        BY <2>1, <3>1
      <4>. HIDE DEF limit, left
      <4>. QED BY <4>1, QuotientIsBounded
    <3>. QED BY <3>1
  <2>3. cut \in 0..Whole
    <3>1. ASSUME limit > 0 PROVE cut \in 0..Whole
      <4> DEFINE part == (100 * left) \div limit
      <4>1. cut = Unit * part /\ part \in 0..100
        BY <2>2, <3>1
      <4> HIDE DEF part, cut
      <4>. QED BY <4>1 DEF Whole, Unit
    <3>2. ASSUME ~(limit > 0) PROVE cut \in 0..Whole
      BY <3>2, ClampedIsShown
    <3>. QED BY <3>1, <3>2
  <2> HIDE DEF cut
  <2>4. CrofPercent(q) \in {NoWindow, Whole - cut}
    BY DEF CrofPercent, cut, left, limit
  <2>. QED BY <2>3, <2>4, ClampedIsShown DEF Shown
<1>3. KiroPercent(q) \in Shown
  BY <1>0, ClampedIsShown, SharesAreShown DEF KiroPercent, Shown
<1>4. AugmentPercent(q) \in Shown
  BY <1>0, SharesAreShown DEF AugmentPercent, Shown
<1>5. JetBrainsPercent(q) \in Shown
  BY <1>0, SharesAreShown, CutIsInt DEF JetBrainsPercent, Shown
<1>6. VenicePercent(q) \in Shown
  <2>1. q.limit - q.remaining \in Int
    BY <1>0, ClampedIsShown
  <2>. QED BY <1>0, <2>1, ClampedIsShown, SharesAreShown DEF VenicePercent, Positive, Shown
<1>7. ZenMuxPercent(q) \in Shown
  BY <1>0, SharesAreShown DEF ZenMuxPercent, Shown
<1>8. KiloPercent(q) \in Shown
  BY <1>0, SharesAreShown, CutIsInt DEF KiloPercent, Shown
<1>9. LlmProxyPercent(q) \in Shown
  <2>1. Whole - q.leftPercent \in Int
    BY <1>0, ClampedIsShown
  <2>. QED BY <2>1, ClampedIsShown DEF LlmProxyPercent, Shown
<1>10. NeuralWattPercent(q) \in Shown
  <2> DEFINE used  == IF Has(q.used) /\ q.used >= 0 THEN q.used ELSE Missing
             left  == IF Has(q.remaining) /\ q.remaining >= 0 THEN q.remaining ELSE Missing
             limit == IF Positive(q.limit) THEN q.limit
                      ELSE IF Has(used) /\ Has(left) THEN used + left ELSE Missing
             r == [q EXCEPT !.used = used, !.limit = limit, !.remaining = left]
  <2>1. used \in Int /\ left \in Int
    BY <1>0 DEF Missing
  <2>2. limit \in Int
    BY <1>0, <2>1 DEF Missing
  <2> HIDE DEF used, left, limit
  <2>3. r \in Quotas
    BY <2>1, <2>2 DEF Quotas
  <2>4. NeuralWattPercent(q) = ShareOrNone(UsedOrGone(r), limit)
    BY DEF NeuralWattPercent, used, left, limit
  <2> HIDE DEF r
  <2>. QED BY <2>2, <2>3, <2>4, FiguresAreInts, SharesAreShown
<1>11. CodebuffPercent(q) \in Shown
  <2> DEFINE limit == IF Has(q.limit) THEN AtLeastZero(q.limit)
                      ELSE IF Has(q.used) /\ Has(q.remaining) THEN AtLeastZero(q.used + q.remaining)
                      ELSE Missing
             r == [q EXCEPT !.limit = limit]
             used == AtLeastZero(OrZero(UsedOrGone(r)))
  <2>1. limit \in Int
    BY <1>0 DEF Missing, AtLeastZero
  <2> HIDE DEF limit
  <2>2. r \in Quotas
    BY <2>1 DEF Quotas
  <2> HIDE DEF r
  <2>3. used \in Int
    BY <2>2, FiguresAreInts, CutIsInt
  <2>4. CodebuffPercent(q) = IF Positive(limit) THEN DisplayShare(used, limit)
                             ELSE IF Has(q.used) \/ Has(q.remaining) THEN Whole ELSE NoWindow
    BY DEF CodebuffPercent, limit, r
  <2> HIDE DEF used
  <2>. QED BY <2>1, <2>3, <2>4, ClampedIsShown, SharesAreShown DEF Positive, Shown
<1>12. KiroManagedPercent(q) \in Shown
  BY <1>3, ClampedIsShown DEF KiroManagedPercent, Shown
<1>13. OpenRouterNullPercent(q) \in Shown
  BY <1>0, SharesAreShown, CutIsInt DEF OpenRouterNullPercent, Shown
<1>. QED BY <1>1, <1>2, <1>3, <1>4, <1>5, <1>6, <1>7, <1>8, <1>9, <1>10, <1>11, <1>12, <1>13

\* Those of the clouds, the sessions and the browsers.
LEMMA SessionParsersShow ==
  ASSUME NEW q \in Quotas
  PROVE  /\ WindsurfCountPercent(q) \in Shown /\ ZoomMatePercent(q) \in Shown
         /\ OpenCodeGoPercent(q) \in Shown /\ QwenCloudLegacyPercent(q) \in Shown
         /\ Sub2ApiPercent(q) \in Shown /\ CursorPercent(q) \in Shown
         /\ DevinPercent(q) \in Shown /\ ManusPercent(q) \in Shown /\ T3ChatPercent(q) \in Shown
         /\ SakanaPercent(q) \in Shown /\ AbacusPercent(q) \in Shown /\ MistralPercent(q) \in Shown
         /\ CommandCodePercent(q) \in Shown /\ QoderPercent(q) \in Shown
         /\ PerplexityPercent(q) \in Shown /\ LongCatPercent(q) \in Shown
         /\ TokenPlanPercent(q) \in Shown /\ MiMoPercent(q) \in Shown
         /\ ClaudeCliPercent(q) \in Shown /\ KimiPercent(q) \in Shown
         /\ CommandCodeMonthlyPercent(q) \in Shown /\ LongCatFuelPercent(q) \in Shown
<1>0. /\ q.used \in Int /\ q.limit \in Int /\ q.remaining \in Int
      /\ q.usedPercent \in Int /\ q.leftPercent \in Int /\ UsedOrGone(q) \in Int
      /\ q.limit - q.remaining \in Int
  BY FiguresAreInts
<1>1. WindsurfCountPercent(q) \in Shown /\ QwenCloudLegacyPercent(q) \in Shown /\ TokenPlanPercent(q) \in Shown
  BY <1>0, SharesAreShown DEF WindsurfCountPercent, QwenCloudLegacyPercent, TokenPlanPercent
<1>2. ZoomMatePercent(q) \in Shown
  BY <1>0, SharesAreShown, CutIsInt DEF ZoomMatePercent, Shown
<1>3. OpenCodeGoPercent(q) \in Shown
  BY <1>0, ClampedIsShown, FractionIsInt, SharesAreShown DEF OpenCodeGoPercent, Shown
<1>4. Sub2ApiPercent(q) \in Shown /\ CommandCodePercent(q) \in Shown
  BY <1>0, SharesAreShown, CutIsInt DEF Sub2ApiPercent, CommandCodePercent
<1>5. CursorPercent(q) \in Shown
  BY <1>0, ClampedIsShown, SharesAreShown DEF CursorPercent, Positive, Shown
<1>6. DevinPercent(q) \in Shown
  BY <1>0, ClampedIsShown, FractionIsInt, SharesAreShown DEF DevinPercent, Positive, Shown
<1>7. ManusPercent(q) \in Shown
  <2>1. OrZero(q.limit) - OrZero(q.remaining) \in Int
    BY <1>0, CutIsInt
  <2>. QED BY <1>0, <2>1, SharesAreShown DEF ManusPercent
<1>8. T3ChatPercent(q) \in Shown
  BY <1>0, ClampedIsShown, CutIsInt DEF T3ChatPercent, Shown
<1>9. SakanaPercent(q) \in Shown /\ MistralPercent(q) \in Shown
  BY DEF SakanaPercent, MistralPercent, Shown
<1>10. AbacusPercent(q) \in Shown
  BY <1>0, SharesAreShown DEF AbacusPercent, Shown
<1>11. QoderPercent(q) \in Shown
  BY <1>0, SharesAreShown DEF QoderPercent, Shown
<1>12. PerplexityPercent(q) \in Shown
  BY <1>0, SharesAreShown, CutIsInt DEF PerplexityPercent, Shown
<1>13. LongCatPercent(q) \in Shown
  BY <1>0, SharesAreShown DEF LongCatPercent, Shown
<1>14. MiMoPercent(q) \in Shown
  BY <1>0, SharesAreShown DEF MiMoPercent, Shown
<1>15. ClaudeCliPercent(q) \in Shown
  <2>1. Whole - q.leftPercent \in Int
    BY <1>0, ClampedIsShown
  <2>. QED BY <1>0, <2>1, ClampedIsShown, SharesAreShown DEF ClaudeCliPercent, Shown
<1>16. KimiPercent(q) \in Shown
  BY <1>0, SharesAreShown, CutIsInt DEF KimiPercent, Shown
<1>17. CommandCodeMonthlyPercent(q) \in Shown
  <2>1. Gone(q) \in Int
    BY FiguresAreInts
  <2>. QED BY <1>0, <2>1, ClampedIsShown, SharesAreShown DEF CommandCodeMonthlyPercent, Positive, Shown
<1>18. LongCatFuelPercent(q) \in Shown
  <2>1. AtLeastZero(q.limit - AtLeastZero(OrZero(q.remaining))) \in Int
    BY <1>0 DEF AtLeastZero, OrZero
  <2>. QED BY <1>0, <2>1, SharesAreShown DEF LongCatFuelPercent
<1>. QED BY <1>1, <1>2, <1>3, <1>4, <1>5, <1>6, <1>7, <1>8, <1>9, <1>10, <1>11, <1>12, <1>13,
            <1>14, <1>15, <1>16, <1>17, <1>18

\* Those that are one of the shared shares.
LEMMA SharedParsersShow ==
  ASSUME NEW q \in Quotas
  PROVE  /\ GeminiPercent(q) \in Shown /\ AntigravityPercent(q) \in Shown /\ StepFunPercent(q) \in Shown
         /\ OllamaPercent(q) \in Shown /\ ClinePassPercent(q) \in Shown
         /\ OpenCodeGoPagePercent(q) \in Shown /\ QwenCloudPercent(q) \in Shown
         /\ WindsurfPercent(q) \in Shown /\ ElevenLabsPercent(q) \in Shown
         /\ OpenRouterPercent(q) \in Shown /\ ClawRouterPercent(q) \in Shown /\ ZedPercent(q) \in Shown
         /\ IBMBobPercent(q) \in Shown /\ LiteLlmPercent(q) \in Shown /\ BedrockPercent(q) \in Shown
         /\ OpenCodePercent(q) \in Shown
<1>1. /\ q.used \in Int /\ q.limit \in Int /\ q.usedPercent \in Int /\ q.leftPercent \in Int
  BY FiguresAreInts
<1>2. GeminiPercent(q) \in Shown /\ AntigravityPercent(q) \in Shown /\ StepFunPercent(q) \in Shown
  BY <1>1, SharesAreShown DEF GeminiPercent, AntigravityPercent, StepFunPercent
<1>3. OllamaPercent(q) \in Shown /\ ClinePassPercent(q) \in Shown /\ OpenCodeGoPagePercent(q) \in Shown
  BY <1>1, SharesAreShown DEF OllamaPercent, ClinePassPercent, OpenCodeGoPagePercent
<1>4. QwenCloudPercent(q) \in Shown /\ WindsurfPercent(q) \in Shown
  BY <1>1, SharesAreShown DEF QwenCloudPercent, WindsurfPercent
<1>5. ElevenLabsPercent(q) \in Shown /\ OpenRouterPercent(q) \in Shown
  BY ShareParsersShow DEF ElevenLabsPercent, OpenRouterPercent
<1>6. ClawRouterPercent(q) \in Shown /\ ZedPercent(q) \in Shown /\ IBMBobPercent(q) \in Shown
  BY <1>1, SharesAreShown DEF ClawRouterPercent, ZedPercent, IBMBobPercent
<1>7. LiteLlmPercent(q) \in Shown /\ BedrockPercent(q) \in Shown
  BY <1>1, SharesAreShown DEF LiteLlmPercent, BedrockPercent
<1>8. OpenCodePercent(q) \in Shown
  BY SessionParsersShow DEF OpenCodePercent
<1>. QED BY <1>2, <1>3, <1>4, <1>5, <1>6, <1>7, <1>8

\* What a parser shows of whatever numbers it finds is between nothing and
\* everything, whatever provider it belongs to, but for those that are known
\* to show more.
LEMMA WindowsShow ==
  ASSUME NEW q \in Quotas
  PROVE  \A provider \in DOMAIN Windows \ Overdrawn : \A k \in DOMAIN Windows[provider] :
           Windows[provider][k].percent[q] \in Shown
<1>. DEFINE Shows(p) == \A i \in DOMAIN Windows[p] : Windows[p][i].percent[q] \in Shown
<1>1. Shows("chutes")
  BY PercentParsersShow, SMTT(30) DEF Windows, Of
<1>2. Shows("synthetic")
  BY PercentParsersShow, SMTT(30) DEF Windows, Of
<1>3. Shows("warp")
  BY PercentParsersShow, SMTT(30) DEF Windows, Of
<1>4. Shows("minimax")
  BY PercentParsersShow, SMTT(30) DEF Windows, Of
<1>5. Shows("alibaba")
  BY PercentParsersShow, SMTT(30) DEF Windows, Of
<1>6. Shows("doubao")
  BY PercentParsersShow, SMTT(30) DEF Windows, Of
<1>7. Shows("factory")
  BY PercentParsersShow, SMTT(30) DEF Windows, Of, InFractions
<1>8. Shows("gemini")
  BY SharedParsersShow, SMTT(30) DEF Windows, Of, InFractions
<1>9. Shows("antigravity")
  BY SharedParsersShow, SMTT(30) DEF Windows, Of, InFractions
<1>10. Shows("ollama")
  BY SharedParsersShow, SMTT(30) DEF Windows, Of
<1>11. Shows("kiro")
  BY ShareParsersShow, SMTT(30) DEF Windows, Of
<1>12. Shows("augment")
  BY ShareParsersShow, SMTT(30) DEF Windows, Of
<1>13. Shows("elevenlabs")
  BY SharedParsersShow, SMTT(30) DEF Windows, Of
<1>14. Shows("crof")
  BY ShareParsersShow, SMTT(30) DEF Windows, Of
<1>15. Shows("venice")
  BY ShareParsersShow, SMTT(30) DEF Windows, Of
<1>16. Shows("zenmux")
  BY ShareParsersShow, SMTT(30) DEF Windows, Of, InFractions
<1>17. Shows("kilo")
  BY ShareParsersShow, SMTT(30) DEF Windows, Of
<1>18. Shows("clawrouter")
  BY SharedParsersShow, SMTT(30) DEF Windows, Of
<1>19. Shows("llmproxy")
  BY ShareParsersShow, SMTT(30) DEF Windows, Of
<1>20. Shows("openrouter")
  BY SharedParsersShow, ShareParsersShow, SMTT(30) DEF Windows, Of
<1>21. Shows("neuralwatt")
  BY ShareParsersShow, SMTT(30) DEF Windows, Of
<1>22. Shows("codebuff")
  BY ShareParsersShow, SMTT(30) DEF Windows, Of
<1>23. Shows("clinepass")
  BY SharedParsersShow, SMTT(30) DEF Windows, Of
<1>24. Shows("jetbrains")
  BY ShareParsersShow, SMTT(30) DEF Windows, Of
<1>25. Shows("zed")
  BY SharedParsersShow, SMTT(30) DEF Windows, Of
<1>26. Shows("windsurf")
  BY SessionParsersShow, SharedParsersShow, SMTT(30) DEF Windows, Of
<1>27. Shows("ibmbob")
  BY SharedParsersShow, SMTT(30) DEF Windows, Of
<1>28. Shows("stepfun")
  BY SharedParsersShow, SMTT(30) DEF Windows, Of, InFractions
<1>29. Shows("zoommate")
  BY SessionParsersShow, SMTT(30) DEF Windows, Of
<1>30. Shows("opencodego")
  BY SessionParsersShow, SharedParsersShow, SMTT(30) DEF Windows, Of, InFractions
<1>31. Shows("qwencloud")
  BY SessionParsersShow, SharedParsersShow, SMTT(30) DEF Windows, Of, InFractions
<1>32. Shows("litellm")
  BY SharedParsersShow, SMTT(30) DEF Windows, Of
<1>33. Shows("sub2api")
  BY SessionParsersShow, SMTT(30) DEF Windows, Of
<1>34. Shows("bedrock")
  BY SharedParsersShow, SMTT(30) DEF Windows, Of
<1>35. Shows("cursor")
  BY SessionParsersShow, SMTT(30) DEF Windows, Of
<1>36. Shows("opencode")
  BY SharedParsersShow, SMTT(30) DEF Windows, Of, InFractions
<1>37. Shows("devin")
  BY SessionParsersShow, SMTT(30) DEF Windows, Of, InFractions
<1>38. Shows("manus")
  BY SessionParsersShow, SMTT(30) DEF Windows, Of
<1>39. Shows("t3chat")
  BY SessionParsersShow, SMTT(30) DEF Windows, Of
<1>40. Shows("sakana")
  BY SessionParsersShow, SMTT(30) DEF Windows, Of
<1>41. Shows("abacus")
  BY SessionParsersShow, SMTT(30) DEF Windows, Of
<1>42. Shows("mistral")
  BY SessionParsersShow, SMTT(30) DEF Windows, Of
<1>43. Shows("commandcode")
  BY SessionParsersShow, SMTT(30) DEF Windows, Of
<1>44. Shows("qoder")
  BY SessionParsersShow, SMTT(30) DEF Windows, Of
<1>45. Shows("perplexity")
  BY SessionParsersShow, SMTT(30) DEF Windows, Of
<1>46. Shows("longcat")
  BY SessionParsersShow, SMTT(30) DEF Windows, Of
<1>47. Shows("alibabatokenplan")
  BY SessionParsersShow, SMTT(30) DEF Windows, Of
<1>48. Shows("mimo")
  BY SessionParsersShow, SMTT(30) DEF Windows, Of, InFractions
<1>49. Shows("kimi")
  BY SessionParsersShow, SMTT(30) DEF Windows, Of
<1>. HIDE DEF Shows
<1>50. DOMAIN Windows \ Overdrawn =
      {"chutes", "synthetic", "warp", "minimax", "alibaba", "doubao", "factory", "gemini",
       "antigravity", "ollama", "kiro", "augment", "elevenlabs", "crof", "venice",
       "zenmux", "kilo", "clawrouter", "llmproxy", "openrouter", "neuralwatt", "codebuff",
       "clinepass", "jetbrains", "zed", "windsurf", "ibmbob", "stepfun", "zoommate",
       "opencodego", "qwencloud", "litellm", "sub2api", "bedrock", "cursor", "opencode",
       "devin", "manus", "t3chat", "sakana", "abacus", "mistral", "commandcode", "qoder",
       "perplexity", "longcat", "alibabatokenplan", "mimo", "kimi"}
  BY SMTT(30) DEF Windows, Overdrawn
<1>51. \A provider \in DOMAIN Windows \ Overdrawn : Shows(provider)
  BY <1>1, <1>2, <1>3, <1>4, <1>5, <1>6, <1>7, <1>8, <1>9, <1>10, <1>11, <1>12, <1>13, <1>14,
     <1>15, <1>16, <1>17, <1>18, <1>19, <1>20, <1>21, <1>22, <1>23, <1>24, <1>25, <1>26,
     <1>27, <1>28, <1>29, <1>30, <1>31, <1>32, <1>33, <1>34, <1>35, <1>36, <1>37, <1>38,
     <1>39, <1>40, <1>41, <1>42, <1>43, <1>44, <1>45, <1>46, <1>47, <1>48, <1>49, <1>50
<1>. QED BY <1>51 DEF Shows

-----------------------------------------------------------------------------
(* Then, that it is the share.                                              *)

\* A quotient that leaves nothing over is the number that was multiplied.
LEMMA ExactQuotient ==
  ASSUME NEW limit \in Nat \ {0}, NEW times \in Int
  PROVE  (limit * times) \div limit = times
<1>. DEFINE q == (limit * times) \div limit
            over == (limit * times) % limit
<1>1. q \in Int /\ over \in Int /\ 0 <= over /\ over < limit /\ limit * times = limit * q + over
  OBVIOUS
<1>. HIDE DEF q, over
<1>2. ASSUME q < times PROVE FALSE
  <2>1. PICK d \in Nat : times = q + 1 + d
    BY <1>1, <1>2
  <2>2. limit * times = limit * q + limit + limit * d
    BY <1>1, <2>1
  <2>3. limit * d >= 0
    OBVIOUS
  <2>. QED BY <1>1, <2>2, <2>3
<1>3. ASSUME q > times PROVE FALSE
  <2>1. PICK d \in Nat : q = times + 1 + d
    BY <1>1, <1>3
  <2>2. limit * q = limit * times + limit + limit * d
    BY <1>1, <2>1
  <2>3. limit * d >= 0
    OBVIOUS
  <2>. QED BY <1>1, <2>2, <2>3
<1>. QED BY <1>1, <1>2, <1>3 DEF q

\* A quota that the answer can tell without rounding it.
Exact(used, limit) ==
  /\ used \in Nat /\ limit \in Nat \ {0}
  /\ (100 * used) % limit = 0
  /\ Missing \notin {limit - used, Whole - Share(used, limit), (Whole - Share(used, limit)) \div Unit}

\* Its share is a whole number of percents, what is left of it is the rest, and
\* more than everything is used when more is used than allowed.
LEMMA ExactShares ==
  ASSUME NEW used, NEW limit, Exact(used, limit)
  PROVE  \E percents \in Nat :
           /\ Share(used, limit) = 100 * percents
           /\ Share(limit - used, limit) = Whole - 100 * percents
           /\ Share(0, limit) = 0 /\ Share(limit, limit) = Whole
           /\ (100 * (limit - used)) \div limit = 100 - percents
           /\ used <= limit <=> percents <= 100
<1>. DEFINE percents == (100 * used) \div limit
<1>1. used \in Nat /\ limit \in Nat \ {0}
  BY DEF Exact
<1>2. percents \in Int /\ 100 * used = limit * percents
  <2>1. \A n \in Nat : \A m \in Nat \ {0} : n % m = 0 => n \div m \in Int /\ n = m * (n \div m)
    OBVIOUS
  <2>2. 100 * used \in Nat /\ (100 * used) % limit = 0
    BY <1>1 DEF Exact
  <2>. QED BY <1>1, <2>1, <2>2
<1>. HIDE DEF percents
<1>3. percents \in Nat
  <2>1. ASSUME percents < 0 PROVE FALSE
    <3>1. PICK d \in Nat : percents = -1 - d
      BY <1>2, <2>1
    <3>2. limit * percents = -limit - limit * d
      BY <1>1, <3>1
    <3>3. limit * d >= 0
      BY <1>1
    <3>. QED BY <1>1, <1>2, <3>2, <3>3
  <2>. QED BY <1>2, <2>1
<1>4. Share(used, limit) = 100 * percents
  <2>1. Whole * used = limit * (100 * percents)
    BY <1>1, <1>2 DEF Whole, Unit
  <2>2. 100 * percents \in Int
    BY <1>3
  <2>3. (limit * (100 * percents)) \div limit = 100 * percents
    BY <1>1, <2>2, ExactQuotient
  <2>. QED BY <2>1, <2>3 DEF Share
<1>5. Share(limit - used, limit) = Whole - 100 * percents
  <2>1. Whole * (limit - used) = limit * (Whole - 100 * percents)
    BY <1>1, <1>2 DEF Whole, Unit
  <2>2. Whole - 100 * percents \in Int
    BY <1>3, ClampedIsShown
  <2>3. (limit * (Whole - 100 * percents)) \div limit = Whole - 100 * percents
    BY <1>1, <2>2, ExactQuotient
  <2>. QED BY <2>1, <2>3 DEF Share
<1>6. Share(0, limit) = 0
  <2>1. Whole * 0 = limit * 0
    BY <1>1 DEF Whole, Unit
  <2>. QED BY <1>1, <2>1, ExactQuotient DEF Share
<1>7. Share(limit, limit) = Whole
  <2>1. Whole * limit = limit * Whole
    BY <1>1 DEF Whole, Unit
  <2>. QED BY <1>1, <2>1, ExactQuotient, ClampedIsShown DEF Share
<1>8. (100 * (limit - used)) \div limit = 100 - percents
  <2>1. 100 * (limit - used) = limit * (100 - percents)
    BY <1>1, <1>2
  <2>2. 100 - percents \in Int
    BY <1>3
  <2>. QED BY <1>1, <2>1, <2>2, ExactQuotient
<1>9. used <= limit <=> percents <= 100
  <2>1. CASE percents <= 100
    <3>1. PICK d \in Nat : percents = 100 - d
      BY <1>3, <2>1
    <3>2. limit * percents = limit * 100 - limit * d /\ limit * d >= 0
      BY <1>1, <3>1
    <3>. QED BY <1>1, <1>2, <2>1, <3>2
  <2>2. CASE percents > 100
    <3>1. PICK d \in Nat : percents = 101 + d
      BY <1>3, <2>2
    <3>2. limit * percents = limit * 101 + limit * d /\ limit * d >= 0
      BY <1>1, <3>1
    <3>. QED BY <1>1, <1>2, <2>2, <3>2
  <2>. QED BY <1>3, <2>1, <2>2
<1>. QED BY <1>3, <1>4, <1>5, <1>6, <1>7, <1>8, <1>9

\* A quota as an answer tells it: each figure, or nothing.
IsTold(q, used, limit, scale) ==
  /\ q \in Quotas
  /\ q.used \in {Missing, used} /\ q.limit \in {Missing, limit}
  /\ q.remaining \in {Missing, limit - used}
  /\ q.usedPercent \in {Missing, Share(used, limit) \div scale}
  /\ q.leftPercent \in {Missing, (Whole - Share(used, limit)) \div scale}

\* What may be shown of it: the share or no window; by those that guess, nothing
\* and everything as well.
Exactly(used, limit) == {NoWindow, Clamped(Share(used, limit))}
Guesses(used, limit) == Exactly(used, limit) \cup {0, Whole}

\* What the helpers of the parsers make of an exact quota.
LEMMA ExactHelpers ==
  ASSUME NEW used, NEW limit, Exact(used, limit)
  PROVE  LET share == Share(used, limit)
         IN /\ used \in Nat /\ limit \in Nat /\ limit > 0 /\ share \in Nat /\ Whole - share \in Int
            /\ Has(used) /\ Has(limit) /\ Has(limit - used) /\ ~(Missing > 0)
            /\ limit - (limit - used) = used /\ used + (limit - used) = limit
            /\ DisplayShare(used, limit) = Clamped(share) /\ DisplayShare(limit, limit) = Whole
            /\ DisplayShare(0, limit) = 0
            /\ Share(limit - used, limit) = Whole - share
            /\ Has(share) /\ Has(Whole - share) /\ Whole - (Whole - share) = share
            /\ Clamped(Whole - Clamped(Whole - share)) = Clamped(share)
            /\ Whole - Clamped(Whole - share) = Clamped(share)
            /\ share \in 0..Whole => share = Clamped(share)
            /\ AtLeastZero(used) = used /\ AtLeastZero(0) = 0 /\ AtLeastZero(limit) = limit
            /\ AtLeastZero(share) = share /\ Clamped(0) = 0
<1>. DEFINE share == Share(used, limit)
<1>1. PICK percents \in Nat :
        /\ share = 100 * percents /\ Share(limit - used, limit) = Whole - 100 * percents
        /\ Share(0, limit) = 0 /\ Share(limit, limit) = Whole
  BY ExactShares
<1>2. /\ used \in Nat /\ limit \in Nat /\ limit > 0
      /\ Missing \notin {limit - used, Whole - share}
  BY DEF Exact
<1>3. share \in Nat /\ Share(limit - used, limit) = Whole - share
  BY <1>1
<1>. HIDE DEF share
<1>4. Whole - share \in Int /\ Whole - (Whole - share) = share
  BY <1>3 DEF Whole, Unit
<1>5. Has(used) /\ Has(limit) /\ Has(share) /\ ~(Missing > 0)
  BY <1>2, <1>3 DEF Has, Missing
<1>6. Has(limit - used) /\ Has(Whole - share)
  BY <1>2 DEF Has
<1>7. limit - (limit - used) = used /\ used + (limit - used) = limit
  BY <1>2
<1>8. DisplayShare(used, limit) = Clamped(share)
  BY DEF DisplayShare, share
<1>9. DisplayShare(limit, limit) = Whole /\ DisplayShare(0, limit) = 0
  BY <1>1 DEF DisplayShare, Clamped, Whole, Unit
<1>10. /\ Clamped(Whole - Clamped(Whole - share)) = Clamped(share)
       /\ Whole - Clamped(Whole - share) = Clamped(share)
  BY <1>3 DEF Clamped, Whole, Unit
<1>11. share \in 0..Whole => share = Clamped(share)
  BY <1>3 DEF Clamped, Whole, Unit
<1>12. /\ AtLeastZero(used) = used /\ AtLeastZero(0) = 0 /\ AtLeastZero(limit) = limit
       /\ AtLeastZero(share) = share /\ Clamped(0) = 0
  BY <1>2, <1>3 DEF AtLeastZero, Clamped, Whole, Unit
<1>. QED BY <1>2, <1>3, <1>4, <1>5, <1>6, <1>7, <1>8, <1>9, <1>10, <1>11, <1>12 DEF share

\* In percents the figures are the share and its rest.
LEMMA ToldInPercents ==
  ASSUME NEW used, NEW limit, Exact(used, limit), NEW q, IsTold(q, used, limit, 1)
  PROVE  /\ q.used \in {Missing, used} /\ q.limit \in {Missing, limit}
         /\ q.remaining \in {Missing, limit - used}
         /\ q.usedPercent \in {Missing, Share(used, limit)}
         /\ q.leftPercent \in {Missing, Whole - Share(used, limit)}
<1>1. \A n \in Int : n \div 1 = n
  OBVIOUS
<1>2. Share(used, limit) \in Int /\ Whole - Share(used, limit) \in Int
  BY ExactHelpers
<1>. QED BY <1>1, <1>2 DEF IsTold

\* Two of the figures give the third one.
LEMMA ToldFigures ==
  ASSUME NEW used, NEW limit, Exact(used, limit), NEW q, IsTold(q, used, limit, 1)
  PROVE  /\ UsedOrGone(q) \in {Missing, used}
         /\ Has(q.remaining) /\ Has(q.limit) => UsedOrGone(q) = used
         /\ ShareUsed(q) \in Exactly(used, limit)
<1>1. /\ q.used \in {Missing, used} /\ q.limit \in {Missing, limit}
      /\ q.remaining \in {Missing, limit - used}
  BY ToldInPercents
<1>2. /\ UsedOrGone(q) \in {Missing, used}
      /\ Has(q.remaining) /\ Has(q.limit) => UsedOrGone(q) = used
  BY <1>1, ExactHelpers DEF UsedOrGone, Gone, Has
<1>3. LimitOf(q) \in {Missing, limit}
  BY <1>1, ExactHelpers DEF LimitOf, Has
<1>4. UsedOf(q) \in {Missing, used}
  BY <1>1, <1>3, ExactHelpers DEF UsedOf, Has
<1>5. ShareUsed(q) \in Exactly(used, limit)
  BY <1>3, <1>4, ExactHelpers DEF ShareUsed, Exactly, Has, DisplayShare
<1>. QED BY <1>2, <1>5

\* A share that is a whole number of percents, none or more than one, is not
\* taken for a fraction; nor is its rest.
LEMMA PercentsAreNotFractions ==
  ASSUME NEW used, NEW limit, Exact(used, limit)
  PROVE  LET share == Share(used, limit)
         IN /\ \A p \in {share, Whole - share} : ChutesFraction(p) = Clamped(p)
            /\ ~Doubtful(used, limit) =>
                 /\ \A p \in {share, Whole - share} :
                      SyntheticFraction(p) = p /\ DevinFraction(p) = p
                 /\ OneOrLess(share) = share
<1>. DEFINE share == Share(used, limit)
<1>1. PICK percents \in Nat : share = 100 * percents /\ (used <= limit <=> percents <= 100)
  BY ExactShares
<1>2. used \in Nat /\ limit \in Nat
  BY DEF Exact
<1>3. ASSUME ~Doubtful(used, limit) PROVE percents \in 0..100 /\ percents # 1 /\ percents # 99
  BY <1>1, <1>2, <1>3 DEF Doubtful, Whole, Unit
<1>. HIDE DEF share
<1>4. \A p \in {share, Whole - share} : ChutesFraction(p) = Clamped(p)
  <2>1. ASSUME NEW n \in Int PROVE ChutesFraction(100 * n) = Clamped(100 * n)
    BY DEF ChutesFraction, Abs, Unit
  <2>2. Whole - share = 100 * (100 - percents) /\ 100 - percents \in Int
    BY <1>1 DEF Whole, Unit
  <2>3. ChutesFraction(share) = Clamped(share)
    BY <1>1, <2>1
  <2>4. ChutesFraction(Whole - share) = Clamped(Whole - share)
    BY <2>1, <2>2
  <2>. QED BY <2>3, <2>4
<1>5. ASSUME ~Doubtful(used, limit)
      PROVE  /\ \A p \in {share, Whole - share} : SyntheticFraction(p) = p /\ DevinFraction(p) = p
             /\ OneOrLess(share) = share
  BY <1>1, <1>3, <1>5 DEF SyntheticFraction, DevinFraction, OneOrLess, Whole, Unit
<1>. QED BY <1>4, <1>5 DEF share

\* The parsers that clamp what they are told, or a share of it.
LEMMA PercentsAreExact ==
  ASSUME NEW used, NEW limit, Exact(used, limit), NEW q, IsTold(q, used, limit, 1)
  PROVE  /\ ChutesPercent(q) \in Exactly(used, limit)
         /\ MiniMaxPercent(q) \in Exactly(used, limit)
         /\ MiniMaxServicePercent(q) \in Exactly(used, limit)
         /\ AlibabaPercent(q) \in Exactly(used, limit)
         /\ DoubaoCodingPercent(q) \in Exactly(used, limit)
         /\ DoubaoAgentPercent(q) \in Exactly(used, limit)
         /\ FactoryBillingPercent(q) \in Exactly(used, limit)
<1>0. /\ q.used \in {Missing, used} /\ q.limit \in {Missing, limit}
      /\ q.remaining \in {Missing, limit - used}
      /\ q.usedPercent \in {Missing, Share(used, limit)}
      /\ q.leftPercent \in {Missing, Whole - Share(used, limit)}
  BY ToldInPercents
<1>1. ChutesPercent(q) \in Exactly(used, limit)
  BY <1>0, ExactHelpers, ToldFigures, PercentsAreNotFractions DEF ChutesPercent, Exactly, Has
<1>2. MiniMaxPercent(q) \in Exactly(used, limit)
  BY <1>0, ExactHelpers DEF MiniMaxPercent, Exactly, Has
<1>3. MiniMaxServicePercent(q) \in Exactly(used, limit)
  BY <1>0, ExactHelpers DEF MiniMaxServicePercent, Exactly, Has
<1>4. AlibabaPercent(q) \in Exactly(used, limit)
  BY <1>0, ExactHelpers DEF AlibabaPercent, Exactly, Has
<1>5. DoubaoCodingPercent(q) \in Exactly(used, limit)
  BY <1>0, ExactHelpers DEF DoubaoCodingPercent, Exactly, Has
<1>6. DoubaoAgentPercent(q) \in Exactly(used, limit)
  BY <1>0, ExactHelpers DEF DoubaoAgentPercent, Exactly, Has
<1>7. FactoryBillingPercent(q) \in Exactly(used, limit)
  BY <1>0, ExactHelpers DEF FactoryBillingPercent, Exactly, Has, PercentGiven
<1>. QED BY <1>1, <1>2, <1>3, <1>4, <1>5, <1>6, <1>7

\* The parsers of balances, proxies and vendors.
LEMMA AmountsAreExact ==
  ASSUME NEW used, NEW limit, Exact(used, limit), NEW q, IsTold(q, used, limit, 1)
  PROVE  /\ OllamaPercent(q) \in Exactly(used, limit) /\ KiroPercent(q) \in Exactly(used, limit)
         /\ AugmentPercent(q) \in Exactly(used, limit) /\ BothOrNone(q) \in Exactly(used, limit)
         /\ CrofPercent(q) \in Exactly(used, limit)
         /\ LlmProxyPercent(q) \in Exactly(used, limit)
         /\ NeuralWattPercent(q) \in Exactly(used, limit)
         /\ ClinePassPercent(q) \in Exactly(used, limit)
<1>0. /\ q.used \in {Missing, used} /\ q.limit \in {Missing, limit}
      /\ q.remaining \in {Missing, limit - used}
      /\ q.usedPercent \in {Missing, Share(used, limit)}
      /\ q.leftPercent \in {Missing, Whole - Share(used, limit)}
  BY ToldInPercents
<1>1. OllamaPercent(q) \in Exactly(used, limit)
  BY <1>0, ExactHelpers DEF OllamaPercent, Exactly, Has, PercentGiven
<1>2. KiroPercent(q) \in Exactly(used, limit)
  BY <1>0, ExactHelpers DEF KiroPercent, Exactly, Has, ShareOr, DisplayShare
<1>3. AugmentPercent(q) \in Exactly(used, limit)
  BY <1>0, ExactHelpers, ToldFigures DEF AugmentPercent, Exactly, Has, ShareOr, DisplayShare
<1>4. BothOrNone(q) \in Exactly(used, limit)
  BY <1>0, ExactHelpers DEF BothOrNone, Exactly, Has, ShareOr, DisplayShare
<1>5. CrofPercent(q) \in Exactly(used, limit)
  <2>1. PICK percents \in Nat :
          /\ Share(used, limit) = 100 * percents
          /\ (100 * (limit - used)) \div limit = 100 - percents
          /\ used <= limit <=> percents <= 100
    BY ExactShares
  <2>2. used \in Nat /\ limit \in Nat /\ limit > 0
    BY ExactHelpers
  <2>3. CASE Has(q.limit) /\ Has(q.remaining)
    <3>1. q.limit = limit /\ q.remaining = limit - used
      BY <1>0, <2>3 DEF Has
    <3>2. CASE used <= limit
      <4>1. CrofPercent(q) = Whole - Unit * ((100 * (limit - used)) \div limit)
        BY <2>2, <2>3, <3>1, <3>2 DEF CrofPercent, AtLeastZero
      <4>2. CrofPercent(q) = Whole - 100 * (100 - percents)
        BY <2>1, <4>1 DEF Unit
      <4>3. percents <= 100
        BY <2>1, <3>2
      <4>4. Whole - 100 * (100 - percents) = Clamped(100 * percents)
        BY <4>3 DEF Clamped, Whole, Unit
      <4>. QED BY <2>1, <4>2, <4>4 DEF Exactly
    <3>3. CASE used > limit
      <4>1. (100 * 0) \div limit = 0
        BY <2>2, ExactQuotient
      <4>2. CrofPercent(q) = Whole
        <5>1. AtLeastZero(limit) = limit /\ AtLeastZero(limit - used) = 0
          BY <2>2, <3>3 DEF AtLeastZero
        <5>2. ~(limit - used > limit)
          BY <2>2, <3>3
        <5>3. CrofPercent(q) = Whole - Unit * ((100 * 0) \div limit)
          BY <2>2, <2>3, <3>1, <5>1, <5>2 DEF CrofPercent
        <5>. QED BY <4>1, <5>3 DEF Whole, Unit
      <4>3. percents > 100
        BY <2>1, <2>2, <3>3
      <4>4. Clamped(100 * percents) = Whole
        BY <4>3 DEF Clamped, Whole, Unit
      <4>. QED BY <2>1, <4>2, <4>4 DEF Exactly
    <3>. QED BY <2>2, <3>2, <3>3
  <2>4. CASE ~(Has(q.limit) /\ Has(q.remaining))
    BY <2>4 DEF CrofPercent, Exactly
  <2>. QED BY <2>3, <2>4
<1>6. LlmProxyPercent(q) \in Exactly(used, limit)
  BY <1>0, ExactHelpers DEF LlmProxyPercent, Exactly, Has
<1>7. NeuralWattPercent(q) \in Exactly(used, limit)
  <2> DEFINE count == IF Has(q.used) /\ q.used >= 0 THEN q.used ELSE Missing
             left  == IF Has(q.remaining) /\ q.remaining >= 0 THEN q.remaining ELSE Missing
             most  == IF Positive(q.limit) THEN q.limit
                      ELSE IF Has(count) /\ Has(left) THEN count + left ELSE Missing
             r == [q EXCEPT !.used = count, !.limit = most, !.remaining = left]
  <2>1. count \in {Missing, used} /\ left \in {Missing, limit - used}
    BY <1>0
  <2>2. most \in {Missing, limit}
    BY <1>0, <2>1, ExactHelpers DEF Positive, Has
  <2>3. NeuralWattPercent(q) = ShareOrNone(UsedOrGone(r), most)
    BY DEF NeuralWattPercent
  <2> HIDE DEF count, left, most
  <2>4. r.used = count /\ r.limit = most /\ r.remaining = left
    BY DEF IsTold, Quotas
  <2> HIDE DEF r
  <2>5. UsedOrGone(r) \in {Missing, used}
    BY <2>1, <2>2, <2>4, ExactHelpers DEF UsedOrGone, Gone, Has
  <2>. QED BY <2>2, <2>3, <2>5, ExactHelpers DEF ShareOrNone, Positive, Has, Exactly
<1>8. ClinePassPercent(q) \in Exactly(used, limit)
  BY <1>0, ExactHelpers DEF ClinePassPercent, Exactly, Has, PercentGiven
<1>. QED BY <1>1, <1>2, <1>3, <1>4, <1>5, <1>6, <1>7, <1>8

\* The parsers of the clouds, the sessions and the browsers.
LEMMA CountsAreExact ==
  ASSUME NEW used, NEW limit, Exact(used, limit), NEW q, IsTold(q, used, limit, 1)
  PROVE  /\ ClawRouterPercent(q) \in Exactly(used, limit)
         /\ ZedPercent(q) \in Exactly(used, limit) /\ IBMBobPercent(q) \in Exactly(used, limit)
         /\ LiteLlmPercent(q) \in Exactly(used, limit)
         /\ BedrockPercent(q) \in Exactly(used, limit)
         /\ WindsurfPercent(q) \in Exactly(used, limit)
         /\ WindsurfCountPercent(q) \in Exactly(used, limit)
         /\ OpenCodeGoPagePercent(q) \in Exactly(used, limit)
         /\ QwenCloudLegacyPercent(q) \in Exactly(used, limit)
         /\ TokenPlanPercent(q) \in Exactly(used, limit)
         /\ SakanaPercent(q) \in Exactly(used, limit)
         /\ MistralPercent(q) \in Exactly(used, limit)
         /\ AbacusPercent(q) \in Exactly(used, limit)
         /\ LongCatPercent(q) \in Exactly(used, limit)
         /\ QoderPercent(q) \in Exactly(used, limit)
         /\ GrokPercent(q) \in Exactly(used, limit)
         /\ ClaudeSpendPercent(q) \in Exactly(used, limit)
<1>0. /\ q.used \in {Missing, used} /\ q.limit \in {Missing, limit}
      /\ q.remaining \in {Missing, limit - used}
      /\ q.usedPercent \in {Missing, Share(used, limit)}
      /\ q.leftPercent \in {Missing, Whole - Share(used, limit)}
  BY ToldInPercents
<1>1. ClawRouterPercent(q) \in Exactly(used, limit)
  BY <1>0, ExactHelpers DEF ClawRouterPercent, Exactly, Has, Positive, ShareOrNone, DisplayShare
<1>2. ZedPercent(q) \in Exactly(used, limit)
  BY <1>0, ExactHelpers DEF ZedPercent, Exactly, Has, Positive, ShareOrNone, DisplayShare
<1>3. IBMBobPercent(q) \in Exactly(used, limit)
  BY <1>0, ExactHelpers DEF IBMBobPercent, Exactly, Has, Positive, ShareOrNone, DisplayShare
<1>4. LiteLlmPercent(q) \in Exactly(used, limit)
  BY <1>0, ExactHelpers DEF LiteLlmPercent, Exactly, Has, Positive, ShareOrNone, DisplayShare
<1>5. BedrockPercent(q) \in Exactly(used, limit)
  BY <1>0, ExactHelpers DEF BedrockPercent, Exactly, Has, Positive, ShareOrNone, DisplayShare
<1>6. WindsurfPercent(q) \in Exactly(used, limit)
  BY <1>0, ExactHelpers DEF WindsurfPercent, Exactly, Has, Rest
<1>7. WindsurfCountPercent(q) \in Exactly(used, limit)
  BY <1>0, ExactHelpers, ToldFigures DEF WindsurfCountPercent, Exactly, Has, Positive,
     ShareOrNone, DisplayShare
<1>8. OpenCodeGoPagePercent(q) \in Exactly(used, limit)
  BY <1>0, ExactHelpers DEF OpenCodeGoPagePercent, Exactly, Has, PercentGiven
<1>9. QwenCloudLegacyPercent(q) \in Exactly(used, limit)
  BY <1>0, ExactHelpers, ToldFigures DEF QwenCloudLegacyPercent, Exactly, Has, Positive,
     ShareOrNone, DisplayShare
<1>10. TokenPlanPercent(q) \in Exactly(used, limit)
  BY <1>0, ExactHelpers, ToldFigures DEF TokenPlanPercent, Exactly, Has, Positive, ShareOrNone,
     DisplayShare
<1>11. SakanaPercent(q) \in Exactly(used, limit)
  <2>1. Missing \notin 0..Whole
    BY DEF Missing
  <2>. QED BY <1>0, <2>1, ExactHelpers DEF SakanaPercent, Exactly
<1>12. MistralPercent(q) \in Exactly(used, limit)
  <2>1. Missing \notin 0..Whole
    BY DEF Missing
  <2>. QED BY <1>0, <2>1, ExactHelpers DEF MistralPercent, Exactly
<1>13. AbacusPercent(q) \in Exactly(used, limit)
  BY <1>0, ExactHelpers DEF AbacusPercent, Exactly, Has, ShareOr, DisplayShare
<1>14. LongCatPercent(q) \in Exactly(used, limit)
  BY <1>0, ExactHelpers DEF LongCatPercent, Exactly, Has, ShareOr, DisplayShare
<1>15. QoderPercent(q) \in Exactly(used, limit)
  <2>1. Missing \notin 0..Whole
    BY DEF Missing
  <2>. QED BY <1>0, <2>1, ExactHelpers DEF QoderPercent, Exactly, Has, ShareOr
<1>16. GrokPercent(q) \in Exactly(used, limit)
  BY <1>0, ExactHelpers DEF GrokPercent, Exactly, Has, Positive, ShareOrNone, DisplayShare
<1>17. ClaudeSpendPercent(q) \in Exactly(used, limit)
  BY <1>0, ExactHelpers DEF ClaudeSpendPercent, Exactly, Has, Positive
<1>. QED BY <1>1, <1>2, <1>3, <1>4, <1>5, <1>6, <1>7, <1>8, <1>9, <1>10, <1>11, <1>12, <1>13, <1>14, <1>15,
            <1>16, <1>17

\* The parsers that take a number for a fraction, if it is not doubtful.
LEMMA CertainAreExact ==
  ASSUME NEW used, NEW limit, Exact(used, limit), NEW q, IsTold(q, used, limit, 1), ~Doubtful(used, limit)
  PROVE  /\ SyntheticPercent(q) \in Exactly(used, limit)
         /\ OpenCodeGoPercent(q) \in Exactly(used, limit)
         /\ OpenCodePercent(q) \in Exactly(used, limit)
         /\ DevinPercent(q) \in Exactly(used, limit)
<1>0. /\ q.used \in {Missing, used} /\ q.limit \in {Missing, limit}
      /\ q.remaining \in {Missing, limit - used}
      /\ q.usedPercent \in {Missing, Share(used, limit)}
      /\ q.leftPercent \in {Missing, Whole - Share(used, limit)}
  BY ToldInPercents
<1>1. SyntheticPercent(q) \in Exactly(used, limit)
  BY <1>0, ExactHelpers, ToldFigures, PercentsAreNotFractions DEF SyntheticPercent, Exactly, Has
<1>2. OpenCodeGoPercent(q) \in Exactly(used, limit)
  BY <1>0, ExactHelpers, PercentsAreNotFractions DEF OpenCodeGoPercent, Exactly, Has, Positive,
     ShareOrNone, DisplayShare
<1>3. OpenCodePercent(q) \in Exactly(used, limit)
  BY <1>2 DEF OpenCodePercent
<1>4. DevinPercent(q) \in Exactly(used, limit)
  BY <1>0, ExactHelpers, PercentsAreNotFractions DEF DevinPercent, Exactly, Has, Positive,
     ShareOrNone, DisplayShare
<1>. QED BY <1>1, <1>2, <1>3, <1>4

\* The parsers that guess.
LEMMA GuessesAreExact ==
  ASSUME NEW used, NEW limit, Exact(used, limit), NEW q, IsTold(q, used, limit, 1)
  PROVE  /\ CodebuffPercent(q) \in Guesses(used, limit)
         /\ CommandCodePercent(q) \in Guesses(used, limit)
         /\ CursorPercent(q) \in Guesses(used, limit)
         /\ DoubaoProbePercent(q) \in Guesses(used, limit)
         /\ JetBrainsPercent(q) \in Guesses(used, limit)
         /\ KiloPercent(q) \in Guesses(used, limit) /\ KimiPercent(q) \in Guesses(used, limit)
         /\ ManusPercent(q) \in Guesses(used, limit)
         /\ PerplexityPercent(q) \in Guesses(used, limit)
         /\ Sub2ApiPercent(q) \in Guesses(used, limit)
         /\ T3ChatPercent(q) \in Guesses(used, limit)
         /\ VenicePercent(q) \in Guesses(used, limit) /\ WarpPercent(q) \in Guesses(used, limit)
         /\ ZoomMatePercent(q) \in Guesses(used, limit)
         /\ CommandCodeMonthlyPercent(q) \in Guesses(used, limit)
         /\ FactoryExpiredPercent(q) \in Guesses(used, limit)
         /\ KiroManagedPercent(q) \in Guesses(used, limit)
         /\ LongCatFuelPercent(q) \in Guesses(used, limit)
         /\ OpenRouterNullPercent(q) \in Guesses(used, limit)
<1>0. /\ q.used \in {Missing, used} /\ q.limit \in {Missing, limit}
      /\ q.remaining \in {Missing, limit - used}
      /\ q.usedPercent \in {Missing, Share(used, limit)}
      /\ q.leftPercent \in {Missing, Whole - Share(used, limit)}
  BY ToldInPercents
<1>1. CodebuffPercent(q) \in Guesses(used, limit)
  <2> DEFINE most == IF Has(q.limit) THEN AtLeastZero(q.limit)
                     ELSE IF Has(q.used) /\ Has(q.remaining) THEN AtLeastZero(q.used + q.remaining)
                     ELSE Missing
             r == [q EXCEPT !.limit = most]
  <2>1. most \in {Missing, limit}
    BY <1>0, ExactHelpers DEF Has
  <2>2. CodebuffPercent(q) \in
          {NoWindow, Whole} \cup
          (IF Positive(most) THEN {DisplayShare(AtLeastZero(OrZero(UsedOrGone(r))), most)} ELSE {})
    BY DEF CodebuffPercent
  <2> HIDE DEF most
  <2>3. r.used = q.used /\ r.limit = most /\ r.remaining = q.remaining
    BY DEF IsTold, Quotas
  <2> HIDE DEF r
  <2>4. UsedOrGone(r) \in {Missing, used}
    BY <1>0, <2>1, <2>3, ExactHelpers DEF UsedOrGone, Gone, Has
  <2>5. AtLeastZero(OrZero(UsedOrGone(r))) \in {0, used}
    BY <2>4, ExactHelpers DEF OrZero, Has
  <2>6. Positive(most) => most = limit
    BY <2>1, ExactHelpers DEF Positive
  <2>. QED BY <2>2, <2>5, <2>6, ExactHelpers DEF Guesses, Exactly
<1>2. CommandCodePercent(q) \in Guesses(used, limit)
  BY <1>0, ExactHelpers DEF CommandCodePercent, Guesses, Exactly, Has, Positive, ShareOrNone,
     DisplayShare, OrZero
<1>3. CursorPercent(q) \in Guesses(used, limit)
  BY <1>0, ExactHelpers DEF CursorPercent, Guesses, Exactly, Has, Positive, DisplayShare
<1>4. DoubaoProbePercent(q) \in Guesses(used, limit)
  BY <1>0, ExactHelpers DEF DisplayShare, DoubaoProbePercent, Guesses, Exactly, Has
<1>5. JetBrainsPercent(q) \in Guesses(used, limit)
  BY <1>0, ExactHelpers DEF JetBrainsPercent, Guesses, Exactly, Has, ShareOr, DisplayShare, OrZero
<1>6. KiloPercent(q) \in Guesses(used, limit)
  BY <1>0, ExactHelpers DEF KiloPercent, Guesses, Exactly, Has, ShareOr, DisplayShare, OrZero
<1>7. KimiPercent(q) \in Guesses(used, limit)
  BY <1>0, ExactHelpers, ToldFigures DEF KimiPercent, Guesses, Exactly, Has, ShareOr,
     DisplayShare, OrZero
<1>8. ManusPercent(q) \in Guesses(used, limit)
  BY <1>0, ExactHelpers DEF ManusPercent, Guesses, Exactly, Has, Positive, ShareOrNone,
     DisplayShare, OrZero
<1>9. PerplexityPercent(q) \in Guesses(used, limit)
  BY <1>0, ExactHelpers DEF PerplexityPercent, Guesses, Exactly, Has, ShareOr, DisplayShare, OrZero
<1>10. Sub2ApiPercent(q) \in Guesses(used, limit)
  BY <1>0, ExactHelpers DEF Sub2ApiPercent, Guesses, Exactly, Has, Positive, ShareOrNone,
     DisplayShare, OrZero
<1>11. T3ChatPercent(q) \in Guesses(used, limit)
  BY <1>0, ExactHelpers DEF T3ChatPercent, Guesses, Exactly, Has, OrZero
<1>12. VenicePercent(q) \in Guesses(used, limit)
  BY <1>0, ExactHelpers DEF VenicePercent, Guesses, Exactly, Has, Positive, DisplayShare
<1>13. WarpPercent(q) \in Guesses(used, limit)
  BY <1>0, ExactHelpers DEF DisplayShare, WarpPercent, Guesses, Exactly, Has
<1>14. ZoomMatePercent(q) \in Guesses(used, limit)
  BY <1>0, ExactHelpers DEF ZoomMatePercent, Guesses, Exactly, Has, ShareOr, DisplayShare, OrZero
<1>15. CommandCodeMonthlyPercent(q) \in Guesses(used, limit)
  BY <1>0, ExactHelpers DEF CommandCodeMonthlyPercent, Guesses, Exactly, Has, Positive, Gone
<1>16. FactoryExpiredPercent(q) \in Guesses(used, limit)
  BY DEF FactoryExpiredPercent, Guesses, Exactly
<1>17. KiroManagedPercent(q) \in Guesses(used, limit)
  BY <1>0, ExactHelpers DEF KiroManagedPercent, KiroPercent, Guesses, Exactly, Has, ShareOr, DisplayShare
<1>18. LongCatFuelPercent(q) \in Guesses(used, limit)
  <2>1. q.limit = limit => AtLeastZero(q.limit - AtLeastZero(OrZero(q.remaining))) \in {used, limit}
    BY <1>0, ExactHelpers DEF AtLeastZero, OrZero, Has
  <2>. QED BY <1>0, <2>1, ExactHelpers DEF LongCatFuelPercent, Guesses, Exactly, Positive, ShareOrNone
<1>19. OpenRouterNullPercent(q) \in Guesses(used, limit)
  BY <1>0, ExactHelpers DEF OpenRouterNullPercent, Guesses, Exactly, Has, ShareOr, DisplayShare, OrZero
<1>. QED BY <1>1, <1>2, <1>3, <1>4, <1>5, <1>6, <1>7, <1>8, <1>9, <1>10, <1>11, <1>12, <1>13, <1>14, <1>15,
            <1>16, <1>17, <1>18, <1>19

\* The parsers that show what they are told, more than everything included.
Overdraws(used, limit) == Exactly(used, limit) \cup {Share(used, limit)}

\* Each of these parsers shows one of those values.
LEMMA OverdraftsAreExact ==
  ASSUME NEW used, NEW limit, Exact(used, limit), NEW q, IsTold(q, used, limit, 1)
  PROVE  /\ CopilotPercent(q) \in Overdraws(used, limit) /\ NotionPercent(q) \in Overdraws(used, limit)
         /\ CodexPercent(q) \in Overdraws(used, limit) /\ ClaudePercent(q) \in Overdraws(used, limit)
         /\ ClaudeCliPercent(q) \in Overdraws(used, limit)
         /\ ZaiPercent(q) \in Overdraws(used, limit) \cup {0}
         /\ GrokWebPercent(q) \in Overdraws(used, limit) \cup {0}
         /\ CodexNullPercent(q) \in Overdraws(used, limit) \cup {0}
         /\ ClaudeUntoldPercent(q) \in Overdraws(used, limit) \cup {0}
<1>0. /\ q.used \in {Missing, used} /\ q.limit \in {Missing, limit}
      /\ q.remaining \in {Missing, limit - used}
      /\ q.usedPercent \in {Missing, Share(used, limit)}
      /\ q.leftPercent \in {Missing, Whole - Share(used, limit)}
  BY ToldInPercents
<1>1. CopilotPercent(q) \in Overdraws(used, limit)
  BY <1>0, ExactHelpers DEF CopilotPercent, Overdraws, Exactly, Has, Positive
<1>2. NotionPercent(q) \in Overdraws(used, limit)
  BY <1>0, ExactHelpers DEF NotionPercent, Overdraws, Exactly, Has, Positive
<1>3. CodexPercent(q) \in Overdraws(used, limit) /\ ClaudePercent(q) \in Overdraws(used, limit)
  BY <1>0, ExactHelpers DEF CodexPercent, ClaudePercent, ToldPercent, Overdraws, Exactly, Has
<1>4. ClaudeCliPercent(q) \in Overdraws(used, limit)
  BY <1>0, ExactHelpers DEF ClaudeCliPercent, PercentGiven, Overdraws, Exactly, Has
<1>5. ZaiPercent(q) \in Overdraws(used, limit) \cup {0}
  <2> DEFINE gone  == IF Has(q.remaining) THEN {q.limit - q.remaining} ELSE {}
             count == IF Has(q.used) THEN {q.used} ELSE {}
             most  == CHOOSE u \in gone \cup count : \A v \in gone \cup count : u >= v
  <2>1. CASE Positive(q.limit) /\ gone \cup count # {}
    <3>1. q.limit = limit
      BY <1>0, <2>1 DEF Positive, Has
    <3>2. gone \cup count = {used}
      BY <1>0, <2>1, <3>1, ExactHelpers DEF Has
    <3>3. most = used
      BY <3>2, ExactHelpers
    <3>4. ZaiPercent(q) = DisplayShare(most, q.limit)
      BY <2>1 DEF ZaiPercent
    <3>. HIDE DEF gone, count, most
    <3>5. ZaiPercent(q) = Clamped(Share(used, limit))
      BY <3>1, <3>3, <3>4, ExactHelpers
    <3>. QED BY <3>5 DEF Overdraws, Exactly
  <2>2. CASE ~(Positive(q.limit) /\ gone \cup count # {})
    <3>1. ZaiPercent(q) = OrZero(q.usedPercent)
      BY <2>2 DEF ZaiPercent
    <3>2. OrZero(q.usedPercent) \in {0, Share(used, limit)}
      BY <1>0 DEF OrZero, Has
    <3>. HIDE DEF gone, count, most
    <3>. QED BY <3>1, <3>2 DEF Overdraws
  <2>. QED BY <2>1, <2>2
<1>6. GrokWebPercent(q) \in Overdraws(used, limit) \cup {0}
  BY <1>0, ExactHelpers DEF GrokWebPercent, OrZero, Overdraws, Has
<1>7. CodexNullPercent(q) \in Overdraws(used, limit) \cup {0}
  BY <1>0, ExactHelpers DEF CodexNullPercent, OrZero, Overdraws, Has
<1>8. ClaudeUntoldPercent(q) \in Overdraws(used, limit) \cup {0}
  BY <1>0, ExactHelpers DEF ClaudeUntoldPercent, OrZero, Overdraws, Has
<1>. QED BY <1>1, <1>2, <1>3, <1>4, <1>5, <1>6, <1>7, <1>8

\* In fractions the figures are the share and its rest in whole percents.
LEMMA ToldInFractions ==
  ASSUME NEW used, NEW limit, Exact(used, limit), NEW q, IsTold(q, used, limit, Unit)
  PROVE  /\ q.used \in {Missing, used} /\ q.limit \in {Missing, limit}
         /\ q.remaining \in {Missing, limit - used}
         /\ \E percents \in Nat :
              /\ Share(used, limit) = 100 * percents
              /\ q.usedPercent \in {Missing, percents}
              /\ q.leftPercent \in {Missing, 100 - percents}
              /\ Has(percents) /\ Has(100 - percents)
              /\ used <= limit <=> percents <= 100
<1>1. PICK percents \in Nat :
        Share(used, limit) = 100 * percents /\ (used <= limit <=> percents <= 100)
  BY ExactShares
<1>2. (100 * percents) \div Unit = percents /\ (Whole - 100 * percents) \div Unit = 100 - percents
  BY DEF Whole, Unit
<1>3. Has(percents) /\ Has(100 - percents)
  <2>1. Has(percents)
    BY DEF Has, Missing
  <2>2. Has(100 - percents)
    BY <1>1, <1>2 DEF Exact, Has
  <2>. QED BY <2>1, <2>2
<1>4. q.usedPercent \in {Missing, percents} /\ q.leftPercent \in {Missing, 100 - percents}
  BY <1>1, <1>2 DEF IsTold
<1>. QED BY <1>1, <1>3, <1>4 DEF IsTold

\* The parsers of the servers that speak in fractions.
LEMMA FractionsAreExact ==
  ASSUME NEW used, NEW limit, Exact(used, limit), NEW q, IsTold(q, used, limit, Unit)
  PROVE  /\ GeminiPercent(q) \in Exactly(used, limit) /\ AntigravityPercent(q) \in Exactly(used, limit)
         /\ StepFunPercent(q) \in Exactly(used, limit) /\ ZenMuxPercent(q) \in Exactly(used, limit)
         /\ QwenCloudPercent(q) \in Exactly(used, limit) /\ MiMoPercent(q) \in Exactly(used, limit)
         /\ ~Doubtful(used, limit) =>
              /\ OpenCodeGoPercent(q) \in Exactly(used, limit)
              /\ OpenCodePercent(q) \in Exactly(used, limit)
              /\ DevinPercent(q) \in Exactly(used, limit)
              /\ FactoryLegacyPercent(q) \in Guesses(used, limit)
<1>1. PICK percents \in Nat :
        /\ Share(used, limit) = 100 * percents
        /\ q.usedPercent \in {Missing, percents} /\ q.leftPercent \in {Missing, 100 - percents}
        /\ Has(percents) /\ Has(100 - percents)
        /\ used <= limit <=> percents <= 100
  BY ToldInFractions
<1>2. /\ q.used \in {Missing, used} /\ q.limit \in {Missing, limit}
      /\ q.remaining \in {Missing, limit - used}
  BY ToldInFractions
<1>3. /\ percents * 100 = 100 * percents /\ (Unit - (100 - percents)) * 100 = 100 * percents
      /\ Whole - (100 - percents) * 100 = 100 * percents
  BY DEF Whole, Unit
<1>4. FractionRest(q.leftPercent) \in Exactly(used, limit)
  BY <1>1, <1>3 DEF FractionRest, Exactly, Has
<1>5. FractionGiven(q.usedPercent) \in Exactly(used, limit)
  BY <1>1, <1>3 DEF FractionGiven, Exactly, Has
<1>6. /\ GeminiPercent(q) \in Exactly(used, limit) /\ AntigravityPercent(q) \in Exactly(used, limit)
      /\ StepFunPercent(q) \in Exactly(used, limit)
  BY <1>4 DEF GeminiPercent, AntigravityPercent, StepFunPercent
<1>7. /\ ZenMuxPercent(q) \in Exactly(used, limit) /\ QwenCloudPercent(q) \in Exactly(used, limit)
      /\ MiMoPercent(q) \in Exactly(used, limit)
  BY <1>5 DEF ZenMuxPercent, QwenCloudPercent, MiMoPercent, Exactly
<1>8. ASSUME ~Doubtful(used, limit)
      PROVE  /\ OpenCodeGoPercent(q) \in Exactly(used, limit)
             /\ OpenCodePercent(q) \in Exactly(used, limit)
             /\ DevinPercent(q) \in Exactly(used, limit)
             /\ FactoryLegacyPercent(q) \in Guesses(used, limit)
  <2>1. percents <= 100
    BY <1>1, <1>8, ExactHelpers DEF Doubtful
  <2>2. /\ OneOrLess(percents) = 100 * percents /\ DevinFraction(percents) = 100 * percents
        /\ Whole - DevinFraction(100 - percents) = 100 * percents
    BY <1>3, <2>1 DEF OneOrLess, DevinFraction, Unit
  <2>3. OpenCodeGoPercent(q) \in Exactly(used, limit)
    BY <1>1, <1>2, <2>2, ExactHelpers DEF OpenCodeGoPercent, ShareOrNone, Positive, Exactly, Has
  <2>4. OpenCodePercent(q) \in Exactly(used, limit)
    BY <2>3 DEF OpenCodePercent
  <2>5. DevinPercent(q) \in Exactly(used, limit)
    BY <1>1, <1>2, <2>2, ExactHelpers DEF DevinPercent, ShareOrNone, Positive, Exactly, Has
  <2>6. FactoryLegacyPercent(q) \in Guesses(used, limit)
    <3>1. CASE q.usedPercent = Missing
      <4>1. Missing \notin 0..Unit
        BY DEF Missing
      <4>. QED BY <1>2, <3>1, ExactHelpers DEF FactoryLegacyPercent, Positive, Guesses, Exactly, Has
    <3>2. CASE q.usedPercent = percents
      <4>1. percents \in 0..Unit
        BY <2>1 DEF Unit
      <4>. QED BY <1>1, <1>2, <1>3, <3>2, <4>1, ExactHelpers
               DEF FactoryLegacyPercent, Positive, Guesses, Exactly, Has
    <3>. QED BY <1>1, <3>1, <3>2
  <2>. QED BY <2>3, <2>4, <2>5, <2>6
<1>. QED BY <1>6, <1>7, <1>8

\* A provider's windows tell an exact quota truly, whatever part of it is told,
\* and only those that guess show nothing or everything instead.
LEMMA WindowsAreExact ==
  ASSUME NEW used, NEW limit, Exact(used, limit)
  PROVE  \A provider \in DOMAIN Windows : \A k \in DOMAIN Windows[provider] : \A q :
           /\ IsTold(q, used, limit, Windows[provider][k].scale)
           /\ Doubtful(used, limit) => provider \notin Ambiguous
           => Windows[provider][k].percent[q] \in
                Exactly(used, limit) \cup (IF provider \in Overdrawn THEN {Share(used, limit)} ELSE {})
                                    \cup (IF <<provider, k>> \in Guessers THEN {0, Whole} ELSE {})
<1>. DEFINE TellsAt(p, k, shown) ==
              \A q : IsTold(q, used, limit, Windows[p][k].scale) => Windows[p][k].percent[q] \in shown
            Tells(p, shown) == \A k \in DOMAIN Windows[p] : TellsAt(p, k, shown)
<1>0. \A q, scale : IsTold(q, used, limit, scale) => q \in Quotas
  BY DEF IsTold
<1>1. Tells("chutes", Exactly(used, limit))
  <2>1. Windows["chutes"] = <<Of(ChutesPercent)>>
    BY SMTT(30) DEF Windows, Of
  <2>. QED BY <1>0, <2>1, PercentsAreExact DEF Of
<1>2. ~Doubtful(used, limit) => Tells("synthetic", Exactly(used, limit))
  <2>1. Windows["synthetic"] = <<Of(SyntheticPercent)>>
    BY SMTT(30) DEF Windows, Of
  <2>. QED BY <1>0, <2>1, CertainAreExact DEF Of
<1>3. Tells("warp", Guesses(used, limit))
  <2>1. Windows["warp"] = <<Of(WarpPercent)>>
    BY SMTT(30) DEF Windows, Of
  <2>. QED BY <1>0, <2>1, GuessesAreExact DEF Of
<1>4. Tells("minimax", Exactly(used, limit))
  <2>1. Windows["minimax"] = <<Of(MiniMaxPercent), Of(MiniMaxServicePercent)>>
    BY SMTT(30) DEF Windows, Of
  <2>. QED BY <1>0, <2>1, PercentsAreExact DEF Of
<1>5. Tells("alibaba", Exactly(used, limit))
  <2>1. Windows["alibaba"] = <<Of(AlibabaPercent)>>
    BY SMTT(30) DEF Windows, Of
  <2>. QED BY <1>0, <2>1, PercentsAreExact DEF Of
<1>6. Tells("gemini", Exactly(used, limit))
  <2>1. Windows["gemini"] = <<InFractions(GeminiPercent)>>
    BY SMTT(30) DEF Windows, InFractions
  <2>. QED BY <1>0, <2>1, FractionsAreExact DEF InFractions
<1>7. Tells("antigravity", Exactly(used, limit))
  <2>1. Windows["antigravity"] = <<InFractions(AntigravityPercent)>>
    BY SMTT(30) DEF Windows, InFractions
  <2>. QED BY <1>0, <2>1, FractionsAreExact DEF InFractions
<1>8. Tells("ollama", Exactly(used, limit))
  <2>1. Windows["ollama"] = <<Of(OllamaPercent)>>
    BY SMTT(30) DEF Windows, Of
  <2>. QED BY <1>0, <2>1, AmountsAreExact DEF Of
<1>9. Tells("augment", Exactly(used, limit))
  <2>1. Windows["augment"] = <<Of(AugmentPercent)>>
    BY SMTT(30) DEF Windows, Of
  <2>. QED BY <1>0, <2>1, AmountsAreExact DEF Of
<1>10. Tells("elevenlabs", Exactly(used, limit))
  <2>1. Windows["elevenlabs"] = <<Of(ElevenLabsPercent)>>
    BY SMTT(30) DEF Windows, Of
  <2>. QED BY <1>0, <2>1, AmountsAreExact DEF Of, ElevenLabsPercent
<1>11. Tells("crof", Exactly(used, limit))
  <2>1. Windows["crof"] = <<Of(CrofPercent)>>
    BY SMTT(30) DEF Windows, Of
  <2>. QED BY <1>0, <2>1, AmountsAreExact DEF Of
<1>12. Tells("venice", Guesses(used, limit))
  <2>1. Windows["venice"] = <<Of(VenicePercent)>>
    BY SMTT(30) DEF Windows, Of
  <2>. QED BY <1>0, <2>1, GuessesAreExact DEF Of
<1>13. Tells("zenmux", Exactly(used, limit))
  <2>1. Windows["zenmux"] = <<InFractions(ZenMuxPercent)>>
    BY SMTT(30) DEF Windows, InFractions
  <2>. QED BY <1>0, <2>1, FractionsAreExact DEF InFractions
<1>14. Tells("kilo", Guesses(used, limit))
  <2>1. Windows["kilo"] = <<Of(KiloPercent)>>
    BY SMTT(30) DEF Windows, Of
  <2>. QED BY <1>0, <2>1, GuessesAreExact DEF Of
<1>15. Tells("clawrouter", Exactly(used, limit))
  <2>1. Windows["clawrouter"] = <<Of(ClawRouterPercent)>>
    BY SMTT(30) DEF Windows, Of
  <2>. QED BY <1>0, <2>1, CountsAreExact DEF Of
<1>16. Tells("llmproxy", Exactly(used, limit))
  <2>1. Windows["llmproxy"] = <<Of(LlmProxyPercent)>>
    BY SMTT(30) DEF Windows, Of
  <2>. QED BY <1>0, <2>1, AmountsAreExact DEF Of
<1>17. Tells("zai", Overdraws(used, limit) \cup {0, Whole})
  <2>1. Windows["zai"] = <<Of(ZaiPercent)>>
    BY SMTT(30) DEF Windows, Of
  <2>. QED BY <1>0, <2>1, OverdraftsAreExact DEF Of, Guesses, Overdraws
<1>18. Tells("copilot", Overdraws(used, limit))
  <2>1. Windows["copilot"] = <<Of(CopilotPercent)>>
    BY SMTT(30) DEF Windows, Of
  <2>. QED BY <1>0, <2>1, OverdraftsAreExact DEF Of
<1>19. Tells("neuralwatt", Exactly(used, limit))
  <2>1. Windows["neuralwatt"] = <<Of(NeuralWattPercent)>>
    BY SMTT(30) DEF Windows, Of
  <2>. QED BY <1>0, <2>1, AmountsAreExact DEF Of
<1>20. Tells("codebuff", Guesses(used, limit))
  <2>1. Windows["codebuff"] = <<Of(CodebuffPercent)>>
    BY SMTT(30) DEF Windows, Of
  <2>. QED BY <1>0, <2>1, GuessesAreExact DEF Of
<1>21. Tells("clinepass", Exactly(used, limit))
  <2>1. Windows["clinepass"] = <<Of(ClinePassPercent)>>
    BY SMTT(30) DEF Windows, Of
  <2>. QED BY <1>0, <2>1, AmountsAreExact DEF Of
<1>22. Tells("jetbrains", Guesses(used, limit))
  <2>1. Windows["jetbrains"] = <<Of(JetBrainsPercent)>>
    BY SMTT(30) DEF Windows, Of
  <2>. QED BY <1>0, <2>1, GuessesAreExact DEF Of
<1>23. Tells("zed", Exactly(used, limit))
  <2>1. Windows["zed"] = <<Of(ZedPercent)>>
    BY SMTT(30) DEF Windows, Of
  <2>. QED BY <1>0, <2>1, CountsAreExact DEF Of
<1>24. Tells("windsurf", Exactly(used, limit))
  <2>1. Windows["windsurf"] = <<Of(WindsurfPercent), Of(WindsurfCountPercent)>>
    BY SMTT(30) DEF Windows, Of
  <2>. QED BY <1>0, <2>1, CountsAreExact DEF Of
<1>25. Tells("ibmbob", Exactly(used, limit))
  <2>1. Windows["ibmbob"] = <<Of(IBMBobPercent)>>
    BY SMTT(30) DEF Windows, Of
  <2>. QED BY <1>0, <2>1, CountsAreExact DEF Of
<1>26. Tells("stepfun", Exactly(used, limit))
  <2>1. Windows["stepfun"] = <<InFractions(StepFunPercent)>>
    BY SMTT(30) DEF Windows, InFractions
  <2>. QED BY <1>0, <2>1, FractionsAreExact DEF InFractions
<1>27. Tells("zoommate", Guesses(used, limit))
  <2>1. Windows["zoommate"] = <<Of(ZoomMatePercent)>>
    BY SMTT(30) DEF Windows, Of
  <2>. QED BY <1>0, <2>1, GuessesAreExact DEF Of
<1>28. Tells("notion", Overdraws(used, limit))
  <2>1. Windows["notion"] = <<Of(NotionPercent)>>
    BY SMTT(30) DEF Windows, Of
  <2>. QED BY <1>0, <2>1, OverdraftsAreExact DEF Of
<1>29. ~Doubtful(used, limit) => Tells("opencodego", Exactly(used, limit))
  <2>1. Windows["opencodego"] =
         <<Of(OpenCodeGoPercent), InFractions(OpenCodeGoPercent), Of(OpenCodeGoPagePercent)>>
    BY SMTT(30) DEF Windows, Of, InFractions
  <2>. QED BY <1>0, <2>1, CertainAreExact, CountsAreExact, FractionsAreExact DEF Of, InFractions
<1>30. Tells("qwencloud", Exactly(used, limit))
  <2>1. Windows["qwencloud"] = <<InFractions(QwenCloudPercent), Of(QwenCloudLegacyPercent)>>
    BY SMTT(30) DEF Windows, Of, InFractions
  <2>. QED BY <1>0, <2>1, CountsAreExact, FractionsAreExact DEF Of, InFractions
<1>31. Tells("litellm", Exactly(used, limit))
  <2>1. Windows["litellm"] = <<Of(LiteLlmPercent)>>
    BY SMTT(30) DEF Windows, Of
  <2>. QED BY <1>0, <2>1, CountsAreExact DEF Of
<1>32. Tells("sub2api", Guesses(used, limit))
  <2>1. Windows["sub2api"] = <<Of(Sub2ApiPercent)>>
    BY SMTT(30) DEF Windows, Of
  <2>. QED BY <1>0, <2>1, GuessesAreExact DEF Of
<1>33. Tells("bedrock", Exactly(used, limit))
  <2>1. Windows["bedrock"] = <<Of(BedrockPercent)>>
    BY SMTT(30) DEF Windows, Of
  <2>. QED BY <1>0, <2>1, CountsAreExact DEF Of
<1>34. Tells("cursor", Guesses(used, limit))
  <2>1. Windows["cursor"] = <<Of(CursorPercent)>>
    BY SMTT(30) DEF Windows, Of
  <2>. QED BY <1>0, <2>1, GuessesAreExact DEF Of
<1>35. ~Doubtful(used, limit) => Tells("opencode", Exactly(used, limit))
  <2>1. Windows["opencode"] = <<Of(OpenCodePercent), InFractions(OpenCodePercent)>>
    BY SMTT(30) DEF Windows, Of, InFractions
  <2>. QED BY <1>0, <2>1, CertainAreExact, FractionsAreExact DEF Of, InFractions
<1>36. ~Doubtful(used, limit) => Tells("devin", Exactly(used, limit))
  <2>1. Windows["devin"] = <<Of(DevinPercent), InFractions(DevinPercent)>>
    BY SMTT(30) DEF Windows, Of, InFractions
  <2>. QED BY <1>0, <2>1, CertainAreExact, FractionsAreExact DEF Of, InFractions
<1>37. Tells("manus", Guesses(used, limit))
  <2>1. Windows["manus"] = <<Of(ManusPercent)>>
    BY SMTT(30) DEF Windows, Of
  <2>. QED BY <1>0, <2>1, GuessesAreExact DEF Of
<1>38. Tells("t3chat", Guesses(used, limit))
  <2>1. Windows["t3chat"] = <<Of(T3ChatPercent)>>
    BY SMTT(30) DEF Windows, Of
  <2>. QED BY <1>0, <2>1, GuessesAreExact DEF Of
<1>39. Tells("sakana", Exactly(used, limit))
  <2>1. Windows["sakana"] = <<Of(SakanaPercent)>>
    BY SMTT(30) DEF Windows, Of
  <2>. QED BY <1>0, <2>1, CountsAreExact DEF Of
<1>40. Tells("abacus", Exactly(used, limit))
  <2>1. Windows["abacus"] = <<Of(AbacusPercent)>>
    BY SMTT(30) DEF Windows, Of
  <2>. QED BY <1>0, <2>1, CountsAreExact DEF Of
<1>41. Tells("mistral", Exactly(used, limit))
  <2>1. Windows["mistral"] = <<Of(MistralPercent)>>
    BY SMTT(30) DEF Windows, Of
  <2>. QED BY <1>0, <2>1, CountsAreExact DEF Of
<1>42. Tells("commandcode", Guesses(used, limit))
  <2>1. Windows["commandcode"] = <<Of(CommandCodePercent), Of(CommandCodeMonthlyPercent)>>
    BY SMTT(30) DEF Windows, Of
  <2>. QED BY <1>0, <2>1, GuessesAreExact DEF Of
<1>43. Tells("qoder", Exactly(used, limit))
  <2>1. Windows["qoder"] = <<Of(QoderPercent)>>
    BY SMTT(30) DEF Windows, Of
  <2>. QED BY <1>0, <2>1, CountsAreExact DEF Of
<1>44. Tells("perplexity", Guesses(used, limit))
  <2>1. Windows["perplexity"] = <<Of(PerplexityPercent)>>
    BY SMTT(30) DEF Windows, Of
  <2>. QED BY <1>0, <2>1, GuessesAreExact DEF Of
<1>45. Tells("alibabatokenplan", Exactly(used, limit))
  <2>1. Windows["alibabatokenplan"] = <<Of(TokenPlanPercent)>>
    BY SMTT(30) DEF Windows, Of
  <2>. QED BY <1>0, <2>1, CountsAreExact DEF Of
<1>46. Tells("mimo", Exactly(used, limit))
  <2>1. Windows["mimo"] = <<InFractions(MiMoPercent)>>
    BY SMTT(30) DEF Windows, InFractions
  <2>. QED BY <1>0, <2>1, FractionsAreExact DEF InFractions
<1>47. Tells("kimi", Guesses(used, limit))
  <2>1. Windows["kimi"] = <<Of(KimiPercent)>>
    BY SMTT(30) DEF Windows, Of
  <2>. QED BY <1>0, <2>1, GuessesAreExact DEF Of
<1>48. /\ DOMAIN Windows["warp"] = {1} /\ DOMAIN Windows["venice"] = {1}
       /\ DOMAIN Windows["kilo"] = {1}
  BY SMTT(30) DEF Windows, Of
<1>49. /\ DOMAIN Windows["codebuff"] = {1} /\ DOMAIN Windows["jetbrains"] = {1}
       /\ DOMAIN Windows["zoommate"] = {1}
  BY SMTT(30) DEF Windows, Of
<1>50. /\ DOMAIN Windows["sub2api"] = {1} /\ DOMAIN Windows["cursor"] = {1}
       /\ DOMAIN Windows["manus"] = {1}
  BY SMTT(30) DEF Windows, Of
<1>51. /\ DOMAIN Windows["t3chat"] = {1} /\ DOMAIN Windows["perplexity"] = {1}
       /\ DOMAIN Windows["kimi"] = {1}
  BY SMTT(30) DEF Windows, Of
<1>52. DOMAIN Windows["zai"] = {1}
  BY SMTT(30) DEF Windows, Of
<1>53. DOMAIN Windows["commandcode"] = {1, 2}
  BY SMTT(30) DEF Windows, Of
<1>54. /\ DOMAIN Windows["doubao"] = 1..3
       /\ TellsAt("doubao", 1, Exactly(used, limit))
       /\ TellsAt("doubao", 2, Exactly(used, limit))
       /\ TellsAt("doubao", 3, Guesses(used, limit))
  <2>1. Windows["doubao"] = <<Of(DoubaoCodingPercent), Of(DoubaoAgentPercent), Of(DoubaoProbePercent)>>
    BY SMTT(30) DEF Windows, Of
  <2>2. DOMAIN Windows["doubao"] = 1..3
    BY <2>1
  <2>3. TellsAt("doubao", 1, Exactly(used, limit))
    BY <1>0, <2>1, PercentsAreExact DEF Of
  <2>4. TellsAt("doubao", 2, Exactly(used, limit))
    BY <1>0, <2>1, PercentsAreExact DEF Of
  <2>5. TellsAt("doubao", 3, Guesses(used, limit))
    BY <1>0, <2>1, GuessesAreExact DEF Of
  <2>. QED BY <2>2, <2>3, <2>4, <2>5
<1>55. /\ DOMAIN Windows["factory"] = 1..3
       /\ ~Doubtful(used, limit) => TellsAt("factory", 1, Guesses(used, limit))
       /\ TellsAt("factory", 2, Exactly(used, limit))
       /\ TellsAt("factory", 3, Guesses(used, limit))
  <2>1. Windows["factory"] =
         <<InFractions(FactoryLegacyPercent), Of(FactoryBillingPercent), Of(FactoryExpiredPercent)>>
    BY SMTT(30) DEF Windows, Of, InFractions
  <2>2. DOMAIN Windows["factory"] = 1..3
    BY <2>1
  <2>3. ~Doubtful(used, limit) => TellsAt("factory", 1, Guesses(used, limit))
    BY <1>0, <2>1, FractionsAreExact DEF InFractions
  <2>4. TellsAt("factory", 2, Exactly(used, limit))
    BY <1>0, <2>1, PercentsAreExact DEF Of
  <2>5. TellsAt("factory", 3, Guesses(used, limit))
    BY <1>0, <2>1, GuessesAreExact DEF Of
  <2>. QED BY <2>2, <2>3, <2>4, <2>5
<1>56. /\ DOMAIN Windows["kiro"] = 1..2
       /\ TellsAt("kiro", 1, Exactly(used, limit))
       /\ TellsAt("kiro", 2, Guesses(used, limit))
  <2>1. Windows["kiro"] = <<Of(KiroPercent), Of(KiroManagedPercent)>>
    BY SMTT(30) DEF Windows, Of
  <2>2. DOMAIN Windows["kiro"] = 1..2
    BY <2>1
  <2>3. TellsAt("kiro", 1, Exactly(used, limit))
    BY <1>0, <2>1, AmountsAreExact DEF Of
  <2>4. TellsAt("kiro", 2, Guesses(used, limit))
    BY <1>0, <2>1, GuessesAreExact DEF Of
  <2>. QED BY <2>2, <2>3, <2>4
<1>57. /\ DOMAIN Windows["openrouter"] = 1..2
       /\ TellsAt("openrouter", 1, Exactly(used, limit))
       /\ TellsAt("openrouter", 2, Guesses(used, limit))
  <2>1. Windows["openrouter"] = <<Of(OpenRouterPercent), Of(OpenRouterNullPercent)>>
    BY SMTT(30) DEF Windows, Of
  <2>2. DOMAIN Windows["openrouter"] = 1..2
    BY <2>1
  <2>3. TellsAt("openrouter", 1, Exactly(used, limit))
    BY <1>0, <2>1, AmountsAreExact DEF Of, OpenRouterPercent
  <2>4. TellsAt("openrouter", 2, Guesses(used, limit))
    BY <1>0, <2>1, GuessesAreExact DEF Of
  <2>. QED BY <2>2, <2>3, <2>4
<1>58. /\ DOMAIN Windows["longcat"] = 1..2
       /\ TellsAt("longcat", 1, Exactly(used, limit))
       /\ TellsAt("longcat", 2, Guesses(used, limit))
  <2>1. Windows["longcat"] = <<Of(LongCatPercent), Of(LongCatFuelPercent)>>
    BY SMTT(30) DEF Windows, Of
  <2>2. DOMAIN Windows["longcat"] = 1..2
    BY <2>1
  <2>3. TellsAt("longcat", 1, Exactly(used, limit))
    BY <1>0, <2>1, CountsAreExact DEF Of
  <2>4. TellsAt("longcat", 2, Guesses(used, limit))
    BY <1>0, <2>1, GuessesAreExact DEF Of
  <2>. QED BY <2>2, <2>3, <2>4
<1>59. /\ DOMAIN Windows["grok"] = 1..2
       /\ TellsAt("grok", 1, Exactly(used, limit))
       /\ TellsAt("grok", 2, Overdraws(used, limit) \cup {0})
  <2>1. Windows["grok"] = <<Of(GrokPercent), Of(GrokWebPercent)>>
    BY SMTT(30) DEF Windows, Of
  <2>2. DOMAIN Windows["grok"] = 1..2
    BY <2>1
  <2>3. TellsAt("grok", 1, Exactly(used, limit))
    BY <1>0, <2>1, CountsAreExact DEF Of
  <2>4. TellsAt("grok", 2, Overdraws(used, limit) \cup {0})
    BY <1>0, <2>1, OverdraftsAreExact DEF Of
  <2>. QED BY <2>2, <2>3, <2>4
<1>60. /\ DOMAIN Windows["codex"] = 1..2
       /\ TellsAt("codex", 1, Overdraws(used, limit))
       /\ TellsAt("codex", 2, Overdraws(used, limit) \cup {0})
  <2>1. Windows["codex"] = <<Of(CodexPercent), Of(CodexNullPercent)>>
    BY SMTT(30) DEF Windows, Of
  <2>2. DOMAIN Windows["codex"] = 1..2
    BY <2>1
  <2>3. TellsAt("codex", 1, Overdraws(used, limit))
    BY <1>0, <2>1, OverdraftsAreExact DEF Of
  <2>4. TellsAt("codex", 2, Overdraws(used, limit) \cup {0})
    BY <1>0, <2>1, OverdraftsAreExact DEF Of
  <2>. QED BY <2>2, <2>3, <2>4
<1>61. /\ DOMAIN Windows["claude"] = 1..4
       /\ TellsAt("claude", 1, Overdraws(used, limit))
       /\ TellsAt("claude", 2, Overdraws(used, limit) \cup {0})
       /\ TellsAt("claude", 3, Exactly(used, limit))
       /\ TellsAt("claude", 4, Overdraws(used, limit))
  <2>1. Windows["claude"] =
         <<Of(ClaudePercent), Of(ClaudeUntoldPercent), Of(ClaudeSpendPercent), Of(ClaudeCliPercent)>>
    BY SMTT(30) DEF Windows, Of
  <2>2. DOMAIN Windows["claude"] = 1..4
    BY <2>1
  <2>3. TellsAt("claude", 1, Overdraws(used, limit))
    BY <1>0, <2>1, OverdraftsAreExact DEF Of
  <2>4. TellsAt("claude", 2, Overdraws(used, limit) \cup {0})
    BY <1>0, <2>1, OverdraftsAreExact DEF Of
  <2>5. TellsAt("claude", 3, Exactly(used, limit))
    BY <1>0, <2>1, CountsAreExact DEF Of
  <2>6. TellsAt("claude", 4, Overdraws(used, limit))
    BY <1>0, <2>1, OverdraftsAreExact DEF Of
  <2>. QED BY <2>2, <2>3, <2>4, <2>5, <2>6
<1>. HIDE DEF Tells, TellsAt
<1>62. \A p \in {"chutes", "minimax", "alibaba", "gemini", "antigravity", "ollama", "augment", "elevenlabs",
     "crof", "zenmux", "clawrouter", "llmproxy", "neuralwatt", "clinepass", "zed",
     "windsurf", "ibmbob", "stepfun", "qwencloud", "litellm", "bedrock", "sakana", "abacus",
     "mistral", "qoder", "alibabatokenplan", "mimo"} :
       Tells(p, Exactly(used, limit))
  BY <1>1, <1>4, <1>5, <1>6, <1>7, <1>8, <1>9, <1>10, <1>11, <1>13, <1>15, <1>16, <1>19, <1>21,
     <1>23, <1>24, <1>25, <1>26, <1>30, <1>31, <1>33, <1>39, <1>40, <1>41, <1>43, <1>45, <1>46
<1>63. \A p \in {"synthetic", "opencodego", "opencode", "devin"} :
       ~Doubtful(used, limit) => Tells(p, Exactly(used, limit))
  BY <1>2, <1>29, <1>35, <1>36
<1>64. \A p \in {"warp", "venice", "kilo", "codebuff", "jetbrains", "zoommate", "sub2api", "cursor",
     "manus", "t3chat", "commandcode", "perplexity", "kimi"} :
       Tells(p, Guesses(used, limit))
  BY <1>3, <1>12, <1>14, <1>20, <1>22, <1>27, <1>32, <1>34, <1>37, <1>38, <1>42, <1>44, <1>47
<1>65. \A p \in {"copilot", "notion"} :
       Tells(p, Overdraws(used, limit))
  BY <1>18, <1>28
<1>66. DOMAIN Windows = {"chutes", "synthetic", "warp", "minimax", "alibaba", "doubao", "factory",
     "gemini", "antigravity", "ollama", "kiro", "augment", "elevenlabs", "crof", "venice",
     "zenmux", "kilo", "clawrouter", "llmproxy", "openrouter", "zai", "copilot", "neuralwatt",
     "codebuff", "clinepass", "jetbrains", "zed", "grok", "windsurf", "ibmbob", "stepfun",
     "zoommate", "notion", "opencodego", "qwencloud", "litellm", "sub2api", "bedrock",
     "cursor", "opencode", "devin", "manus", "t3chat", "sakana", "abacus", "mistral",
     "commandcode", "qoder", "perplexity", "longcat", "alibabatokenplan", "mimo", "codex",
     "claude", "kimi"}
  BY SMTT(30) DEF Windows
<1>. SUFFICES ASSUME NEW provider \in DOMAIN Windows, NEW k \in DOMAIN Windows[provider], NEW q,
                    IsTold(q, used, limit, Windows[provider][k].scale),
                    Doubtful(used, limit) => provider \notin Ambiguous
             PROVE  Windows[provider][k].percent[q] \in
                      Exactly(used, limit)
                        \cup (IF provider \in Overdrawn THEN {Share(used, limit)} ELSE {})
                        \cup (IF <<provider, k>> \in Guessers THEN {0, Whole} ELSE {})
  OBVIOUS
<1>67. CASE provider \in {"chutes", "minimax", "alibaba", "gemini", "antigravity", "ollama", "augment", "elevenlabs",
     "crof", "zenmux", "clawrouter", "llmproxy", "neuralwatt", "clinepass", "zed",
     "windsurf", "ibmbob", "stepfun", "qwencloud", "litellm", "bedrock", "sakana", "abacus",
     "mistral", "qoder", "alibabatokenplan", "mimo"}
  <2>1. Windows[provider][k].percent[q] \in Exactly(used, limit)
    BY <1>67, <1>62 DEF Tells, TellsAt
  <2>. QED BY <2>1
<1>68. CASE provider \in {"synthetic", "opencodego", "opencode", "devin"}
  <2>1. Windows[provider][k].percent[q] \in Exactly(used, limit)
    BY <1>68, <1>63 DEF Tells, TellsAt, Ambiguous
  <2>. QED BY <2>1
<1>69. CASE provider \in {"warp", "venice", "kilo", "codebuff", "jetbrains", "zoommate", "sub2api", "cursor",
     "manus", "t3chat", "commandcode", "perplexity", "kimi"}
  <2>1. Windows[provider][k].percent[q] \in Guesses(used, limit)
    BY <1>69, <1>64 DEF Tells, TellsAt
  <2>2. k = 1 \/ (provider = "commandcode" /\ k = 2)
    BY <1>69, <1>48, <1>49, <1>50, <1>51, <1>52, <1>53
  <2>3. <<provider, k>> \in Guessers
    BY <1>69, <2>2 DEF Guessers
  <2>. QED BY <2>1, <2>3 DEF Guesses
<1>70. CASE provider \in {"copilot", "notion"}
  <2>1. Windows[provider][k].percent[q] \in Overdraws(used, limit)
    BY <1>70, <1>65 DEF Tells, TellsAt
  <2>. QED BY <1>70, <2>1 DEF Overdraws, Overdrawn
<1>71. CASE provider = "zai"
  <2>1. Windows[provider][k].percent[q] \in Overdraws(used, limit) \cup {0, Whole}
    BY <1>71, <1>17 DEF Tells, TellsAt
  <2>2. <<provider, k>> \in Guessers
    BY <1>71, <1>52 DEF Guessers
  <2>. QED BY <1>71, <2>1, <2>2 DEF Overdraws, Overdrawn
<1>72. CASE provider = "doubao"
  <2>1. k \in 1..3
    BY <1>72, <1>54
  <2>2. <<"doubao", 3>> \in Guessers
    BY DEF Guessers
  <2>3. CASE k = 1
    BY <1>72, <1>54, <2>3 DEF TellsAt
  <2>4. CASE k = 2
    BY <1>72, <1>54, <2>4 DEF TellsAt
  <2>5. CASE k = 3
    BY <1>72, <1>54, <2>2, <2>5 DEF TellsAt, Guesses
  <2>. QED BY <2>1, <2>3, <2>4, <2>5
<1>73. CASE provider = "factory"
  <2>1. k \in 1..3
    BY <1>73, <1>55
  <2>2. <<"factory", 1>> \in Guessers /\ <<"factory", 3>> \in Guessers
    BY DEF Guessers
  <2>3. CASE k = 1
    BY <1>73, <1>55, <2>2, <2>3 DEF TellsAt, Guesses, Ambiguous
  <2>4. CASE k = 2
    BY <1>73, <1>55, <2>4 DEF TellsAt
  <2>5. CASE k = 3
    BY <1>73, <1>55, <2>2, <2>5 DEF TellsAt, Guesses
  <2>. QED BY <2>1, <2>3, <2>4, <2>5
<1>74. CASE provider = "kiro"
  <2>1. k \in 1..2
    BY <1>74, <1>56
  <2>2. <<"kiro", 2>> \in Guessers
    BY DEF Guessers
  <2>3. CASE k = 1
    BY <1>74, <1>56, <2>3 DEF TellsAt
  <2>4. CASE k = 2
    BY <1>74, <1>56, <2>2, <2>4 DEF TellsAt, Guesses
  <2>. QED BY <2>1, <2>3, <2>4
<1>75. CASE provider = "openrouter"
  <2>1. k \in 1..2
    BY <1>75, <1>57
  <2>2. <<"openrouter", 2>> \in Guessers
    BY DEF Guessers
  <2>3. CASE k = 1
    BY <1>75, <1>57, <2>3 DEF TellsAt
  <2>4. CASE k = 2
    BY <1>75, <1>57, <2>2, <2>4 DEF TellsAt, Guesses
  <2>. QED BY <2>1, <2>3, <2>4
<1>76. CASE provider = "longcat"
  <2>1. k \in 1..2
    BY <1>76, <1>58
  <2>2. <<"longcat", 2>> \in Guessers
    BY DEF Guessers
  <2>3. CASE k = 1
    BY <1>76, <1>58, <2>3 DEF TellsAt
  <2>4. CASE k = 2
    BY <1>76, <1>58, <2>2, <2>4 DEF TellsAt, Guesses
  <2>. QED BY <2>1, <2>3, <2>4
<1>77. CASE provider = "grok"
  <2>1. k \in 1..2
    BY <1>77, <1>59
  <2>2. <<"grok", 2>> \in Guessers
    BY DEF Guessers
  <2>3. CASE k = 1
    BY <1>77, <1>59, <2>3 DEF TellsAt
  <2>4. CASE k = 2
    BY <1>77, <1>59, <2>2, <2>4 DEF TellsAt, Overdraws, Overdrawn
  <2>. QED BY <2>1, <2>3, <2>4
<1>78. CASE provider = "codex"
  <2>1. k \in 1..2
    BY <1>78, <1>60
  <2>2. <<"codex", 2>> \in Guessers
    BY DEF Guessers
  <2>3. CASE k = 1
    BY <1>78, <1>60, <2>3 DEF TellsAt, Overdraws, Overdrawn
  <2>4. CASE k = 2
    BY <1>78, <1>60, <2>2, <2>4 DEF TellsAt, Overdraws, Overdrawn
  <2>. QED BY <2>1, <2>3, <2>4
<1>79. CASE provider = "claude"
  <2>1. k \in 1..4
    BY <1>79, <1>61
  <2>2. <<"claude", 2>> \in Guessers
    BY DEF Guessers
  <2>3. CASE k = 1
    BY <1>79, <1>61, <2>3 DEF TellsAt, Overdraws, Overdrawn
  <2>4. CASE k = 2
    BY <1>79, <1>61, <2>2, <2>4 DEF TellsAt, Overdraws, Overdrawn
  <2>5. CASE k = 3
    BY <1>79, <1>61, <2>5 DEF TellsAt
  <2>6. CASE k = 4
    BY <1>79, <1>61, <2>6 DEF TellsAt, Overdraws, Overdrawn
  <2>. QED BY <2>1, <2>3, <2>4, <2>5, <2>6
<1>. QED BY <1>66, <1>67, <1>68, <1>69, <1>70, <1>71, <1>72, <1>73, <1>74, <1>75, <1>76, <1>77,
            <1>78, <1>79

-----------------------------------------------------------------------------
(* The fetch of every provider and the window of its answer.               *)

\* A fetch whose answer was measured has ended.
MeasuredWhenShown == window # NotYet => fetch.outcome = "shown"

\* Every limit and use there is makes an exact quota, unless there is no limit.
LEMMA QuotasAreExact ==
  ASSUME NEW used \in Uses, NEW limit \in Limits, limit > 0
  PROVE  Exact(used, limit)
<1>1. used \in Nat /\ limit \in Nat \ {0} /\ limit \in Limits \ {0}
  BY QuotasAreCounted
<1>. QED BY <1>1, SharesAreExact DEF Exact

\* An answer tells a quota of numbers, and each figure as it is or not at all.
LEMMA TellingTells ==
  ASSUME NEW used \in Uses, NEW limit \in Limits, NEW told \in SUBSET Figures, NEW scale \in {1, Unit},
         limit = 0 => told \cap {"usedPercent", "leftPercent"} = {}
  PROVE  LET q == Telling(used, limit, told, scale)
         IN q \in Quotas /\ (limit > 0 => IsTold(q, used, limit, scale))
<1>. DEFINE q == Telling(used, limit, told, scale)
            share == IF limit > 0 THEN Share(used, limit) ELSE Missing
            part == share \div scale
            rest == (Whole - share) \div scale
            figures == [used |-> used, limit |-> limit, remaining |-> limit - used,
                        usedPercent |-> part, leftPercent |-> rest]
<1>1. used \in Int /\ limit \in Int
  BY QuotasAreCounted
<1>2. share \in Int
  BY <1>1, ShareIsInt DEF Missing
<1>. HIDE DEF share
<1>3. part \in Int /\ rest \in Int
  BY <1>2 DEF Whole, Unit
<1>. HIDE DEF part, rest
<1>4. q = [f \in Figures |-> IF f \in told THEN figures[f] ELSE Missing]
  BY DEF Telling, share, part, rest
<1>5. /\ q.used \in {Missing, used} /\ q.limit \in {Missing, limit}
      /\ q.remaining \in {Missing, limit - used}
      /\ q.usedPercent \in {Missing, part} /\ q.leftPercent \in {Missing, rest}
  BY <1>4 DEF Figures
<1>6. q \in Quotas
  BY <1>1, <1>3, <1>4 DEF Figures, Quotas, Missing
<1>7. limit > 0 => part = Share(used, limit) \div scale /\ rest = (Whole - Share(used, limit)) \div scale
  BY DEF part, rest, share
<1>. HIDE DEF q
<1>8. limit > 0 => IsTold(q, used, limit, scale)
  BY <1>5, <1>6, <1>7 DEF IsTold
<1>. QED BY <1>6, <1>8 DEF q

\* Every parser says whether its server speaks in percents or in fractions.
LEMMA ScalesAreTwo ==
  \A provider \in DOMAIN Windows : \A k \in DOMAIN Windows[provider] :
    Windows[provider][k].scale \in {1, Unit}
<1>. DEFINE Speaks(p) == \A k \in DOMAIN Windows[p] : Windows[p][k].scale \in {1, Unit}
<1>1. Speaks("chutes") /\ Speaks("synthetic")
  BY SMTT(30) DEF Windows, Of
<1>2. Speaks("warp") /\ Speaks("minimax")
  BY SMTT(30) DEF Windows, Of
<1>3. Speaks("alibaba") /\ Speaks("doubao")
  BY SMTT(30) DEF Windows, Of
<1>4. Speaks("ollama") /\ Speaks("kiro")
  BY SMTT(30) DEF Windows, Of
<1>5. Speaks("augment") /\ Speaks("elevenlabs")
  BY SMTT(30) DEF Windows, Of
<1>6. Speaks("crof") /\ Speaks("venice")
  BY SMTT(30) DEF Windows, Of
<1>7. Speaks("kilo") /\ Speaks("clawrouter")
  BY SMTT(30) DEF Windows, Of
<1>8. Speaks("llmproxy") /\ Speaks("openrouter")
  BY SMTT(30) DEF Windows, Of
<1>9. Speaks("zai") /\ Speaks("copilot")
  BY SMTT(30) DEF Windows, Of
<1>10. Speaks("neuralwatt") /\ Speaks("codebuff")
  BY SMTT(30) DEF Windows, Of
<1>11. Speaks("clinepass") /\ Speaks("jetbrains")
  BY SMTT(30) DEF Windows, Of
<1>12. Speaks("zed") /\ Speaks("grok")
  BY SMTT(30) DEF Windows, Of
<1>13. Speaks("windsurf") /\ Speaks("ibmbob")
  BY SMTT(30) DEF Windows, Of
<1>14. Speaks("zoommate") /\ Speaks("notion")
  BY SMTT(30) DEF Windows, Of
<1>15. Speaks("litellm") /\ Speaks("sub2api")
  BY SMTT(30) DEF Windows, Of
<1>16. Speaks("bedrock") /\ Speaks("cursor")
  BY SMTT(30) DEF Windows, Of
<1>17. Speaks("manus") /\ Speaks("t3chat")
  BY SMTT(30) DEF Windows, Of
<1>18. Speaks("sakana") /\ Speaks("abacus")
  BY SMTT(30) DEF Windows, Of
<1>19. Speaks("mistral") /\ Speaks("commandcode")
  BY SMTT(30) DEF Windows, Of
<1>20. Speaks("qoder") /\ Speaks("perplexity")
  BY SMTT(30) DEF Windows, Of
<1>21. Speaks("longcat") /\ Speaks("alibabatokenplan")
  BY SMTT(30) DEF Windows, Of
<1>22. Speaks("codex") /\ Speaks("claude")
  BY SMTT(30) DEF Windows, Of
<1>23. Speaks("kimi")
  BY SMTT(30) DEF Windows, Of
<1>24. Speaks("gemini") /\ Speaks("antigravity")
  BY SMTT(30) DEF Windows, InFractions
<1>25. Speaks("zenmux") /\ Speaks("stepfun")
  BY SMTT(30) DEF Windows, InFractions
<1>26. Speaks("mimo")
  BY SMTT(30) DEF Windows, InFractions
<1>27. Speaks("factory")
  BY SMTT(30) DEF Windows, Of, InFractions
<1>28. Speaks("opencodego")
  BY SMTT(30) DEF Windows, Of, InFractions
<1>29. Speaks("qwencloud")
  BY SMTT(30) DEF Windows, Of, InFractions
<1>30. Speaks("opencode")
  BY SMTT(30) DEF Windows, Of, InFractions
<1>31. Speaks("devin")
  BY SMTT(30) DEF Windows, Of, InFractions
<1>. HIDE DEF Speaks
<1>32. DOMAIN Windows = {"chutes", "synthetic", "warp", "minimax", "alibaba", "doubao", "factory",
     "gemini", "antigravity", "ollama", "kiro", "augment", "elevenlabs", "crof", "venice",
     "zenmux", "kilo", "clawrouter", "llmproxy", "openrouter", "zai", "copilot", "neuralwatt",
     "codebuff", "clinepass", "jetbrains", "zed", "grok", "windsurf", "ibmbob", "stepfun",
     "zoommate", "notion", "opencodego", "qwencloud", "litellm", "sub2api", "bedrock",
     "cursor", "opencode", "devin", "manus", "t3chat", "sakana", "abacus", "mistral",
     "commandcode", "qoder", "perplexity", "longcat", "alibabatokenplan", "mimo", "codex",
     "claude", "kimi"}
  BY SMTT(30) DEF Windows
<1>33. \A p \in DOMAIN Windows : Speaks(p)
  BY <1>1, <1>2, <1>3, <1>4, <1>5, <1>6, <1>7, <1>8, <1>9, <1>10, <1>11, <1>12, <1>13, <1>14, <1>15,
     <1>16, <1>17, <1>18, <1>19, <1>20, <1>21, <1>22, <1>23, <1>24, <1>25, <1>26, <1>27, <1>28, <1>29, <1>30,
     <1>31, <1>32
<1>. QED BY <1>33 DEF Speaks

\* What is measured of an answer is the share, or nothing.
LEMMA MeasureIsTrue ==
  ASSUME Measure
  PROVE  MeasuredWhenShown' /\ WindowIsTheShare'
<1>1. fetch' = fetch /\ fetch.outcome = "shown" /\ fetch.provider \in DOMAIN Windows
  BY DEF Measure, fetchVars
<1>2. PICK k \in DOMAIN Windows[fetch.provider], used \in Uses, limit \in Limits, told \in SUBSET Figures :
        LET parser == Windows[fetch.provider][k]
        IN /\ limit = 0 => told \cap {"usedPercent", "leftPercent"} = {}
           /\ window' = [of |-> k, used |-> used, limit |-> limit, told |-> told,
                         percent |-> parser.percent[Telling(used, limit, told, parser.scale)]]
  BY DEF Measure
<1>. DEFINE parser == Windows[fetch.provider][k]
            q == Telling(used, limit, told, parser.scale)
<1>3. /\ window'.used = used /\ window'.limit = limit /\ window'.of = k
      /\ window'.percent = parser.percent[q]
  BY <1>2
<1>4. parser.scale \in {1, Unit}
  BY <1>1, ScalesAreTwo
<1>5. q \in Quotas /\ (limit > 0 => IsTold(q, used, limit, parser.scale))
  BY <1>2, <1>4, TellingTells
<1>. HIDE DEF q
<1>6. fetch.provider \notin Overdrawn => parser.percent[q] \in {NoWindow} \cup 0..Whole
  BY <1>1, <1>5, WindowsShow DEF Shown
<1>7. ASSUME limit > 0, Doubtful(used, limit) => fetch.provider \notin Ambiguous
      PROVE  parser.percent[q] \in
               Exactly(used, limit)
                 \cup (IF fetch.provider \in Overdrawn THEN {Share(used, limit)} ELSE {})
                 \cup (IF <<fetch.provider, k>> \in Guessers THEN {0, Whole} ELSE {})
  BY <1>1, <1>5, <1>7, QuotasAreExact, WindowsAreExact
<1>. HIDE DEF parser
<1>8. WindowIsTheShare'
  BY <1>1, <1>3, <1>6, <1>7 DEF WindowIsTheShare, Exactly
<1>. QED BY <1>1, <1>8 DEF MeasuredWhenShown

\* A step of the fetch leaves the window alone, for what was measured has ended.
LEMMA FetchedKeepsWindow ==
  ASSUME MeasuredWhenShown, WindowIsTheShare, Fetched
  PROVE  MeasuredWhenShown' /\ WindowIsTheShare'
<1>1. Running(fetch) /\ window' = window
  BY DEF Fetched, FetchNext, Walk, Answer, Decide, Again, GiveUp, Publish, CancelFetch
<1>2. window = NotYet /\ window' = NotYet
  BY <1>1 DEF MeasuredWhenShown, Running
<1>. QED BY <1>2 DEF MeasuredWhenShown, WindowIsTheShare

\* A window shows between nothing and everything, and of a quota that the answer
\* tells in whole or in part it shows the share that was used, or there is no
\* window: for every limit and use whose share is a whole number of percents,
\* and every parser, but for the exceptions that are named.
THEOREM WindowsTellTheShare == FetchingSpec => []WindowIsTheShare
<1>1. FetchingInit => MeasuredWhenShown /\ WindowIsTheShare
  BY DEF FetchingInit, MeasuredWhenShown, WindowIsTheShare
<1>2. MeasuredWhenShown /\ WindowIsTheShare /\ [Fetched \/ Measure]_fetchingVars
        => MeasuredWhenShown' /\ WindowIsTheShare'
  <2>1. MeasuredWhenShown /\ WindowIsTheShare /\ UNCHANGED fetchingVars
          => MeasuredWhenShown' /\ WindowIsTheShare'
    BY DEF fetchingVars, MeasuredWhenShown, WindowIsTheShare
  <2>. QED BY <2>1, MeasureIsTrue, FetchedKeepsWindow
<1>. QED BY <1>1, <1>2, PTL DEF FetchingSpec

\* What was proved of the walks of the plans holds where their answers are
\* measured as well: measuring leaves the fetch alone.
THEOREM FetchingKeepsThePromises ==
  FetchingSpec =>
    /\ CancellationHeeded
    /\ [](ExplicitIsStrict /\ OneOwnerPerSnapshot /\ SourceIsTruthful /\ OwnAccountOnly)
<1>1. FetchingInit => FetchInit
  BY DEF FetchingInit
<1>2. [Fetched \/ Measure]_fetchingVars => [FetchNext]_fetchVars
  BY DEF Fetched, Measure, fetchingVars, fetchVars
<1>3. FetchingSpec => FetchSteps
  BY <1>1, <1>2, PTL DEF FetchingSpec, FetchSteps
<1>. QED BY <1>3, CancellationIsHeeded, ExplicitStaysStrict, SnapshotHasOneOwner, ShownAsWhatAnswered,
            AccountReadsItsOwn, PTL
=============================================================================
