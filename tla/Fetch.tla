-------------------------------- MODULE Fetch --------------------------------
(***************************************************************************)
(* One fetch of one provider, as codexbar_backend_fetch_for_runtime and    *)
(* fetch_token_account start it: it walks the provider's plan, and may be  *)
(* cancelled at any moment.                                                *)
(***************************************************************************)
EXTENDS FetchPlan

CONSTANTS
  Plans,          \* the plan of each provider
  Heedless,       \* the providers that go on after a cancellation,
  Lax,            \*   that answer from another source than the one asked for,
  Borrowers,      \*   that may answer an account with what this machine has
  Wakes           \* the labels that some plans pass on being cancelled

VARIABLES
  fetch,          \* the provider, the mode and what the fetch has come to
  cancelled       \* the caller's cancellable

fetchVars == <<fetch, cancelled>>

Sources == {"api", "web", "cli", "oauth", "local"}

\* A plan whose steps ask the sources there are and lead to its own steps.
WellMade(plan) ==
  LET labels == DOMAIN plan.steps
  IN /\ Fail \notin labels
     /\ \A at \in labels :
          LET step == plan.steps[at]
          IN /\ step.does = "ask" => step.ask.source \in Sources
             /\ step.does = "ask" =>
                  \A reply \in DOMAIN step.ask.sees :
                    /\ step.ask.sees[reply] \in Verdicts
                    /\ step.next[step.ask.sees[reply]] \in labels \cup {Fail}
             /\ step.does = "choose" => step.to \subseteq labels
             /\ step.does = "repeat" => {step.again, step.next} \subseteq labels
             /\ step.does = "give" => step.verdict \in Failures \cup {"earlier"}
     /\ \A mode \in DOMAIN plan.legs :
          /\ plan.legs[mode] \in Seq([at : labels, soft : SUBSET Failures])
          /\ plan.legs[mode] # <<>>

\* A plan that takes a cancellation for what it is: no leg is soft on it, and
\* the step that is told of it ends its leg, or leads to labels where nothing
\* more is learned, since whoever is asked there is told as well.
Heeds(plan, wake) ==
  /\ \A at \in DOMAIN plan.steps :
       LET step == plan.steps[at]
       IN step.does = "ask" =>
            \A reply \in DOMAIN step.ask.sees :
              step.ask.sees[reply] = "cancelled" =>
                reply = "cancelled" /\ step.next["cancelled"] \in wake \cup {Fail}
  /\ \A at \in wake :
       LET step == plan.steps[at]
       IN \/ step.does = "give"
          \/ /\ step.does = "ask"
             /\ \/ "cancelled" \in DOMAIN step.ask.sees /\ step.ask.sees["cancelled"] = "cancelled"
                \/ /\ step.ask.kind # "usage"
                   /\ \A reply \in DOMAIN step.ask.sees :
                        step.next[step.ask.sees[reply]] \in wake \cup {Fail}
  /\ \A mode \in DOMAIN plan.legs : \A leg \in DOMAIN plan.legs[mode] :
       /\ "cancelled" \notin plan.legs[mode][leg].soft
       /\ leg > 1 /\ wake # {} => plan.legs[mode][leg].at \in wake

Wake(provider) == IF provider \in DOMAIN Wakes THEN Wakes[provider] ELSE {}

-----------------------------------------------------------------------------
(* What a plan must look like for its walks to keep the promises below.  The  *)
(* labels that a walk comes to are followed move by move from where legs start. *)

Moves(plan) ==
  LET Move(at, reply, label) == [from |-> at, reply |-> reply, to |-> label]
      From(at) ==
        LET step == plan.steps[at]
        IN CASE step.does = "ask" -> {Move(at, reply, step.next[step.ask.sees[reply]]) :
                                        reply \in DOMAIN step.ask.sees}
             [] step.does = "choose" -> {Move(at, "none", label) : label \in step.to}
             [] step.does = "repeat" -> {Move(at, "none", label) : label \in {step.again, step.next}}
             [] OTHER -> {}
  IN {m \in UNION {From(at) : at \in DOMAIN plan.steps} : m.to # Fail}

StartsOf(plan, mode) == {plan.legs[mode][leg].at : leg \in DOMAIN plan.legs[mode]}
Starts(plan) == UNION {StartsOf(plan, mode) : mode \in DOMAIN plan.legs}

\* Where these moves lead from there, and that nothing leads out of it.
Reached(from, moves) ==
  LET within[n \in Nat] ==
        IF n = 0 THEN from
        ELSE LET labels == within[n - 1]
             IN labels \cup {m.to : m \in {move \in moves : move.from \in labels}}
  IN within[Cardinality({m.from : m \in moves})]
Covers(labels, from, moves) ==
  from \subseteq labels /\ \A m \in moves : m.from \in labels => m.to \in labels

Asks(plan, at, kind) == plan.steps[at].does = "ask" /\ plan.steps[at].ask.kind = kind
SourceAt(plan, at) == plan.steps[at].ask.source
Brings(plan, m, kind) == Asks(plan, m.from, kind) /\ plan.steps[m.from].ask.sees[m.reply] = "ok"

\* A mode's legs ask no other source for usage.
Route(plan, mode) == Reached(StartsOf(plan, mode), Moves(plan))
Strict(plan, mode, route) ==
  /\ Covers(route, StartsOf(plan, mode), Moves(plan))
  /\ \A at \in route : Asks(plan, at, "usage") => SourceAt(plan, at) = mode

\* The names under which a source is shown.
Names(source) ==
  {source} \cup (IF source = "web" THEN {"console"} ELSE {})
           \cup (IF source = "cli" THEN {"local"} ELSE {})

\* Nothing is shown under a name before its source has answered.
Silent(plan, name) ==
  {m \in Moves(plan) : Brings(plan, m, "usage") => name \notin Names(SourceAt(plan, m.from))}
Unheard(plan, name) == Reached(Starts(plan), Silent(plan, name))
Truthful(plan, name, unheard) ==
  /\ Covers(unheard, Starts(plan), Silent(plan, name))
  /\ \A at \in unheard : plan.steps[at].does = "show" => plan.steps[at].source # name

\* Once a source has answered no other is asked in the leg, nor is its own
\* credential looked up again.
Answers(plan, source) ==
  {m.to : m \in {n \in Moves(plan) : Brings(plan, n, "usage") /\ SourceAt(plan, n.from) = source}}
Heard(plan, source) == Reached(Answers(plan, source), Moves(plan))
OneSource(plan, source, heard) ==
  /\ Covers(heard, Answers(plan, source), Moves(plan))
  /\ \A at \in heard :
       /\ Asks(plan, at, "usage") => SourceAt(plan, at) = source
       /\ Asks(plan, at, "credential") => SourceAt(plan, at) # source

\* A selected account is never missing.  No source is asked for usage unless
\* the account itself was the last credential that was found for it.
Selected(plan, m) == Asks(plan, m.from, "credential") /\ plan.steps[m.from].ask.field = plan.token
OwnMoves(plan) == {m \in Moves(plan) : Selected(plan, m) => m.reply # "missing"}
Visited(plan) == Reached(Starts(plan), OwnMoves(plan))
Renews(plan, m, source) == Brings(plan, m, "credential") /\ SourceAt(plan, m.from) = source
Borrows(plan, source) ==
  {m.to : m \in {n \in OwnMoves(plan) : /\ n.from \in Visited(plan) /\ Renews(plan, n, source)
                                       /\ ~(Selected(plan, n) /\ n.reply = "found")}}
Keeping(plan, source) == {m \in OwnMoves(plan) : ~Renews(plan, m, source)}
Foreign(plan, source) == Reached(Starts(plan) \cup Borrows(plan, source), Keeping(plan, source))
Own(plan, source, foreign) ==
  /\ Covers(Visited(plan), Starts(plan), OwnMoves(plan))
  /\ Covers(foreign, Starts(plan) \cup Borrows(plan, source), Keeping(plan, source))
  /\ \A at \in Visited(plan) \cap foreign : Asks(plan, at, "usage") => SourceAt(plan, at) # source

ASSUME PlansWellMade == \A provider \in DOMAIN Plans : WellMade(Plans[provider])
ASSUME PlansHeed ==
  \A provider \in DOMAIN Plans \ Heedless :
    /\ Wake(provider) \subseteq DOMAIN Plans[provider].steps
    /\ Heeds(Plans[provider], Wake(provider))

ASSUME PlansStrict ==
  \A provider \in DOMAIN Plans \ Lax : \A mode \in DOMAIN Plans[provider].legs \ {"auto"} :
    Strict(Plans[provider], mode, Route(Plans[provider], mode))
ASSUME PlansTruthful ==
  \A provider \in DOMAIN Plans : \A at \in DOMAIN Plans[provider].steps :
    LET step == Plans[provider].steps[at]
    IN step.does = "show" =>
         Truthful(Plans[provider], step.source, Unheard(Plans[provider], step.source))
ASSUME PlansOneSource ==
  \A provider \in DOMAIN Plans : \A at \in DOMAIN Plans[provider].steps :
    LET plan == Plans[provider]
    IN Asks(plan, at, "usage") => OneSource(plan, SourceAt(plan, at), Heard(plan, SourceAt(plan, at)))
ASSUME PlansOwn ==
  \A provider \in DOMAIN Plans \ Borrowers : \A at \in DOMAIN Plans[provider].steps :
    LET plan == Plans[provider]
    IN plan.token # "none" /\ Asks(plan, at, "usage") =>
         Own(plan, SourceAt(plan, at), Foreign(plan, SourceAt(plan, at)))

PlanOf(f) == Plans[f.provider]

\* Deviation: whoever asks for one source is given the automatic choice.
BadLegs(f) == PlanOf(f).legs["auto"]
Legs(f) == PlanOf(f).legs[f.mode]

StepOf(f) == PlanOf(f).steps[f.at]
Running(f) == f.outcome = "running"

\* Deviation: only a key is replaced by the account's, no cookie.
BadReplaced(f, ask) == f.selected /\ ask.field = PlanOf(f).token /\ ask.field # "cookie"

\* Whose credential a lookup finds: the selected account's, or whatever this
\* machine has in its environment, its configuration and its files.
Replaced(f, ask) == f.selected /\ ask.field = PlanOf(f).token
Owner(f, ask, reply) ==
  IF Replaced(f, ask) /\ reply = "found" THEN "account" ELSE "machine"

Fact(source, owner) == [source |-> source, owner |-> owner]

\* Where each source's credential comes from when none has been looked up.
NoOwners == [s \in Sources |-> "machine"]

\* Deviation: the snapshot that a failed leg began is completed by the next.
BadStartLeg(f, leg) ==
  [f EXCEPT !.leg = leg, !.at = Legs(f)[leg].at, !.round = 0, !.owners = NoOwners]

StartLeg(f, leg) ==
  [f EXCEPT !.leg = leg, !.at = Legs(f)[leg].at, !.round = 0, !.owners = NoOwners,
            !.facts = {}]

\* Deviation: the next leg is tried whatever ended this one.
BadFailed(f, verdict) ==
  IF f.leg < Len(Legs(f))
  THEN [StartLeg(f, f.leg + 1) EXCEPT !.earlier = verdict]
  ELSE [f EXCEPT !.outcome = verdict, !.at = Fail, !.facts = {}]

\* The leg has failed: the next one if the failure is soft.
Failed(f, verdict) ==
  IF f.leg < Len(Legs(f)) /\ verdict \in Legs(f)[f.leg].soft
  THEN [StartLeg(f, f.leg + 1) EXCEPT !.earlier = verdict]
  ELSE [f EXCEPT !.outcome = verdict, !.at = Fail, !.facts = {}]

Goto(f, label, verdict) ==
  IF label = Fail THEN Failed(f, verdict) ELSE [f EXCEPT !.at = label]

Learned(f, ask, reply) ==
  CASE ask.kind = "credential" -> [f EXCEPT !.owners[ask.source] = Owner(f, ask, reply)]
    [] ask.kind = "usage" -> [f EXCEPT !.facts = @ \cup {Fact(ask.source, f.owners[ask.source])}]
    [] OTHER -> f

\* A transport looks at the cancellable before and after.
Possible(f, ask, reply) ==
  /\ (reply = "cancelled") = (cancelled /\ "cancelled" \in DOMAIN ask.sees)
  /\ ask.kind = "credential" /\ Replaced(f, ask) => reply # "missing"

Answer ==
  /\ Running(fetch) /\ StepOf(fetch).does = "ask"
  /\ LET ask  == StepOf(fetch).ask
         next == StepOf(fetch).next
     IN \E reply \in DOMAIN ask.sees :
          LET verdict == ask.sees[reply]
          IN /\ Possible(fetch, ask, reply)
             /\ fetch' = Goto([IF verdict = "ok" THEN Learned(fetch, ask, reply) ELSE fetch
                                 EXCEPT !.noticed = @ \/ verdict = "cancelled"],
                              next[verdict], verdict)
  /\ UNCHANGED cancelled

Decide ==
  /\ Running(fetch) /\ StepOf(fetch).does = "choose"
  /\ \E label \in StepOf(fetch).to : fetch' = [fetch EXCEPT !.at = label]
  /\ UNCHANGED cancelled

Again ==
  /\ Running(fetch) /\ StepOf(fetch).does = "repeat"
  /\ LET step == StepOf(fetch)
     IN \/ /\ fetch.round + 1 < step.cap
           /\ fetch' = [fetch EXCEPT !.at = step.again, !.round = @ + 1]
        \/ fetch' = [fetch EXCEPT !.at = step.next, !.round = 0]
  /\ UNCHANGED cancelled

GiveUp ==
  /\ Running(fetch) /\ StepOf(fetch).does = "give"
  /\ LET verdict == StepOf(fetch).verdict
     IN fetch' = Failed(fetch, IF verdict = "earlier" THEN fetch.earlier ELSE verdict)
  /\ UNCHANGED cancelled

\* Deviation: the snapshot is named after the source that was asked for.
BadPublish ==
  /\ Running(fetch) /\ StepOf(fetch).does = "show"
  /\ fetch' = [fetch EXCEPT !.outcome = "shown",
                 !.shownAs = IF fetch.mode = "auto" THEN StepOf(fetch).source ELSE fetch.mode]
  /\ UNCHANGED cancelled

Publish ==
  /\ Running(fetch) /\ StepOf(fetch).does = "show"
  /\ fetch' = [fetch EXCEPT !.outcome = "shown", !.shownAs = StepOf(fetch).source]
  /\ UNCHANGED cancelled

\* A refresh is superseded, the program shuts down; the fetch of an account
\* has no cancellable.
CancelFetch ==
  /\ Running(fetch) /\ ~cancelled /\ ~fetch.selected
  /\ cancelled' = TRUE
  /\ UNCHANGED fetch

Begun(provider, mode, selected) ==
  LET blank == [provider |-> provider, mode |-> mode, selected |-> selected, leg |-> 1,
                at |-> Fail, round |-> 0, owners |-> NoOwners, facts |-> {},
                outcome |-> "running", earlier |-> "absent", shownAs |-> "none", noticed |-> FALSE]
  IN StartLeg(blank, 1)

FetchInit ==
  /\ \E provider \in DOMAIN Plans : \E mode \in DOMAIN Plans[provider].legs,
        selected \in {FALSE} \cup {Plans[provider].token # "none"} :
       fetch = Begun(provider, mode, selected)
  /\ cancelled = FALSE

Walk == Answer \/ Decide \/ Again \/ GiveUp \/ Publish

FetchNext == Walk \/ CancelFetch

FetchSteps == FetchInit /\ [][FetchNext]_fetchVars
FetchSpec == FetchSteps /\ WF_fetchVars(Walk)

-----------------------------------------------------------------------------
\* Once a fetch has seen its cancellation it learns nothing more and shows
\* nothing: no failure that it tolerates and no fallback to another source
\* takes the cancellation for an ordinary error and goes on.
CancellationHeeded ==
  [][fetch.noticed /\ fetch.provider \notin Heedless =>
       fetch'.facts \subseteq fetch.facts /\ fetch'.outcome # "shown"]_fetchVars

\* "Explicit api, web, cli, or oauth sources are strict": whatever fails, no
\* part of what is shown comes from a source of another mode.
ExplicitIsStrict ==
  fetch.mode # "auto" /\ fetch.provider \notin Lax =>
    \A fact \in fetch.facts : fact.source = fetch.mode

\* A snapshot is not pieced together from the selected account and from
\* whoever is logged in on this machine.
OneOwnerPerSnapshot ==
  \A one, other \in fetch.facts : one.owner = other.owner

\* The source that is shown is one that answered.
SourceIsTruthful ==
  fetch.outcome = "shown" => \E fact \in fetch.facts : fetch.shownAs \in Names(fact.source)

\* The usage of an account that was asked for is read with its credential.
OwnAccountOnly ==
  fetch.selected /\ fetch.provider \notin Borrowers =>
    \A fact \in fetch.facts : fact.owner = "account"

\* "Provider credentials are never shared across providers or accounts": asked
\* for strictly and by its own key, an account is answered with that key,
\* whatever key the machine has.
OwnKeyWins ==
  fetch.selected /\ fetch.mode = "api" /\ PlanOf(fetch).token = "api key" =>
    \A fact \in fetch.facts : fact.owner = "account"

\* Every fetch ends, however its servers and processes answer: each transport
\* has a deadline of its own.
FetchEnds == <>(fetch.outcome # "running")
=============================================================================
