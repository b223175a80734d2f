------------------------------ MODULE FetchPlan ------------------------------
(***************************************************************************)
(* The words in which a provider's fetch is written down.  A plan says, for *)
(* every source mode, which legs are tried one after another; a leg is a   *)
(* walk over labelled steps, each of which asks somebody for something and *)
(* goes on according to the verdict the code passes on the reply.          *)
(***************************************************************************)
EXTENDS Integers, Sequences, FiniteSets, TLC

\* What a reply that came through is found to hold: all that is looked for; a
\* well-formed document with none of it; an error in so many words; that the
\* credential is refused; that a login is needed; something else.
Contents == {"full", "empty", "errors", "refusal", "signedOut", "unreadable"}

\* What comes back from a server (a reply of status 200 by its contents), from
\* a child process, from a file.
HttpReplies ==
  Contents \cup {"302", "400", "401", "402", "403", "404", "409", "429", "500",
                 "unreachable", "cancelled"}
ProcessReplies == Contents \cup {"failed", "missing", "timed out", "cancelled"}
FileReplies == Contents \cup {"missing"}

\* What the code makes of it: GIO's error codes, or those of the provider.
Verdicts == {"ok", "absent", "invalid", "denied", "limited", "malformed",
             "rejected", "unsupported", "network", "cancelled"}
Failures == Verdicts \ {"ok"}

\* A parser: what it makes of the contents, of those it tells apart.
Reading == [full |-> "ok", empty |-> "malformed", unreadable |-> "malformed"]
Lenient == [empty |-> "ok"] @@ Reading     \* nothing to show is shown

\* A transport that does not look at the caller's cancellable.
Deaf(ask) == [ask EXCEPT !.sees = [r \in DOMAIN @ \ {"cancelled"} |-> @[r]]]

Transport(replies) ==
  [r \in replies \ Contents |->
     CASE r = "unreachable" -> "network"
       [] r = "timed out" -> "network"
       [] r = "cancelled" -> "cancelled"
       [] r = "missing" -> "absent"
       [] OTHER -> "rejected"]

Statuses == HttpReplies \ (Contents \cup {"unreachable", "cancelled"})
Denying(statuses) == [r \in statuses |-> "denied"]
Refused == Denying({"401", "403"})
Limiting == [r \in {"429"} |-> "limited"]
Plainly == [r \in {} |-> "rejected"]      \* every other status is rejected

\* An ask: of what kind, for what, on behalf of which source mode; for a
\* credential the field of the configuration that is read first.
Ask(kind, what, source, sees) ==
  [kind |-> kind, what |-> what, source |-> source, field |-> "none", sees |-> sees]

Request(what, source, reading, statuses) ==
  Ask("usage", what, source, reading @@ statuses @@ Transport(HttpReplies))
Run(what, source, reading) ==
  Ask("usage", what, source, reading @@ Transport(ProcessReplies))
ReadFile(what, source, reading) ==
  Ask("usage", what, source, reading @@ Transport(FileReplies))

\* An exchange that yields a token or an address, and no usage.
Exchange(ask) == [ask EXCEPT !.kind = "exchange"]

Lookup(what, source, field) ==
  [Ask("credential", what, source, [found |-> "ok", missing |-> "absent"])
     EXCEPT !.field = field]
\* Whoever set up the environment is heard before the configuration.
EnvironmentFirst(lookup) == [lookup EXCEPT !.sees = ("environment" :> "ok") @@ @]
Setting(what, source) ==
  Ask("setting", what, source, [valid |-> "ok", invalid |-> "invalid"])

-----------------------------------------------------------------------------
(* Steps.                                                                  *)

Fail == "fail"    \* the leg ends with the verdict at hand

Step(ask, next) == [does |-> "ask", ask |-> ask, next |-> next]

\* Some failures have exits of their own, the others end the leg.
Each(failures, label) == [v \in failures |-> label]
Turn(ask, next, exits) ==
  Step(ask, exits @@ [v \in Verdicts |-> IF v = "ok" THEN next ELSE Fail])

Must(ask, next) == Turn(ask, next, Each({}, Fail))
TryIf(soft, ask, next, other) == Turn(ask, next, Each(soft, other))

\* What fails may be done without, or done otherwise, unless the fetch has
\* been cancelled.
Soft == Failures \ {"cancelled"}
Try(ask, next, other) == TryIf(Soft, ask, next, other)
May(ask, next) == Try(ask, next, next)

\* Local data decides: what an answer said, what an option asks for.
Choose(labels) == [does |-> "choose", to |-> labels]

\* Deviation: what is said to be the last page asks for one more.
BadRepeat(again, next, cap) ==
  [does |-> "repeat", again |-> again, next |-> again, cap |-> cap]

\* Another round, cap of them at most, or on.
Repeat(again, next, cap) == [does |-> "repeat", again |-> again, next |-> next, cap |-> cap]

\* The data at hand ends the leg, with a verdict of its own or that of the
\* leg before.
Give(verdict) == [does |-> "give", verdict |-> verdict]

\* The snapshot is built, and names its source.
Show(source) == [does |-> "show", source |-> source]

-----------------------------------------------------------------------------
(* Plans.                                                                  *)

\* A leg starts at a label; after these failures the next one is tried.
Leg(at, soft) == [at |-> at, soft |-> soft]
Finally(at) == Leg(at, {})

\* The modes of the registry, the field that a token account replaces, the
\* legs of each mode and the steps.
Plan(token, legs, steps) == [token |-> token, legs |-> legs, steps |-> steps]

\* A provider that takes one way whatever mode is asked for.
OneWay(modes, at) == [m \in modes |-> <<Finally(at)>>]
Api == {"auto", "api"}
Web == {"auto", "web"}
=============================================================================
