------------------------------ MODULE ApiPlans ------------------------------
(***************************************************************************)
(* The fetches of the providers in api_providers.c and api_providers2.c.   *)
(***************************************************************************)
EXTENDS FetchPlan

CONSTANT MaxItems   \* bound: projects, quotas, accounts that an answer lists

\* The configured key, else one from the environment.
ApiKey == Lookup("key", "api", "api key")
BaseUrl == Setting("base URL", "api")

\* One request with a key.
KeyedSteps(ask) ==
  [key |-> Must(ApiKey, "ask"), ask |-> Must(ask, "shown"), shown |-> Show("api")]

-----------------------------------------------------------------------------
(* api_providers.c                                                         *)

DeepgramStatuses == ("400" :> "invalid") @@ Refused
DeepgramProjectList == Reading       \* an empty list is an error
DeepgramProjects == Exchange(Request("projects", "api", DeepgramProjectList, DeepgramStatuses))
DeepgramReading == Lenient
DeepgramUsage == Request("usage", "api", DeepgramReading, DeepgramStatuses)

\* The configured project, or all that are listed; usages are added up.
DeepgramSteps ==
  [key      |-> Must(ApiKey, "base"),
   base     |-> Must(BaseUrl, "project"),
   project  |-> Choose({"projects", "usage"}),
   projects |-> Must(DeepgramProjects, "usage"),
   usage    |-> Must(DeepgramUsage, "more"),
   more     |-> Repeat("usage", "shown", MaxItems),
   shown    |-> Show("api")]

PoeBalanceReading == Lenient         \* a balance that is there must be a number
PoeBalance == Request("balance", "api", PoeBalanceReading, Refused)
PoeHistoryPage == Lenient            \* entries without a time are skipped
PoeHistory == Request("history", "api", PoeHistoryPage, Refused)
PoeHistoryPages == 5

\* A page that fails drops the whole history.
PoeSteps ==
  [key     |-> Must(ApiKey, "balance"),
   balance |-> Must(PoeBalance, "history"),
   history |-> Try(PoeHistory, "more", "shown"),
   more    |-> Repeat("history", "shown", PoeHistoryPages),
   shown   |-> Show("api")]

ChutesReading == Lenient
ChutesRequest(what) == Request(what, "api", ChutesReading, Refused)
ChutesSoft == Soft \ {"denied"}

\* Quotas are asked for when the subscription does not tell both windows.
ChutesSteps ==
  [key          |-> Must(ApiKey, "base"),
   base         |-> Must(BaseUrl, "subscription"),
   subscription |-> Must(ChutesRequest("subscription"), "known"),
   known        |-> Choose({"shown", "quotas"}),
   quotas       |-> TryIf(ChutesSoft, ChutesRequest("quotas"), "listed", "shown"),
   listed       |-> Choose({"quota", "shown"}),
   quota        |-> TryIf(ChutesSoft, ChutesRequest("quota usage"), "more", "more"),
   more         |-> Repeat("quota", "shown", MaxItems),
   shown        |-> Show("api")]

-----------------------------------------------------------------------------
(* api_providers2.c                                                        *)

SyntheticReading == Reading
SyntheticUsage == Request("usage", "api", SyntheticReading, Refused)

WarpReading == [errors |-> "rejected"] @@ Reading
WarpLimits == Request("limits", "api", WarpReading, Refused)

GroqActivityReading == Lenient       \* one malformed row is one too many
GroqActivity == Request("activity", "web", GroqActivityReading, Refused)
GroqExchange == Exchange(Request("session", "web", Reading, Refused))
GroqScalar == [errors |-> "rejected"] @@ Lenient
GroqMetric == Request("metric", "api", GroqScalar, Refused)
GroqQueries == 4

\* The console with a session, whose token is exchanged for a shorter one when
\* there is one; the metrics with a key.
GroqSteps ==
  [console  |-> Must(Lookup("session", "web", "cookie"), "kind"),
   kind     |-> Choose({"exchange", "renew", "claims"}),
   exchange |-> Must(GroqExchange, "claims"),
   renew    |-> Try(GroqExchange, "claims", "claims"),
   claims   |-> Must(Setting("organization claim", "web"), "consoleBase"),
   consoleBase |-> Must(BaseUrl, "activity"),
   activity |-> Must(GroqActivity, "consoleShown"),
   consoleShown |-> Show("console"),
   metrics  |-> Must(ApiKey, "base"),
   fallback |-> TryIf({"absent"}, ApiKey, "base", "noKey"),
   noKey    |-> Give("earlier"),
   base     |-> Must(BaseUrl, "metric"),
   metric   |-> Must(GroqMetric, "more"),
   more     |-> Repeat("metric", "shown", GroqQueries),
   shown    |-> Show("api")]

GroqLegs ==
  [auto |-> <<Leg("console", {"absent", "invalid", "denied"}), Finally("fallback")>>,
   web  |-> <<Finally("console")>>,
   api  |-> <<Finally("metrics")>>]

=============================================================================
