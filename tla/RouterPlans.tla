---------------------------- MODULE RouterPlans ----------------------------
(***************************************************************************)
(* The fetches of the providers that show a balance or a spend: those of   *)
(* simple_providers.c, the proxies, the routers and the vendors' own APIs. *)
(***************************************************************************)
EXTENDS AccountPlans

\* One request with a key, over a transport that knows no cancellable.
DeafSteps(lookup, ask) ==
  [key |-> Must(lookup, "ask"), ask |-> Must(Deaf(ask), "shown"), shown |-> Show("api")]

-----------------------------------------------------------------------------
(* simple_providers.c: the environment's key comes before the configured   *)
(* one, be it that of a selected account.                                  *)

SimpleKey == EnvironmentFirst(ApiKey)
MoonshotReading == [errors |-> "rejected"] @@ Reading
ElevenLabsReading == Reading
CrofReading == Lenient               \* without a plan only the credits
VeniceReading == Reading
SimpleUsage(reading) == Request("balance", "api", reading, Plainly)
SimpleSteps(reading) == DeafSteps(SimpleKey, SimpleUsage(reading))

ZenMuxSubscriptionReading == Reading
ZenMuxSubscription == Deaf(Request("subscription", "api", ZenMuxSubscriptionReading, Refused))
ZenMuxPayAsYouGo == Reading
ZenMuxBalance == Deaf(Request("balance", "api", ZenMuxPayAsYouGo, Refused))
ZenMuxSteps ==
  [key          |-> Must(SimpleKey, "subscription"),
   subscription |-> Must(ZenMuxSubscription, "balance"),
   balance      |-> TryIf(Soft \ {"denied"}, ZenMuxBalance, "shown", "shown"),
   shown        |-> Show("api")]

\* The cancellable is looked at again when the answer has come.
DeepSeekRequest(source, reading) == Request("balance", source, reading, Refused)
DeepSeekReading == Reading
DeepSeekPlatformReading == [errors |-> "rejected", refusal |-> "rejected"] @@ Lenient
DeepSeekPlatformToken == Lookup("platform token", "web", "none")
DeepSeekSteps ==
  [key      |-> Must(ApiKey, "ask"),
   ask      |-> Must(DeepSeekRequest("api", DeepSeekReading), "shown"),
   shown    |-> Show("api"),
   platform |-> Must(DeepSeekPlatformToken, "summary"),
   summary  |-> Must(DeepSeekRequest("web", DeepSeekPlatformReading), "webShown"),
   webShown |-> Show("web"),
   either   |-> TryIf({"absent"}, ApiKey, "ask", "platform")]
DeepSeekLegs ==
  [auto |-> <<Finally("either")>>, api |-> <<Finally("key")>>, web |-> <<Finally("platform")>>]

-----------------------------------------------------------------------------
(* Kilo: an API token, or the session of the command line.                 *)

KiloSession == Lookup("session", "cli", "none")
KiloReading == [errors |-> "rejected", refusal |-> "denied", signedOut |-> "absent"] @@ Lenient
KiloUsage(source) ==
  Deaf(Request("usage", source, KiloReading, [r \in {"404"} |-> "absent"] @@ Refused))
KiloSteps ==
  [key      |-> Must(ApiKey, "ask"),
   ask      |-> Must(KiloUsage("api"), "shown"),
   shown    |-> Show("api"),
   session  |-> Must(KiloSession, "cliAsk"),
   cliAsk   |-> Must(KiloUsage("cli"), "cliShown"),
   cliShown |-> Show("cli"),
   first    |-> TryIf({"absent"}, ApiKey, "try", "session"),
   try      |-> TryIf({"denied"}, KiloUsage("api"), "shown", "session")]
KiloLegs ==
  [auto |-> <<Finally("first")>>, api |-> <<Finally("key")>>, cli |-> <<Finally("session")>>]

-----------------------------------------------------------------------------
(* Proxies.                                                                *)

ClawRouterReading == Lenient         \* no budget: the counts alone
LlmProxyReading == Lenient           \* no provider has a quota
ProxyUsage(reading, statuses) == Deaf(Request("usage", "api", reading, statuses))
ProxySteps(usage) ==
  [key   |-> Must(ApiKey, "base"),
   base  |-> Must(BaseUrl, "ask"),
   ask   |-> Must(usage, "shown"),
   shown |-> Show("api")]
ClawRouterSteps == ProxySteps(ProxyUsage(ClawRouterReading, Refused))
LlmProxySteps == ProxySteps(ProxyUsage(LlmProxyReading, Plainly))

\* A selected account's key, else the environment's, else the configured one.
OpenRouterReading == Reading
OpenRouterCredits == Deaf(Request("credits", "api", OpenRouterReading, Plainly))
OpenRouterSteps == ProxySteps(OpenRouterCredits)

\* Health, models and savings must be told; metrics may be.
WayfinderGet(what, reading) ==
  Request(what, "api", reading,
          [r \in {"302"} |-> "denied"] @@ [r \in {"unreachable"} |-> "rejected"])
WayfinderUsage == Reading
WayfinderSteps ==
  [base    |-> Must(BaseUrl, "health"),
   health  |-> Must(WayfinderGet("health", WayfinderUsage), "models"),
   models  |-> Must(WayfinderGet("models", WayfinderUsage), "savings"),
   savings |-> Must(WayfinderGet("savings", WayfinderUsage), "metrics"),
   metrics |-> May(WayfinderGet("metrics", Lenient), "shown"),
   shown   |-> Show("api")]

-----------------------------------------------------------------------------
(* Vendors.                                                                *)

\* A page that promises another one beyond the last, or one already seen.
OpenAIPage == [errors |-> "malformed"] @@ Lenient
OpenAIPages(what) == Deaf(Request(what, "api", OpenAIPage, Refused))
OpenAISteps ==
  [key         |-> Must(ApiKey, "project"),
   project     |-> Must(Setting("project", "api"), "costs"),
   costs       |-> Must(OpenAIPages("costs"), "moreCosts"),
   moreCosts   |-> Repeat("costs", "completions", MaxItems),
   completions |-> Must(OpenAIPages("completions"), "more"),
   more        |-> Repeat("completions", "shown", MaxItems),
   shown       |-> Show("api")]

\* "absent" is the team, "limited" a server that is busy.
XaiStatuses == [r \in {"404"} |-> "absent"] @@ Limiting @@ Refused
XaiBalance == Request("balance", "api", Reading, XaiStatuses)
XaiHistory == Lenient
XaiUsage == Request("history", "api", XaiHistory, XaiStatuses)
XaiSteps ==
  [key     |-> Must(ApiKey, "team"),
   team    |-> TryIf({"invalid"}, Setting("team", "api"), "balance", "noTeam"),
   noTeam  |-> Choose({"absent", "invalid"}),
   absent  |-> Give("absent"),
   invalid |-> Give("invalid"),
   balance |-> Must(XaiBalance, "history"),
   history |-> TryIf(Soft \ {"denied"}, XaiUsage, "shown", "shown"),
   shown   |-> Show("api")]

\* A chat of one word shows that the deployment answers.
AzureModel == Lenient
AzureChat == Request("chat", "api", AzureModel, [r \in {"unreachable"} |-> "rejected"])
AzureSteps ==
  [key        |-> Must(ApiKey, "endpoint"),
   endpoint   |-> Must(BaseUrl, "deployment"),
   deployment |-> Must(Setting("deployment", "api"), "chat"),
   chat       |-> Must(AzureChat, "shown"),
   shown      |-> Show("api")]

\* What the pages up to the last one read spent is shown, complete or not.
AiAndPage == Lenient
AiAndStatuses == [r \in {"402"} |-> "limited"] @@ Limiting @@ Denying({"401"})
AiAndLogs == Request("logs", "api", AiAndPage, AiAndStatuses)
AiAndSteps ==
  [key   |-> Must(ApiKey, "logs"),
   logs  |-> Must(AiAndLogs, "more"),
   more  |-> Repeat("logs", "shown", MaxItems),
   shown |-> Show("api")]
=============================================================================
