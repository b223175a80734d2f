----------------------------- MODULE CodingPlans -----------------------------
(***************************************************************************)
(* The fetches of the providers in api_providers3.c.                       *)
(***************************************************************************)
EXTENDS ApiPlans

\* The configured cookie, else one from the environment.
Cookie == Lookup("cookie", "web", "cookie")

-----------------------------------------------------------------------------
(* MiniMax.                                                                *)

MiniMaxReading == [errors |-> "rejected", signedOut |-> "denied"] @@ Reading
MiniMaxQuota == Request("quota", "api", MiniMaxReading, Refused)
MiniMaxSession == Request("quota", "web", MiniMaxReading, Refused)

\* A region has two addresses; when the first denies, the region denies
\* however the second fails.
MiniMaxFirst(denied, legacy) ==
  Turn(MiniMaxQuota, "shown", [v \in {"denied"} |-> denied] @@ Each(Soft, legacy))

\* China is tried after a denial, and fails with another.
MiniMaxSteps ==
  [key         |-> Must(ApiKey, "region"),
   platform    |-> Must(ApiKey, "prefix"),
   prefix      |-> Choose({"region", "payAsYouGo"}),
   payAsYouGo  |-> Give("absent"),
   region      |-> Choose({"world", "china"}),
   world       |-> MiniMaxFirst("worldDenied", "worldLegacy"),
   worldLegacy |-> TryIf({"denied"}, MiniMaxQuota, "shown", "second"),
   worldDenied |-> TryIf(Failures, MiniMaxQuota, "shown", "second"),
   second      |-> MiniMaxFirst("denials", "secondLegacy"),
   secondLegacy |-> Try(MiniMaxQuota, "shown", "denied"),
   china       |-> MiniMaxFirst("denials", "chinaLegacy"),
   chinaLegacy |-> Must(MiniMaxQuota, "shown"),
   denials     |-> TryIf(Failures, MiniMaxQuota, "shown", "denied"),
   denied      |-> Give("denied"),
   shown       |-> Show("api"),
   cookie      |-> Must(Cookie, "session"),
   session     |-> Must(MiniMaxSession, "sessionShown"),
   sessionShown |-> Show("web")]

MiniMaxLegs ==
  [auto |-> <<Leg("platform", Soft), Finally("cookie")>>,
   web  |-> <<Finally("cookie")>>,
   api  |-> <<Finally("key")>>]

-----------------------------------------------------------------------------
(* Alibaba.                                                                *)

AlibabaReading ==
  [errors |-> "rejected", refusal |-> "denied", signedOut |-> "unsupported"] @@ Reading
AlibabaQuota == Request("quota", "api", AlibabaReading, [r \in {"404"} |-> "unsupported"] @@ Refused)
AlibabaPage == Exchange(Request("dashboard", "web", Lenient, Plainly))
AlibabaConsole == Request("quota", "web", AlibabaReading, Refused)

\* The dashboard page has a fresh token, or the cookie has one.
AlibabaSteps ==
  [key        |-> Must(ApiKey, "region"),
   fallback   |-> TryIf({"absent"}, ApiKey, "region", "noKey"),
   noKey      |-> Give("earlier"),
   region     |-> Choose({"world", "china"}),
   world      |-> TryIf({"denied", "unsupported", "malformed"}, AlibabaQuota, "shown", "china"),
   china      |-> Must(AlibabaQuota, "shown"),
   shown      |-> Show("api"),
   cookie     |-> Must(Cookie, "webRegion"),
   webRegion  |-> Choose({"worldPage", "chinaPage"}),
   worldPage  |-> May(AlibabaPage, "worldToken"),
   worldToken |-> Choose({"worldConsole", "chinaPage"}),
   worldConsole |-> TryIf({"denied", "unsupported", "rejected"}, AlibabaConsole, "webShown", "chinaPage"),
   chinaPage  |-> May(AlibabaPage, "chinaToken"),
   chinaToken |-> Choose({"chinaConsole", "noToken"}),
   noToken    |-> Give("denied"),
   chinaConsole |-> Must(AlibabaConsole, "webShown"),
   webShown   |-> Show("web")]

AlibabaLegs ==
  [auto |-> <<Leg("cookie", Soft), Finally("fallback")>>,
   web  |-> <<Finally("cookie")>>,
   api  |-> <<Finally("key")>>]

-----------------------------------------------------------------------------
(* Doubao.                                                                 *)

DoubaoCodingPlan == Lenient
DoubaoAgentPlan == Lenient
DoubaoPlan(reading) == Request("plan usage", "api", reading, Refused)

DoubaoLimits == Lenient             \* limits that the headers tell or do not
DoubaoStatuses ==                   \* a model may be forbidden or unknown
  [r \in {"401"} |-> "denied"] @@ [r \in {"403", "404"} |-> "unsupported"] @@ [r \in {"429"} |-> "ok"]
DoubaoProbe == Request("probe", "api", DoubaoLimits, DoubaoStatuses)

DoubaoCliUsage == [errors |-> "malformed", signedOut |-> "denied"] @@ Reading
DoubaoArkcli == Run("usage", "cli", [refusal |-> "denied"] @@ DoubaoCliUsage)

\* With a signing key the coding plan, or the agent plan when that is empty.
\* With a plain key up to three models are probed; a probe that finds
\* everything used is repeated.
DoubaoSteps ==
  [signing   |-> TryIf({"absent"}, Lookup("signing key", "api", "none"), "coding", "key"),
   coding    |-> Must(DoubaoPlan(DoubaoCodingPlan), "empty"),
   empty     |-> Choose({"agent", "shown"}),
   agent     |-> Must(DoubaoPlan(DoubaoAgentPlan), "shown"),
   key       |-> Must(ApiKey, "probe"),
   probe     |-> TryIf({"unsupported"}, DoubaoProbe, "exhausted", "second"),
   second    |-> TryIf({"unsupported"}, DoubaoProbe, "exhausted", "third"),
   third     |-> TryIf({"unsupported"}, DoubaoProbe, "exhausted", "noModel"),
   noModel   |-> Choose({"forbidden", "unknown"}),
   forbidden |-> Give("denied"),
   unknown   |-> Give("rejected"),
   exhausted |-> Choose({"confirm", "shown"}),
   confirm   |-> May(DoubaoProbe, "shown"),
   shown     |-> Show("api"),
   arkcli    |-> Must(DoubaoArkcli, "cliShown"),
   cliShown  |-> Show("cli")]

\* Without a key of either kind the command-line tool.
DoubaoLegs ==
  [auto |-> <<Leg("signing", {"absent"}), Finally("arkcli")>>,
   api  |-> <<Finally("signing")>>,
   cli  |-> <<Finally("arkcli")>>]
=============================================================================
