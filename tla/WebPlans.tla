------------------------------ MODULE WebPlans ------------------------------
(***************************************************************************)
(* The fetches of the providers in api_providers5.c and in web_providers.c *)
(* to web_providers5.c.                                                    *)
(***************************************************************************)
EXTENDS SessionPlans

\* What earlier answers hold is only looked at when the last one has come.
ParsedAtLast == Choose({"malformed", "shown"})

-----------------------------------------------------------------------------
(* api_providers5.c                                                        *)

\* There is no default for the base.
OwnBase == [BaseUrl EXCEPT !.sees = @ @@ [missing |-> "absent"]]

\* Whose key it is decides whether a user or a team is asked for.
LiteLlmKeyInfo == Reading
LiteLlmRequest(what, reading) == Request(what, "api", reading, Plainly)
LiteLlmSteps ==
  [key    |-> Must(ApiKey, "base"),
   base   |-> Must(OwnBase, "info"),
   info   |-> Must(Exchange(LiteLlmRequest("key info", LiteLlmKeyInfo)), "detail"),
   detail |-> Must(LiteLlmRequest("detail", Reading), "shown"),
   shown  |-> Show("api")]

\* A key that the server does not call valid is a denial.
Sub2ApiReading == [refusal |-> "denied"] @@ Lenient
Sub2ApiUsage == Request("usage", "api", Sub2ApiReading, Refused)
Sub2ApiSteps ==
  [key   |-> Must(ApiKey, "base"),
   base  |-> Must(OwnBase, "usage"),
   usage |-> Must(Sub2ApiUsage, "shown"),
   shown |-> Show("api")]

(* Bedrock: what the cost explorer says was spent, and what CloudWatch     *)
(* counted, page after page.                                               *)

BedrockExport == Exchange(Run("export", "api", [signedOut |-> "denied"] @@ Reading))
BedrockRegion == Exchange(Run("region", "api", [failed |-> "ok"] @@ Lenient))
BedrockStaticKeys == Lookup("static keys", "api", "none")
BedrockProfile ==
  [profile |-> Must(Lookup("profile", "api", "none"), "export"),
   export  |-> Must(BedrockExport, "where"),
   where   |-> Choose({"region", "endpoint"}),
   region  |-> Must(BedrockRegion, "endpoint")]

\* 400 is the one that says there is no data yet, and that is no cost.
BedrockUnavailable == [r \in {"400"} |-> "ok"]
BedrockCostRoot == Lenient
BedrockCost == Request("cost", "api", BedrockCostRoot, BedrockUnavailable @@ Refused)
BedrockCloudWatchRoot == Lenient
BedrockActivity == Request("activity", "api", BedrockCloudWatchRoot, Plainly)

\* A list of pages that does not end is an error, of cost a fatal one.
BedrockSteps ==
  BedrockProfile
  @@ [settings  |-> Choose({"profile", "static"}),
      static    |-> Must(BedrockStaticKeys, "endpoint"),
      endpoint  |-> Must(BaseUrl, "cost"),
      cost      |-> Must(BedrockCost, "moreCost"),
      moreCost  |-> Repeat("cost", "costEnds", MaxItems),
      costEnds  |-> Choose({"endless", "watched", "shown"}),
      watched   |-> May(BedrockActivity, "moreWatch"),
      moreWatch |-> Repeat("watched", "shown", MaxItems),
      endless   |-> Give("malformed"),
      shown     |-> Show("api")]

-----------------------------------------------------------------------------
(* web_providers.c                                                         *)

\* Cursor: the pasted session, else that of the program itself; a pasted one
\* that is malformed is not replaced.
CursorCookie ==
  [Lookup("cookie", "web", "cookie") EXCEPT !.sees = @ @@ [malformed |-> "invalid"]]
CursorAppCookie == Lookup("program's session", "web", "none")
CursorGet(what, reading) == Request(what, "web", reading, Refused)
CursorUsage == [empty |-> "ok"] @@ Reading

\* Who it is and how many requests are asked for whatever became of the rest.
CursorSteps ==
  [cookie  |-> TryIf({"absent"}, CursorCookie, "summary", "app"),
   app     |-> Must(CursorAppCookie, "summary"),
   summary |-> Must(CursorGet("summary", CursorUsage), "user"),
   user    |-> TryIf(Failures, Exchange(CursorGet("user", Lenient)), "known", "shown"),
   known   |-> Choose({"legacy", "shown"}),
   legacy  |-> TryIf(Failures, CursorGet("requests", CursorUsage), "shown", "shown"),
   shown   |-> Show("web")]

\* OpenCode: every question is put in two ways.
OpenCodeResponse == [signedOut |-> "denied"] @@ Reading
OpenCodeRequest(what, reading) == Request(what, "web", reading, Refused)
OpenCodeWorkspaces == Exchange(OpenCodeRequest("workspaces", OpenCodeResponse))
OpenCodeUsage == [empty |-> "absent"] @@ OpenCodeResponse
OpenCodeSteps ==
  [cookie    |-> Must(Cookie, "workspace"),
   workspace |-> Choose({"list", "usage"}),
   list      |-> TryIf({"malformed"}, OpenCodeWorkspaces, "usage", "listPost"),
   listPost  |-> Must(OpenCodeWorkspaces, "usage"),
   usage     |-> TryIf({"malformed"}, OpenCodeRequest("usage", OpenCodeUsage), "shown", "usagePost"),
   usagePost |-> Must(OpenCodeRequest("usage", OpenCodeUsage), "shown"),
   shown     |-> Show("web")]

\* Devin: up to four addresses, the next one for a status that is no denial.
DevinUsage == Request("usage", "web", Reading, Refused)
DevinSteps ==
  [token        |-> Must(Lookup("token", "web", "none"), "organization"),
   organization |-> Must(Lookup("organization", "web", "none"), "first"),
   first        |-> TryIf({"rejected"}, DevinUsage, "shown", "second"),
   second       |-> TryIf({"rejected"}, DevinUsage, "shown", "third"),
   third        |-> TryIf({"rejected"}, DevinUsage, "shown", "fourth"),
   fourth       |-> Must(DevinUsage, "shown"),
   shown        |-> Show("web")]

-----------------------------------------------------------------------------
(* web_providers2.c                                                        *)

\* One request with a session.
SessionSteps(session, ask) ==
  [session |-> Must(session, "ask"), ask |-> Must(ask, "shown"), shown |-> Show("web")]

ManusReading == Reading
ManusCredits == Request("credits", "web", ManusReading, Refused)
ManusSteps == SessionSteps(Cookie, ManusCredits)

\* Amp: the command line, then a token, then a session.
AmpDisplay == [signedOut |-> "denied"] @@ Reading
AmpUsageApi == [errors |-> "rejected", refusal |-> "denied"] @@ AmpDisplay
AmpCli == Run("usage", "cli", AmpDisplay)
AmpApi == Request("usage", "api", AmpUsageApi, Refused)
AmpWeb == Request("settings page", "web", AmpDisplay, Refused)
AmpToken == Lookup("token", "api", "none")
AmpSteps ==
  [cli      |-> Must(Setting("binary", "cli"), "run"),
   run      |-> Must(AmpCli, "cliShown"),
   cliShown |-> Show("cli"),
   token    |-> Must(AmpToken, "api"),
   api      |-> Must(AmpApi, "shown"),
   shown    |-> Show("api"),
   either   |-> TryIf({"absent"}, AmpToken, "try", "cookie"),
   try      |-> Try(AmpApi, "shown", "instead"),
   instead  |-> Choose({"web", "none"}),
   none     |-> Give("rejected"),
   cookie   |-> Must(Lookup("cookie", "web", "none"), "web"),
   web      |-> Must(AmpWeb, "webShown"),
   webShown |-> Show("web")]
AmpLegs ==
  [auto |-> <<Leg("cli", Soft), Finally("either")>>, cli |-> <<Finally("cli")>>,
   api |-> <<Finally("token")>>, web |-> <<Finally("cookie")>>]

\* T3 Chat: 429 is the challenge of its host.
T3ChatContext == Lookup("capture", "web", "none")
T3ChatLines == Reading
T3ChatUsage == Request("usage", "web", T3ChatLines, Denying({"429"}) @@ Refused)
T3ChatSteps == SessionSteps(T3ChatContext, T3ChatUsage)

-----------------------------------------------------------------------------
(* web_providers3.c                                                        *)

SakanaBilling == Reading
SakanaPage(what) == Request(what, "web", SakanaBilling, OriginKept)
SakanaSteps ==
  [cookie  |-> Must(Lookup("cookie", "web", "none"), "billing"),
   billing |-> Must(SakanaPage("billing"), "payg"),
   payg    |-> May(SakanaPage("pay as you go"), "shown"),
   shown   |-> Show("web")]

AbacusRequest(what) == Request(what, "web", Unread, OriginKept)
AbacusResults == Choose({"denied", "malformed", "shown"})
AbacusSteps ==
  [cookie    |-> Must(Cookie, "compute"),
   compute   |-> Must(AbacusRequest("compute points"), "billing"),
   billing   |-> May(AbacusRequest("billing"), "results"),
   results   |-> AbacusResults,
   denied    |-> Give("denied"),
   malformed |-> Give("malformed"),
   shown     |-> Show("web")]

MistralCookie == Cookie              \* one that has a session in it
MistralUsage == Lenient
MistralCredits == Reading
MistralVibe == Reading
MistralRequest(what, reading) == Request(what, "web", reading, OriginKept)
MistralSteps ==
  [cookie  |-> Must(MistralCookie, "usage"),
   usage   |-> Must(MistralRequest("usage", MistralUsage), "token"),
   token   |-> Choose({"vibe", "credits"}),
   vibe    |-> May(MistralRequest("plan", MistralVibe), "credits"),
   credits |-> May(MistralRequest("credits", MistralCredits), "shown"),
   shown   |-> Show("web")]

-----------------------------------------------------------------------------
(* web_providers4.c                                                        *)

PlainRequest(what, reading) == Request(what, "web", reading, OriginKept)
MachineCookie == Lookup("cookie", "web", "none")

CommandCodeSteps ==
  [cookie       |-> Must(MachineCookie, "credits"),
   credits      |-> Must(PlainRequest("credits", Unread), "subscription"),
   subscription |-> May(PlainRequest("subscription", Unread), "parsed"),
   parsed       |-> ParsedAtLast,
   malformed    |-> Give("malformed"),
   shown        |-> Show("web")]

QoderQuota == Reading
QoderSteps == SessionSteps(Cookie, PlainRequest("quota", QoderQuota))
PerplexityCredits == Reading
PerplexitySteps == SessionSteps(MachineCookie, PlainRequest("credits", PerplexityCredits))

LongCatSteps ==
  [cookie    |-> Must(MachineCookie, "user"),
   user      |-> Must(PlainRequest("user", Unread), "usage"),
   usage     |-> Must(PlainRequest("usage", Unread), "fuel"),
   fuel      |-> May(PlainRequest("fuel packages", Unread), "parsed"),
   parsed    |-> ParsedAtLast,
   malformed |-> Give("malformed"),
   shown     |-> Show("web")]

-----------------------------------------------------------------------------
(* web_providers5.c                                                        *)

TokenPlanReading ==
  [errors |-> "rejected", refusal |-> "denied", signedOut |-> "denied"] @@ Reading
TokenPlanSummary == Request("summary", "web", TokenPlanReading, OriginKept)
TokenPlanSteps ==
  [cookie  |-> Must(MachineCookie, "host"),
   host    |-> Must(BaseUrl, "address"),
   address |-> Must(BaseUrl, "summary"),
   summary |-> Must(TokenPlanSummary, "shown"),
   shown   |-> Show("web")]

\* MiMo: without a session, or when it is denied, what was counted here.
MiMoRequest(what) == Request(what, "web", Unread, OriginKept)
MiMoLocal == Deaf(ReadFile("usage here", "local", Reading))
MiMoRead == Choose({"denied", "malformed", "shown"})
MiMoSteps ==
  [either     |-> TryIf({"absent"}, MachineCookie, "anyBase", "local"),
   anyBase    |-> Must(BaseUrl, "anyBalance"),
   anyBalance |-> TryIf({"denied"}, MiMoRequest("balance"), "detail", "local"),
   cookie     |-> Must(MachineCookie, "base"),
   base       |-> Must(BaseUrl, "balance"),
   balance    |-> Must(MiMoRequest("balance"), "detail"),
   detail     |-> May(MiMoRequest("plan"), "usage"),
   usage      |-> May(MiMoRequest("plan usage"), "read"),
   read       |-> MiMoRead,
   denied     |-> Give("denied"),
   malformed  |-> Give("malformed"),
   shown      |-> Show("web"),
   local      |-> Must(MiMoLocal, "localShown"),
   localShown |-> Show("local")]
MiMoLegs == [auto |-> <<Finally("either")>>, web |-> <<Finally("cookie")>>]
=============================================================================
