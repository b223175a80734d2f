---------------------------- MODULE AccountPlans ----------------------------
(***************************************************************************)
(* The fetches of the providers in api_providers4.c and local_providers.c. *)
(***************************************************************************)
EXTENDS CodingPlans

\* A body that is not looked at.
Unread == [full |-> "ok"]

-----------------------------------------------------------------------------
(* Factory.                                                                *)

FactoryKey == Lookup("key", "api", "api key")     \* the .env file comes last
FactoryIdentity == Request("identity", "api", Lenient, Refused)
FactoryBillingLimits == Reading
FactoryBilling == Request("billing", "api", FactoryBillingLimits, Refused)
FactoryLegacyUsage == Lenient
FactoryLegacy == Request("usage", "api", FactoryLegacyUsage, Refused)

\* One base address, to whose failures these labels belong.
FactoryBase(auth, billing, legacy, denied, failed) ==
  LET exits == [v \in {"denied"} |-> denied] @@ Each(Soft, failed)
  IN (auth :> Turn(FactoryIdentity, billing, exits))
     @@ (billing :> Try(FactoryBilling, "shown", legacy))
     @@ (legacy :> Turn(FactoryLegacy, "shown", exits))

\* The second base is tried whatever the first one said, and a denial by
\* either is what is told in the end.
FactorySteps ==
  FactoryBase("identity", "billing", "legacy", "identityDenied", "identityOther")
  @@ FactoryBase("identityOther", "billingOther", "legacyOther", Fail, Fail)
  @@ FactoryBase("identityDenied", "billingDenied", "legacyDenied", "denied", "denied")
  @@ [key    |-> Must(FactoryKey, "identity"),
      denied |-> Give("denied"),
      shown  |-> Show("api"),
      web    |-> Give("unsupported")]

\* The command line's mode is the key's too.
FactoryLegs ==
  [auto |-> <<Finally("key")>>, api |-> <<Finally("key")>>,
   cli |-> <<Finally("key")>>, web |-> <<Finally("web")>>]

-----------------------------------------------------------------------------
(* Gemini.                                                                 *)

\* A notice that the product is no longer offered may come with any refusal;
\* 400 stands for those that carry it.
GeminiDeprecation == [r \in {"400"} |-> "unsupported"]
GeminiRequest(what, reading, statuses) ==
  Request(what, "api", reading, GeminiDeprecation @@ statuses)

GeminiCredentials ==
  Exchange(ReadFile("credentials", "api", [empty |-> "absent", refusal |-> "unsupported"] @@ Reading))
GeminiClient == Exchange(Lookup("client", "api", "none"))
GeminiRefresh == Exchange(GeminiRequest("token", Reading, Denying(Statuses)))
GeminiCodeAssist == Exchange(GeminiRequest("code assist", [unreadable |-> "ok"] @@ Lenient, Plainly))
GeminiProject == Exchange(Request("projects", "api", Lenient, Plainly))
GeminiParseQuota == Reading          \* no bucket is an error
GeminiQuota == GeminiRequest("quota", GeminiParseQuota, Refused)

\* A token that has expired is renewed; what code assist and the list of
\* projects say is only needed to ask better.
GeminiFetch ==
  [assist   |-> TryIf(Soft \ {"unsupported"}, GeminiCodeAssist, "project", "projects"),
   project  |-> Choose({"quota", "projects"}),
   projects |-> May(GeminiProject, "quota"),
   quota    |-> Must(GeminiQuota, "shown"),
   shown    |-> Show("api")]

GeminiSteps ==
  [credentials |-> Must(GeminiCredentials, "expired"),
   expired     |-> Choose({"assist", "renewable"}),
   renewable   |-> Choose({"client", "stale"}),
   stale       |-> Give("denied"),
   client      |-> Must(GeminiClient, "refresh"),
   refresh     |-> Must(GeminiRefresh, "assist")] @@ GeminiFetch

-----------------------------------------------------------------------------
(* Antigravity.                                                            *)

AntigravityCredentials == Lookup("credentials", "oauth", "api key")
AntigravityRequest(what, reading, statuses) == Request(what, "oauth", reading, statuses)
AntigravityClient == Exchange(Lookup("client", "oauth", "none"))
AntigravityRefresh ==
  Exchange(AntigravityRequest("token", Reading, Denying(Statuses)))
AntigravityAccount == Exchange(AntigravityRequest("account", Lenient, Refused))
AntigravityOnboard == Exchange(AntigravityRequest("onboarding", Lenient, Plainly))
AntigravityRemoteUsage == Lenient
AntigravityForbidden == [r \in {"403"} |-> "unsupported"]
AntigravityModels ==
  AntigravityRequest("models", AntigravityRemoteUsage, AntigravityForbidden @@ Refused)
AntigravityQuota == AntigravityRequest("quota", AntigravityRemoteUsage, Denying(Statuses))

\* The quota is asked for when the models are forbidden, or are all full; in
\* the second case the models are shown without it, even after a cancellation.
AntigravityOAuth ==
  [oauth     |-> Must(AntigravityCredentials, "token"),
   fallback  |-> TryIf({"absent"}, AntigravityCredentials, "token", "noCredentials"),
   noCredentials |-> Give("earlier"),
   token     |-> Choose({"client", "account"}),
   client    |-> Must(AntigravityClient, "refresh"),
   refresh   |-> Must(AntigravityRefresh, "account"),
   account   |-> Must(AntigravityAccount, "project"),
   project   |-> Choose({"onboard", "models"}),
   onboard   |-> TryIf(Failures, AntigravityOnboard, "models", "models"),
   models    |-> TryIf({"unsupported"}, AntigravityModels, "full", "forbidden"),
   full      |-> Choose({"extra", "oauthShown"}),
   extra     |-> TryIf(Failures \ {"malformed"}, AntigravityQuota, "oauthShown", "oauthShown"),
   forbidden |-> Must(AntigravityQuota, "oauthShown"),
   oauthShown |-> Show("oauth")]

\* The language server of the editor that is running, at one of its ports.
AntigravityPorts == Setting("ports", "cli")
\* Only what a server said at last is told, not how it could not be reached.
AntigravityLocal(what, reading) ==
  Request(what, "cli", reading, [r \in Statuses \cup {"unreachable"} |-> "malformed"])
AntigravitySummary == [errors |-> "rejected"] @@ Reading
AntigravityModelConfigs == [errors |-> "rejected"] @@ Reading

\* A summary that is usable, else the models of the user's status, else those
\* of the command; what became of the first two is forgotten.
AntigravityCli ==
  [cli      |-> Must(AntigravityPorts, "summary"),
   summary  |-> Try(AntigravityLocal("summary", AntigravitySummary), "identity", "status"),
   identity |-> May(AntigravityLocal("identity", AntigravityModelConfigs), "cliShown"),
   status   |-> Try(AntigravityLocal("status", AntigravityModelConfigs), "cliShown", "command"),
   command  |-> Must(AntigravityLocal("command", AntigravityModelConfigs), "cliShown"),
   cliShown |-> Show("cli")]

AntigravitySteps == AntigravityOAuth @@ AntigravityCli
AntigravityLegs ==
  [auto |-> <<Leg("cli", Soft), Finally("fallback")>>,
   cli |-> <<Finally("cli")>>, oauth |-> <<Finally("oauth")>>]

-----------------------------------------------------------------------------
(* Ollama.                                                                 *)

OllamaCookie == Lookup("cookie", "web", "cookie")
OllamaValidation == Exchange(Request("validation", "api", Unread, ("400" :> "ok") @@ Refused))
OllamaApiTags == Lenient             \* the models are not shown, only the plan
OllamaTags == Request("tags", "api", OllamaApiTags, Refused)
OllamaSettings == [signedOut |-> "denied"] @@ Reading
OllamaSettingsPage == Request("settings page", "web", OllamaSettings, Refused)

OllamaSteps ==
  [key        |-> Must(ApiKey, "origins"),
   fallback   |-> TryIf({"absent"}, ApiKey, "origins", "noKey"),
   noKey      |-> Give("earlier"),
   origins    |-> Must(BaseUrl, "validation"),
   validation |-> Must(OllamaValidation, "tags"),
   tags       |-> Must(OllamaTags, "shown"),
   shown      |-> Show("api"),
   cookie     |-> Must(OllamaCookie, "page"),
   page       |-> Must(OllamaSettingsPage, "webShown"),
   webShown   |-> Show("web")]

OllamaLegs ==
  [auto |-> <<Leg("cookie", Soft), Finally("fallback")>>,
   web |-> <<Finally("cookie")>>, api |-> <<Finally("key")>>]

-----------------------------------------------------------------------------
(* Kiro and Augment: a command-line tool.                                  *)

CliUsage == [signedOut |-> "denied"] @@ Reading
KiroUsage == CliUsage
KiroWhoAmI == Exchange(Run("account", "cli", [empty |-> "ok", unreadable |-> "ok"] @@ CliUsage))
KiroContext == Exchange(Run("context", "cli", Lenient))

\* A login that is needed is the only thing the first command can say.
KiroSteps ==
  [binary  |-> Must(Setting("binary", "cli"), "account"),
   account |-> TryIf(Failures \ {"denied"}, KiroWhoAmI, "usage", "usage"),
   usage   |-> Must(Run("usage", "cli", KiroUsage), "context"),
   context |-> May(KiroContext, "shown"),
   shown   |-> Show("cli")]

AugmentUsage == CliUsage
AugmentSteps ==
  [binary |-> Must(Setting("binary", "cli"), "usage"),
   usage  |-> Must(Run("usage", "cli", AugmentUsage), "shown"),
   shown  |-> Show("cli")]

Cli == {"auto", "cli"}
=============================================================================
