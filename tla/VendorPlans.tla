---------------------------- MODULE VendorPlans ----------------------------
(***************************************************************************)
(* The fetches of the vendors that have a source file each.                *)
(***************************************************************************)
EXTENDS RouterPlans

\* A second attempt after a busy server or a lost connection; what the second
\* one meets is told as a failure.
Busy == [r \in {"429", "500"} |-> "limited"]
Passing == {"network", "limited"}
Told(ask) ==
  [ask EXCEPT !.sees = [r \in DOMAIN @ |-> IF @[r] \in Passing THEN "rejected" ELSE @[r]]]
Twice(at, again, ask, next) ==
  (at :> TryIf(Passing, ask, next, again)) @@ (again :> Must(Told(ask), next))

-----------------------------------------------------------------------------
\* The server's own word for failure is heard before its data.
ZaiReading == [errors |-> "rejected"] @@ Lenient
ZaiQuota == Deaf(Request("quota", "api", ZaiReading, Refused))
ZaiSteps ==
  [key   |-> Must(ApiKey, "host"),
   host  |-> Must(BaseUrl, "team"),
   team  |-> Must(Setting("team", "api"), "quota"),
   quota |-> Must(ZaiQuota, "shown"),
   shown |-> Show("api")]

CopilotReading == Reading            \* no finite quota, and none that is unlimited
CopilotUsage == Deaf(Request("usage", "api", CopilotReading, Refused))
CopilotSteps == ProxySteps(CopilotUsage)     \* the base is the enterprise's host

DeepInfraReading == Lenient          \* a month without spending is shown
DeepInfraStatuses == Busy @@ Refused
DeepInfraRequest(what) == Request(what, "api", DeepInfraReading, DeepInfraStatuses)
DeepInfraSteps ==
  Twice("checklist", "checklist2", DeepInfraRequest("checklist"), "usage")
  @@ Twice("usage", "usage2", DeepInfraRequest("usage"), "shown")
  @@ [key |-> Must(ApiKey, "checklist"), shown |-> Show("api")]

NeuralWattReading == Reading         \* no balance at all is an error
NeuralWattQuota == Request("quota", "api", NeuralWattReading, Busy @@ Refused)
NeuralWattSteps ==
  Twice("quota", "quota2", NeuralWattQuota, "shown")
  @@ [key |-> Must(ApiKey, "base"), base |-> Must(BaseUrl, "quota"), shown |-> Show("api")]

FireworksSummary == Lenient          \* no line item: no cost
FireworksUsage == Request("summary", "api", FireworksSummary, Limiting @@ Refused)
FireworksSteps ==
  [key     |-> Must(ApiKey, "slug"),
   slug    |-> Must(Lookup("account slug", "api", "none"), "address"),
   address |-> Must(BaseUrl, "summary"),
   summary |-> Must(FireworksUsage, "shown"),
   shown   |-> Show("api")]

CodebuffReading == Lenient
CodebuffUsage ==
  Deaf(Request("usage", "api", CodebuffReading, [r \in {"404"} |-> "absent"] @@ Refused))
CodebuffSteps == ProxySteps(CodebuffUsage)

ClinePassReading == [errors |-> "malformed"] @@ Lenient
ClinePassUsage == Request("limits", "api", ClinePassReading, Refused)
ClinePassSteps == DeafSteps(ApiKey, ClinePassUsage)

\* The newest of the quota files that the editors have written.
JetBrainsQuota == [empty |-> "absent"] @@ Reading
JetBrainsFile == Deaf(ReadFile("quota file", "cli", JetBrainsQuota))
JetBrainsSteps ==
  [file |-> Must(JetBrainsFile, "shown"), shown |-> Show("local")]

ZedReading == Reading
ZedUsage == Request("usage", "api", ZedReading, Denying({"302"}) @@ Refused)
ZedCredentials ==
  [Lookup("credentials", "api", "api key") EXCEPT !.sees = [found |-> "ok", missing |-> "denied"]]
ZedEndpoint ==
  [Setting("endpoint", "api") EXCEPT !.sees = [valid |-> "ok", invalid |-> "invalid", untrusted |-> "denied"]]
ZedSteps ==
  [credentials |-> Must(ZedCredentials, "endpoint"),
   endpoint    |-> Must(ZedEndpoint, "usage"),
   usage       |-> Must(ZedUsage, "shown"),
   shown       |-> Show("api")]

-----------------------------------------------------------------------------
(* Grok: the command line's agent, or its billing page.                    *)

\* "unsupported" is an agent that does not know the method.
GrokRpcOutput == [errors |-> "rejected", refusal |-> "unsupported"] @@ Lenient
GrokAgent == Run("agent", "cli", GrokRpcOutput)
GrokTeam == "unsupported"    \* no personal team has a bill
GrokWebBilling == [errors |-> "rejected", refusal |-> "denied", signedOut |-> GrokTeam] @@ Reading
GrokBilling == Request("billing", "web", GrokWebBilling, Denying({"302"}) @@ Refused)
GrokSession ==
  [Lookup("session", "web", "none")
     EXCEPT !.sees = [found |-> "ok", missing |-> "denied", unsafe |-> "malformed"]]

\* What the credentials file says of a team's member is shown for want of more.
GrokIdentity(source) == Ask("usage", "identity", source, Unread)

GrokCli(agent, team, other, notTeam) ==
  (agent :> Turn(GrokAgent, "cliShown",
                 (GrokTeam :> team) @@ Each(Failures, other)))
  @@ (team :> Choose({"cliIdentity", notTeam}))

GrokSteps ==
  GrokCli("agent", "team", Fail, "cliFailed")
  @@ GrokCli("first", "firstTeam", "session", "session")
  @@ [cliFailed   |-> Give("rejected"),
      cliIdentity |-> Must(GrokIdentity("cli"), "cliShown"),
      cliShown    |-> Show("cli"),
      session     |-> Must(GrokSession, "billing"),
      billing     |-> TryIf({GrokTeam}, GrokBilling, "webShown", "webTeam"),
      webTeam     |-> Choose({"webIdentity", "noTeam"}),
      noTeam      |-> Give("rejected"),
      webIdentity |-> Must(GrokIdentity("web"), "webShown"),
      webShown    |-> Show("web")]
GrokLegs ==
  [auto |-> <<Finally("first")>>, cli |-> <<Finally("agent")>>, web |-> <<Finally("session")>>]
=============================================================================
