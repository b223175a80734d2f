---------------------------- MODULE SessionPlans ----------------------------
(***************************************************************************)
(* The fetches of the providers that are read through a browser's session, *)
(* a database of the program they belong to, or a cloud's own tools.       *)
(***************************************************************************)
EXTENDS VendorPlans

\* Wherever a redirection leads away from the origin, the credential is not
\* followed there.
OriginKept == Denying({"302"}) @@ Refused

\* A session from the configuration or the environment.
Session(what) ==
  [Lookup(what, "web", "cookie") EXCEPT !.sees = [found |-> "ok", missing |-> "denied"]]
Pasted(what) ==
  [Lookup(what, "web", "cookie") EXCEPT !.sees = @ @@ [malformed |-> "invalid"]]

-----------------------------------------------------------------------------
\* Windsurf: its web session, else the plan that the editor has cached.
WindsurfPlanStatus == Lenient
WindsurfCachedPlan == [empty |-> "absent"] @@ Reading
WindsurfWeb == Request("plan status", "web", WindsurfPlanStatus, OriginKept)
WindsurfDatabase == Deaf(ReadFile("plan info", "cli", WindsurfCachedPlan))

WindsurfSteps ==
  [session    |-> Must(Session("session"), "status"),
   status     |-> Must(WindsurfWeb, "webShown"),
   webShown   |-> Show("web"),
   cached     |-> Must(WindsurfDatabase, "localShown"),
   localShown |-> Show("local")]
WindsurfLegs ==
  [auto |-> <<Leg("session", Soft), Finally("cached")>>,
   web |-> <<Finally("session")>>, cli |-> <<Finally("cached")>>]

\* IBM Bob: the profile lists instances and their teams, each of which has a
\* budget; one budget that cannot be read ends the fetch.
IBMBobProfile == [refusal |-> "invalid"] @@ Lenient     \* a region that is not IBM's
IBMBobRequest(what, reading) == Request(what, "api", reading, Refused)
IBMBobBudget == Reading
IBMBobSteps ==
  [key     |-> Must(ApiKey, "profile"),
   profile |-> Must(Exchange(IBMBobRequest("profile", IBMBobProfile)), "teams"),
   teams   |-> Choose({"none", "budget"}),
   none    |-> Give("absent"),
   budget  |-> Must(IBMBobRequest("budget", IBMBobBudget), "more"),
   more    |-> Repeat("budget", "shown", MaxItems),
   shown   |-> Show("api")]

-----------------------------------------------------------------------------
(* Vertex AI: gcloud's credentials, and two series of its monitoring.      *)

VertexCredentials == Exchange(ReadFile("credentials", "oauth", Reading))
VertexToken == Exchange(Run("token", "oauth", Reading))
VertexRefresh ==
  Exchange(Request("refresh", "oauth", Reading,
                   Denying({"400", "401", "302"}) @@ [r \in Statuses |-> "malformed"]))
VertexSeries(what) == Request(what, "oauth", Lenient, OriginKept)

\* Of a series that has no end a hundred pages are read.
VertexPages(page, more, next) ==
  (page :> Must(VertexSeries(page), more)) @@ (more :> Repeat(page, next, MaxItems))

VertexSteps ==
  VertexPages("usage", "moreUsage", "limits") @@ VertexPages("limits", "moreLimits", "shown")
  @@ [credentials |-> Must(VertexCredentials, "project"),
      project     |-> Must(Lookup("project", "oauth", "none"), "account"),
      account     |-> Choose({"gcloud", "refresh", "header"}),
      gcloud      |-> Must(VertexToken, "header"),
      refresh     |-> Must(VertexRefresh, "header"),
      header      |-> Must(Setting("header", "oauth"), "usage"),
      shown       |-> Show("oauth")]
VertexModes == {"auto", "oauth"}

-----------------------------------------------------------------------------
(* StepFun: a token, renewed or got anew with the password.                *)

\* A token of the configuration's own comes before the account's cookie.
StepFunToken == EnvironmentFirst(Lookup("token", "web", "cookie"))
StepFunPassword == Lookup("password", "web", "none")
StepFunRequest(what, reading, statuses) ==
  Request(what, "web", reading, statuses @@ Denying({"302"}))
StepFunIngress == Exchange(StepFunRequest("ingress", Unread, Denying(Statuses)))
StepFunGrant(what) == Exchange(StepFunRequest(what, Reading, Denying(Statuses)))
StepFunUsageReading == [errors |-> "denied"] @@ Reading
StepFunUsage == StepFunRequest("usage", StepFunUsageReading, Refused)
StepFunPlan == Exchange(StepFunRequest("plan", Lenient, Plainly))

StepFunLogin(ingress, device, login, next) ==
  (ingress :> Must(StepFunIngress, device))
  @@ (device :> Must(StepFunGrant("device"), login))
  @@ (login :> Must(StepFunGrant("login"), next))

\* Without a plan's name the usage is shown all the same, and whatever the
\* reason is.
StepFunQuery(usage, next, exits) ==
  (usage :> Turn(StepFunUsage, next, exits))
StepFunSteps ==
  StepFunLogin("ingress", "device", "login", "usage")
  @@ StepFunLogin("ingress2", "device2", "login2", "usage2")
  @@ StepFunQuery("usage", "plan", Each({"denied"}, "refresh"))
  @@ StepFunQuery("usage2", "plan", Each({}, Fail))
  @@ [off      |-> Must([Setting("source", "web")
                           EXCEPT !.sees = [valid |-> "ok", off |-> "unsupported"]], "token"),
      token    |-> TryIf({"absent"}, StepFunToken, "usage", "password"),
      password |-> Must([StepFunPassword EXCEPT !.sees.missing = "denied"], "ingress"),
      refresh  |-> TryIf(Failures, StepFunGrant("refresh"), "usage2", "again"),
      again    |-> Must([StepFunPassword EXCEPT !.sees.missing = "denied"], "ingress2"),
      plan     |-> TryIf(Failures, StepFunPlan, "shown", "shown"),
      shown    |-> Show("web")]

-----------------------------------------------------------------------------
\* ZoomMate: two hosts, of which the second is asked when the first fails.
ZoomMateContext == Pasted("capture")
ZoomMateReading == Lenient           \* without a budget nothing is used up
ZoomMateStatus == Request("credits", "web", ZoomMateReading, Refused)
ZoomMateSteps ==
  [context |-> Must(ZoomMateContext, "credits"),
   credits |-> TryIf({"network", "rejected"}, ZoomMateStatus, "shown", "other"),
   other   |-> Must(Told(ZoomMateStatus), "shown"),
   shown   |-> Show("web")]

\* Notion: a workspace may have no allowance at all.
NotionStatuses == Denying({"401"})
NotionSpaces == [empty |-> "absent"] @@ Reading
NotionRateLimit == [refusal |-> "unsupported"] @@ Lenient
NotionPost(what, reading) == Request(what, "web", reading, NotionStatuses)
NotionSource == Setting("cookie source", "web")      \* only a pasted one will do
NotionSteps ==
  [source |-> Must(NotionSource, "context"),
   context |-> Must(Pasted("capture"), "spaces"),
   spaces |-> Must(Exchange(NotionPost("spaces", NotionSpaces)), "limits"),
   limits |-> Must(NotionPost("limits", NotionRateLimit), "shown"),
   shown  |-> Show("web")]

-----------------------------------------------------------------------------
(* OpenCode Go: its workspace page, or the rows of its database.           *)

OpenCodeGoCookie == Lookup("cookie", "web", "cookie")
OpenCodeGoRequest(what, reading) == Request(what, "web", reading, Refused)
OpenCodeGoWorkspace == [signedOut |-> "denied"] @@ Reading
OpenCodeGoUsage == [signedOut |-> "unsupported"] @@ Reading   \* told as a denial
OpenCodeGoWorkspaces == Exchange(OpenCodeGoRequest("workspaces", OpenCodeGoWorkspace))
OpenCodeGoBalance == Reading
OpenCodeGoRows == [empty |-> "absent"] @@ Reading
OpenCodeGoDatabase == Deaf(ReadFile("rows", "cli", OpenCodeGoRows))

\* Found on the first of two pages, or on the second unless cancelled.
OpenCodeGoBalances(page, billing, found, none) ==
  (page :> Turn(OpenCodeGoRequest("balance", OpenCodeGoBalance), found,
                ("cancelled" :> none) @@ Each(Soft, billing)))
  @@ (billing :> TryIf(Failures, OpenCodeGoRequest("billing", OpenCodeGoBalance), found, none))

\* The balance is looked for whatever the page said, and alone will do if the
\* page could be read and said nothing.
OpenCodeGoWeb ==
  OpenCodeGoBalances("balance", "billing", "webShown", "webShown")
  @@ OpenCodeGoBalances("balanceOnly", "billingOnly", "webShown", "unreadable")
  @@ OpenCodeGoBalances("signedOut", "signedOutToo", "denied", "denied")
  @@ [cookie     |-> Must(OpenCodeGoCookie, "workspace"),
      workspace  |-> Choose({"discover", "page"}),
      discover   |-> TryIf({"malformed"}, OpenCodeGoWorkspaces, "page", "post"),
      post       |-> Must(OpenCodeGoWorkspaces, "page"),
      page       |-> Turn(OpenCodeGoRequest("page", OpenCodeGoUsage), "balance",
                          [malformed |-> "balanceOnly", unsupported |-> "signedOut"]),
      unreadable |-> Give("malformed"),
      denied     |-> Give("denied"),
      webShown   |-> Show("web")]

\* Of two failures the first one is told.
OpenCodeGoSteps ==
  OpenCodeGoWeb
  @@ [either     |-> TryIf({"absent"}, OpenCodeGoCookie, "workspace", "local"),
      local      |-> Must(OpenCodeGoDatabase, "localShown"),
      fallback   |-> TryIf(Failures, OpenCodeGoDatabase, "localShown", "first"),
      first      |-> Give("earlier"),
      localShown |-> Show("local")]
OpenCodeGoLegs ==
  [auto |-> <<Leg("either", Soft), Finally("fallback")>>, web |-> <<Finally("cookie")>>]

-----------------------------------------------------------------------------
(* Qwen Cloud: a security token must be had before anything is asked.      *)

QwenCloudCookie == Pasted("cookie")
QwenCloudPage == Exchange(Request("dashboard", "web", [signedOut |-> "denied"] @@ Reading, Plainly))
QwenCloudUserInfo == Exchange(Request("user info", "web", [signedOut |-> "denied"] @@ Reading, Denying(Statuses)))
QwenCloudReading == [errors |-> "rejected", refusal |-> "denied", signedOut |-> "denied"] @@ Reading
QwenCloudApi(what, reading) == Request(what, "web", reading, Refused)
QwenCloudSteps ==
  [cookie    |-> Must(QwenCloudCookie, "endpoints"),
   endpoints |-> Must(BaseUrl, "page"),
   page      |-> Try(QwenCloudPage, "usage", "inCookie"),
   inCookie  |-> Choose({"usage", "userInfo"}),
   userInfo  |-> Must(QwenCloudUserInfo, "usage"),
   usage     |-> Must(QwenCloudApi("usage", QwenCloudReading), "plan"),
   plan      |-> May(Exchange(QwenCloudApi("subscription", Unread)), "config"),
   config    |-> May(Exchange(QwenCloudApi("quota config", Unread)), "shown"),
   shown     |-> Show("web")]
=============================================================================
