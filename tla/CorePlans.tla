------------------------------ MODULE CorePlans ------------------------------
(***************************************************************************)
(* The fetches of Codex, Claude and Kimi.                                  *)
(***************************************************************************)
EXTENDS WebPlans

(* Codex: a token, a session, or the command line's server.                *)

CodexToken ==
  [Lookup("token", "oauth", "none") EXCEPT !.sees = @ @@ [malformed |-> "invalid"]]
CodexCookie ==
  [Lookup("cookie", "web", "none") EXCEPT !.sees = @ @@ [malformed |-> "invalid"]]
CodexHttpUsage == Reading            \* no window and no balance is an error
CodexUsage(source) == Request("usage", source, CodexHttpUsage, Refused)

\* The server is asked line by line and knows no cancellable.
CodexRateLimits == [errors |-> "rejected"] @@ Lenient
CodexAccount == Exchange(Deaf(Run("account", "cli", CodexRateLimits)))
CodexServer == Deaf(Run("rate limits", "cli", CodexRateLimits))

CodexSteps ==
  [token      |-> Must(CodexToken, "usage"),
   usage      |-> Must(CodexUsage("oauth"), "oauthShown"),
   oauthShown |-> Show("oauth"),
   cookie     |-> Must(CodexCookie, "webUsage"),
   webUsage   |-> Must(CodexUsage("web"), "webShown"),
   webShown   |-> Show("web"),
   server     |-> Must(CodexServer, "account"),
   account    |-> TryIf(Failures, CodexAccount, "cliShown", "cliShown"),
   cliShown   |-> Show("cli")]

\* Only a token that is missing or refused lets the command line speak.
CodexLegs ==
  [auto |-> <<Leg("token", {"absent", "denied"}), Finally("server")>>,
   oauth |-> <<Finally("token")>>, web |-> <<Finally("cookie")>>, cli |-> <<Finally("server")>>]

-----------------------------------------------------------------------------
(* Claude: an administrator's key, a token, the command line, a session.   *)

ClaudeCredentials ==
  [Lookup("token", "oauth", "none")
     EXCEPT !.sees = @ @@ [expired |-> "denied", malformed |-> "malformed"]]
\* An account that is a token of this kind sets the mode to oauth as well.
ClaudeOwnToken == [ClaudeCredentials EXCEPT !.field = "cookie"]
ClaudeOAuthUsage == Reading
ClaudeOAuth ==
  Request("usage", "oauth", ClaudeOAuthUsage, Denying({"401"}) @@ Limiting)

ClaudeCookie ==
  [Lookup("cookie", "web", "cookie") EXCEPT !.sees = @ @@ [malformed |-> "invalid"]]
ClaudeOrganizations == Exchange(Request("organizations", "web", Reading, Refused))
ClaudeWebUsage == Lenient
ClaudeWeb == Request("usage", "web", ClaudeWebUsage, Refused)

ClaudeAdminKey == Lookup("administrator's key", "api", "none")
ClaudeAdminReport == Lenient
ClaudeAdmin(what) == Request(what, "api", ClaudeAdminReport, Refused)

ClaudeCliUsage == [errors |-> "rejected"] @@ Reading
ClaudeCli == Run("usage", "cli", ClaudeCliUsage)

ClaudeApiSteps ==
  [key      |-> Must(ClaudeAdminKey, "cost"),
   cost     |-> Must(ClaudeAdmin("cost"), "messages"),
   messages |-> Must(ClaudeAdmin("messages"), "apiShown"),
   apiShown |-> Show("api")]

\* The session, and where to go when it does not lead to usage.
ClaudeSession(cookie, organizations, usage, other) ==
  (cookie :> Try(ClaudeCookie, organizations, other))
  @@ (organizations :> Try(ClaudeOrganizations, usage, other))
  @@ (usage :> Try(ClaudeWeb, "webShown", other))

\* With a key of an administrator nothing else; a command asks the session
\* and the command line, the status item asks the token first.
ClaudeSteps ==
  ClaudeApiSteps
  @@ ClaudeSession("cookie", "organizations", "usage", Fail)
  @@ ClaudeSession("byCommand", "ofCommand", "forCommand", "cli")
  @@ ClaudeSession("atLast", "lastOrganizations", "lastUsage", "none")
  @@ [either     |-> TryIf({"absent"}, ClaudeAdminKey, "cost", "runtime"),
      runtime    |-> Choose({"byCommand", "first"}),
      first      |-> Try(ClaudeCredentials, "firstUsage", "second"),
      firstUsage |-> Try(ClaudeOAuth, "oauthShown", "second"),
      second     |-> Try(ClaudeCli, "cliShown", "atLast"),
      none       |-> Give("rejected"),
      token      |-> Must(ClaudeOwnToken, "tokenUsage"),
      tokenUsage |-> Must(ClaudeOAuth, "oauthShown"),
      cli        |-> Must(ClaudeCli, "cliShown"),
      oauthShown |-> Show("oauth"),
      webShown   |-> Show("web"),
      cliShown   |-> Show("cli")]
ClaudeLegs ==
  [auto |-> <<Finally("either")>>, api |-> <<Finally("key")>>, web |-> <<Finally("cookie")>>,
   cli |-> <<Finally("cli")>>, oauth |-> <<Finally("token")>>]

-----------------------------------------------------------------------------
(* Kimi: a key, the command line's token, a session.                       *)

KimiBase(source) == Setting("base URL", source)
KimiReading == Reading
KimiUsage(source) == Request("usage", source, KimiReading, Denying({"401"}))
KimiCliToken == Lookup("command line's token", "oauth", "none")
KimiWebToken == Lookup("session", "web", "none")
KimiWebReading == Reading
KimiWeb == Request("usage", "web", KimiWebReading, Refused)

\* Whoever has a key of his own may still be shown by the other two.
KimiSteps ==
  [key        |-> Must(ApiKey, "base"),
   base       |-> Must(KimiBase("api"), "usage"),
   usage      |-> Must(KimiUsage("api"), "shown"),
   either     |-> TryIf({"absent"}, ApiKey, "anyBase", "token"),
   anyBase    |-> Try(KimiBase("api"), "anyUsage", "token"),
   anyUsage   |-> Try(KimiUsage("api"), "shown", "token"),
   shown      |-> Show("api"),
   token      |-> TryIf({"absent"}, KimiCliToken, "tokenBase", "session"),
   tokenBase  |-> Try(KimiBase("oauth"), "tokenUsage", "session"),
   tokenUsage |-> Try(KimiUsage("oauth"), "oauthShown", "session"),
   oauthShown |-> Show("oauth"),
   session    |-> Must(KimiWebToken, "web"),
   web        |-> Must(KimiWeb, "webShown"),
   webShown   |-> Show("web")]

KimiLegs ==
  [auto |-> <<Finally("either")>>, api |-> <<Finally("key")>>, web |-> <<Finally("session")>>]
=============================================================================
