------------------------------ MODULE Fetching ------------------------------
(***************************************************************************)
(* The fetch of every provider, and what its parser makes of a quota that  *)
(* the answer tells in whole or in part.                                   *)
(***************************************************************************)
EXTENDS ProviderPlans, Fetch, UsageWindows

CONSTANTS Limits, Uses   \* bounds: what is allowed and what was used of it

ASSUME QuotasAreCounted == Limits \subseteq Nat /\ Uses \subseteq Nat

\* The integers that stand for the doubles of the code are exact: every share
\* is a whole number of percents, and no figure is the one that is missing.
ASSUME SharesAreExact ==
  \A limit \in Limits \ {0}, used \in Uses :
    LET share == Share(used, limit)
    IN /\ (100 * used) % limit = 0
       /\ Missing \notin {limit - used, Whole - share, (Whole - share) \div Unit}

\* The providers that show more than everything, and those that take one
\* percent for the whole or a fraction above one for a percentage.
Overdrawn == {"claude", "codex", "copilot", "grok", "notion", "zai"}
Ambiguous == {"devin", "factory", "opencode", "opencodego", "synthetic"}

\* The windows that show nothing or everything for want of a figure.
Guessers ==
  {<<"claude", 2>>, <<"codebuff", 1>>, <<"codex", 2>>, <<"commandcode", 1>>, <<"commandcode", 2>>,
   <<"cursor", 1>>, <<"doubao", 3>>, <<"factory", 1>>, <<"factory", 3>>, <<"grok", 2>>,
   <<"jetbrains", 1>>, <<"kilo", 1>>, <<"kimi", 1>>, <<"kiro", 2>>, <<"longcat", 2>>,
   <<"manus", 1>>, <<"openrouter", 2>>, <<"perplexity", 1>>, <<"sub2api", 1>>, <<"t3chat", 1>>,
   <<"venice", 1>>, <<"warp", 1>>, <<"zai", 1>>, <<"zoommate", 1>>}

\* Where a walk that has been cancelled may still pass.
ProviderWakes ==
  [kiro |-> {"usage"}, grok |-> {"session", "billing"},
   minimax |-> {"second", "denied", "cookie", "session"}]

VARIABLE window   \* the quota that the parser was told and what it shows

fetchingVars == <<fetch, cancelled, window>>

Fetched == FetchNext /\ UNCHANGED window

NotYet == [of |-> "none"]
Figures == {"used", "limit", "remaining", "usedPercent", "leftPercent"}

\* An answer that tells these figures of a quota, a percentage in its scale.
Telling(used, limit, told, scale) ==
  LET share == IF limit > 0 THEN Share(used, limit) ELSE Missing
      figures == [used |-> used, limit |-> limit, remaining |-> limit - used,
                  usedPercent |-> share \div scale, leftPercent |-> (Whole - share) \div scale]
  IN [f \in Figures |-> IF f \in told THEN figures[f] ELSE Missing]

Measure ==
  /\ fetch.outcome = "shown" /\ window = NotYet
  /\ fetch.mode = "auto" /\ ~fetch.selected /\ ~cancelled
  /\ fetch.provider \in DOMAIN Windows
  /\ \E k \in DOMAIN Windows[fetch.provider], used \in Uses, limit \in Limits, told \in SUBSET Figures :
       LET parser == Windows[fetch.provider][k]
       IN /\ limit = 0 => told \cap {"usedPercent", "leftPercent"} = {}
          /\ window' = [of |-> k, used |-> used, limit |-> limit, told |-> told,
                        percent |-> parser.percent[Telling(used, limit, told, parser.scale)]]
  /\ UNCHANGED fetchVars

FetchingInit == FetchInit /\ window = NotYet

FetchingSpec ==
  /\ FetchingInit
  /\ [][Fetched \/ Measure]_fetchingVars
  /\ WF_fetchingVars(Walk /\ UNCHANGED window)

-----------------------------------------------------------------------------
\* Of this share a number can be taken for a fraction or for a percentage.
Doubtful(used, limit) == used > limit \/ Unit \in {Share(used, limit), Whole - Share(used, limit)}

\* A window shows between nothing and everything.  Of a quota that the answer
\* tells in whole or in part, in percents or in fractions, used up or overdrawn,
\* it shows the share that was used, or there is no window: what an answer
\* leaves out is not guessed, except in the windows that are named (Guessers).
WindowIsTheShare ==
  window # NotYet =>
    /\ fetch.provider \notin Overdrawn => window.percent \in {NoWindow} \cup 0..Whole
    /\ (/\ window.limit > 0
        /\ Doubtful(window.used, window.limit) => fetch.provider \notin Ambiguous) =>
         LET share == Share(window.used, window.limit)
         IN window.percent \in {NoWindow, Clamped(share)}
                        \cup (IF fetch.provider \in Overdrawn THEN {share} ELSE {})
                        \cup (IF <<fetch.provider, window.of>> \in Guessers THEN {0, Whole} ELSE {})
=============================================================================
