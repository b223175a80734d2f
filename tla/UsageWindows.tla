---------------------------- MODULE UsageWindows ----------------------------
(***************************************************************************)
(* From the numbers of an answer to the percentage of a window: how each   *)
(* provider's parser computes it from whatever numbers the answer has.     *)
(* Fractions are taken in hundredths: the JSON number 0.5 is 50 here.      *)
(***************************************************************************)
EXTENDS Integers, FiniteSets

Missing == -100000   \* a number that an answer does not have
Unit == 100
Whole == 100 * Unit

Quotas ==
  [used : Int, limit : Int, remaining : Int, usedPercent : Int, leftPercent : Int]

Has(number) == number # Missing
NoWindow == Missing

Clamped(percent) == IF percent < 0 THEN 0 ELSE IF percent > Whole THEN Whole ELSE percent
Share(part, limit) == (Whole * part) \div limit
Abs(n) == IF n < 0 THEN -n ELSE n

-----------------------------------------------------------------------------
(* Two of used, limit and remaining give the third.                        *)

LimitOf(q) ==
  IF ~Has(q.limit) /\ Has(q.used) /\ Has(q.remaining) THEN q.used + q.remaining ELSE q.limit
UsedOf(q) ==
  IF ~Has(q.used) /\ Has(LimitOf(q)) /\ Has(q.remaining)
  THEN LimitOf(q) - q.remaining ELSE q.used
ShareUsed(q) ==
  IF Has(UsedOf(q)) /\ Has(LimitOf(q)) /\ LimitOf(q) > 0
  THEN Clamped(Share(UsedOf(q), LimitOf(q))) ELSE NoWindow

\* A number below one is a fraction.
ChutesFraction(p) == Clamped(IF Abs(p) < Unit THEN p * 100 ELSE p)
ChutesPercent(q) ==
  IF Has(q.usedPercent) THEN ChutesFraction(q.usedPercent)
  ELSE IF Has(q.leftPercent) THEN Whole - ChutesFraction(q.leftPercent)
  ELSE ShareUsed(q)

\* So is one.
SyntheticFraction(p) == IF p <= Unit THEN p * 100 ELSE p
SyntheticPercent(q) ==
  IF Has(q.usedPercent) THEN Clamped(SyntheticFraction(q.usedPercent))
  ELSE IF Has(q.leftPercent) THEN Clamped(Whole - SyntheticFraction(q.leftPercent))
  ELSE ShareUsed(q)

WarpPercent(q) ==
  LET used == IF Has(q.used) THEN q.used ELSE 0
      limit == IF Has(q.limit) THEN q.limit ELSE 0
  IN IF limit <= 0 THEN 0 ELSE Clamped(Share(used, limit))

MiniMaxPercent(q) ==
  IF Has(q.leftPercent) THEN Clamped(Whole - q.leftPercent)
  ELSE IF Has(q.limit) /\ q.limit > 0 /\ Has(q.remaining)
  THEN Clamped(Share(q.limit - q.remaining, q.limit)) ELSE NoWindow

MiniMaxServicePercent(q) ==
  IF ~Has(q.used) \/ ~Has(q.limit) \/ q.limit <= 0 THEN NoWindow
  ELSE Clamped(IF Has(q.usedPercent) THEN q.usedPercent ELSE Share(q.used, q.limit))

AlibabaPercent(q) ==
  IF ~Has(q.used) \/ ~Has(q.limit) \/ q.limit <= 0 THEN NoWindow
  ELSE Clamped(Share(q.used, q.limit))

DoubaoCodingPercent(q) == IF Has(q.usedPercent) THEN Clamped(q.usedPercent) ELSE NoWindow
DoubaoAgentPercent(q) ==
  IF ~Has(q.used) \/ ~Has(q.limit) \/ q.limit <= 0 THEN NoWindow
  ELSE Clamped(Share(q.used, q.limit))
DoubaoProbePercent(q) ==
  LET left == IF Has(q.remaining) THEN q.remaining ELSE 0
  IN IF Has(q.limit) /\ q.limit > 0 THEN Clamped(Share(q.limit - left, q.limit)) ELSE NoWindow

-----------------------------------------------------------------------------
(* Shares of a limit.                                                      *)

OrZero(number) == IF Has(number) THEN number ELSE 0
Positive(number) == Has(number) /\ number > 0
AtLeastZero(number) == IF number < 0 THEN 0 ELSE number

\* codexbar_usage_percent_display, CLAMP
DisplayShare(used, limit) == Clamped(Share(used, limit))
\* A share of nothing is no share at all, is nothing, is everything.
ShareOrNone(used, limit) ==
  IF Has(used) /\ Positive(limit) THEN DisplayShare(used, limit) ELSE NoWindow
ShareOr(default, used, limit) ==
  IF limit > 0 THEN DisplayShare(used, limit) ELSE default

\* What is left gives what was used.
Gone(q) == AtLeastZero(q.limit - q.remaining)

\* Deviation: what is left is taken for what was used.
BadUsedOrGone(q) ==
  IF Has(q.used) THEN q.used ELSE IF Has(q.remaining) /\ Has(q.limit) THEN q.remaining ELSE Missing

UsedOrGone(q) ==
  IF Has(q.used) THEN q.used ELSE IF Has(q.remaining) /\ Has(q.limit) THEN Gone(q) ELSE Missing

\* A percentage; a fraction; a number that is a fraction if it is at most one.
PercentGiven(p) == IF Has(p) THEN Clamped(p) ELSE NoWindow
FractionGiven(p) == IF Has(p) THEN Clamped(p * 100) ELSE NoWindow
OneOrLess(p) == IF p >= 0 /\ p <= Unit THEN p * 100 ELSE p
Rest(p) == IF Has(p) THEN Whole - Clamped(p) ELSE NoWindow

-----------------------------------------------------------------------------
(* api_providers4.c and local_providers.c.                                 *)

\* The ratio is a fraction, or a percentage when there is no allowance; the
\* ratio is not believed when it is zero and something was used.
FactoryLegacyPercent(q) ==
  LET doubtful == q.usedPercent = 0 /\ Positive(q.used) /\ Positive(q.limit)
      ratio    == Has(q.usedPercent) /\ ~doubtful
  IN IF ratio /\ q.usedPercent \in 0..Unit THEN Clamped(q.usedPercent * 100)
     ELSE IF ratio /\ ~Positive(q.limit) /\ q.usedPercent \in 0..Whole
     THEN q.usedPercent
     ELSE IF Has(q.used) /\ Positive(q.limit) THEN DisplayShare(q.used, q.limit) ELSE 0
FactoryBillingPercent(q) == PercentGiven(q.usedPercent)
\* A window whose end has passed and that counts no seconds is told as unused.
FactoryExpiredPercent(q) == IF Has(q.usedPercent) THEN 0 ELSE NoWindow

FractionRest(p) == IF Has(p) THEN Clamped((Unit - p) * 100) ELSE NoWindow
GeminiPercent(q) == FractionRest(q.leftPercent)
AntigravityPercent(q) == FractionRest(q.leftPercent)
OllamaPercent(q) == PercentGiven(q.usedPercent)
KiroPercent(q) ==
  IF Has(q.usedPercent) THEN Clamped(q.usedPercent)
  ELSE IF Has(q.used) /\ Has(q.limit) THEN ShareOr(0, q.used, q.limit) ELSE NoWindow
\* A plan that an administrator manages has a window whatever the text tells.
KiroManagedPercent(q) == IF KiroPercent(q) = NoWindow THEN 0 ELSE KiroPercent(q)
AugmentPercent(q) ==
  IF Has(q.remaining) /\ Has(q.limit) THEN ShareOr(0, UsedOrGone(q), q.limit) ELSE NoWindow

-----------------------------------------------------------------------------
(* Balances, proxies and routers.                                          *)

BothOrNone(q) ==
  IF Has(q.used) /\ Has(q.limit) THEN ShareOr(0, q.used, q.limit) ELSE NoWindow
ElevenLabsPercent(q) == BothOrNone(q)
OpenRouterPercent(q) == BothOrNone(q)
\* A figure that is there but null is nothing.
OpenRouterNullPercent(q) == ShareOr(0, OrZero(q.used), OrZero(q.limit))
JetBrainsPercent(q) == ShareOr(0, OrZero(q.used), OrZero(q.limit))

\* What is left is cut down to whole percents.
CrofPercent(q) ==
  LET limit == AtLeastZero(q.limit)
      left  == IF q.remaining > limit THEN limit ELSE AtLeastZero(q.remaining)
  IN IF ~Has(q.limit) \/ ~Has(q.remaining) THEN NoWindow
     ELSE Whole - (IF limit > 0 THEN Unit * ((100 * left) \div limit) ELSE 0)

VenicePercent(q) ==
  IF Has(q.remaining) /\ Positive(q.limit) THEN DisplayShare(q.limit - q.remaining, q.limit)
  ELSE IF Positive(q.remaining) THEN 0 ELSE Whole
ZenMuxPercent(q) ==
  IF Has(q.used) /\ Has(q.limit) /\ Has(q.remaining) THEN FractionGiven(q.usedPercent) ELSE NoWindow
KiloPercent(q) == IF Has(q.limit) THEN ShareOr(Whole, OrZero(q.used), q.limit) ELSE NoWindow
ClawRouterPercent(q) == ShareOrNone(q.used, q.limit)
LlmProxyPercent(q) == IF Has(q.leftPercent) THEN Clamped(Whole - q.leftPercent) ELSE NoWindow

-----------------------------------------------------------------------------
(* Vendors.                                                                *)

\* The larger of what is gone and what is counted; else the percentage as it is.
ZaiPercent(q) ==
  LET gone  == IF Has(q.remaining) THEN {q.limit - q.remaining} ELSE {}
      count == IF Has(q.used) THEN {q.used} ELSE {}
      used  == CHOOSE u \in gone \cup count : \A v \in gone \cup count : u >= v
  IN IF Positive(q.limit) /\ gone \cup count # {} THEN DisplayShare(used, q.limit)
     ELSE OrZero(q.usedPercent)

\* More than everything may be used.
CopilotPercent(q) ==
  IF Has(q.leftPercent) THEN Whole - q.leftPercent
  ELSE IF Positive(q.limit) /\ Has(q.remaining) THEN Whole - Share(q.remaining, q.limit)
  ELSE NoWindow

NeuralWattPercent(q) ==
  LET used  == IF Has(q.used) /\ q.used >= 0 THEN q.used ELSE Missing
      left  == IF Has(q.remaining) /\ q.remaining >= 0 THEN q.remaining ELSE Missing
      limit == IF Positive(q.limit) THEN q.limit
               ELSE IF Has(used) /\ Has(left) THEN used + left ELSE Missing
  IN ShareOrNone(UsedOrGone([q EXCEPT !.used = used, !.limit = limit, !.remaining = left]), limit)

CodebuffPercent(q) ==
  LET limit == IF Has(q.limit) THEN AtLeastZero(q.limit)
               ELSE IF Has(q.used) /\ Has(q.remaining) THEN AtLeastZero(q.used + q.remaining)
               ELSE Missing
      used  == AtLeastZero(OrZero(UsedOrGone([q EXCEPT !.limit = limit])))
  IN IF Positive(limit) THEN DisplayShare(used, limit)
     ELSE IF Has(q.used) \/ Has(q.remaining) THEN Whole ELSE NoWindow

ClinePassPercent(q) == PercentGiven(q.usedPercent)
ZedPercent(q) == ShareOrNone(q.used, q.limit)
GrokPercent(q) == ShareOrNone(q.used, q.limit)
GrokWebPercent(q) == OrZero(q.usedPercent)

-----------------------------------------------------------------------------
(* Sessions and clouds.                                                    *)

WindsurfPercent(q) == Rest(q.leftPercent)
WindsurfCountPercent(q) == ShareOrNone(UsedOrGone(q), q.limit)
IBMBobPercent(q) == ShareOrNone(q.used, q.limit)
StepFunPercent(q) == FractionRest(q.leftPercent)
ZoomMatePercent(q) == ShareOr(0, OrZero(q.used), OrZero(q.limit))
NotionPercent(q) ==
  IF Has(q.used) /\ Positive(q.limit) THEN AtLeastZero(Share(q.used, q.limit)) ELSE NoWindow
OpenCodeGoPercent(q) ==
  IF Has(q.usedPercent) THEN Clamped(OneOrLess(q.usedPercent)) ELSE ShareOrNone(q.used, q.limit)
OpenCodeGoPagePercent(q) == PercentGiven(q.usedPercent)
QwenCloudPercent(q) == FractionGiven(q.usedPercent)
QwenCloudLegacyPercent(q) == ShareOrNone(UsedOrGone(q), q.limit)

-----------------------------------------------------------------------------
(* api_providers5.c and the web providers.                                 *)

LiteLlmPercent(q) == ShareOrNone(q.used, q.limit)
Sub2ApiPercent(q) == ShareOrNone(OrZero(q.used), q.limit)
BedrockPercent(q) == ShareOrNone(q.used, q.limit)

CursorPercent(q) ==
  IF Has(q.usedPercent) THEN Clamped(q.usedPercent)
  ELSE IF Has(q.used) /\ Positive(q.limit) THEN DisplayShare(q.used, q.limit) ELSE 0
OpenCodePercent(q) == OpenCodeGoPercent(q)
DevinFraction(p) == IF p <= Unit THEN p * 100 ELSE p
DevinPercent(q) ==
  IF Has(q.usedPercent) THEN Clamped(DevinFraction(q.usedPercent))
  ELSE IF Has(q.leftPercent) THEN Clamped(Whole - DevinFraction(q.leftPercent))
  ELSE IF Has(q.used) /\ Positive(q.limit) THEN DisplayShare(q.used, q.limit)
  ELSE IF Has(q.remaining) THEN ShareOrNone(q.limit - q.remaining, q.limit) ELSE NoWindow

ManusPercent(q) == ShareOrNone(OrZero(q.limit) - OrZero(q.remaining), q.limit)
T3ChatPercent(q) == Clamped(OrZero(q.usedPercent))
SakanaPercent(q) == IF q.usedPercent \in 0..Whole THEN q.usedPercent ELSE NoWindow
AbacusPercent(q) ==
  IF Has(q.limit) /\ Has(q.remaining) THEN ShareOr(0, q.limit - q.remaining, q.limit) ELSE NoWindow
MistralPercent(q) == IF q.usedPercent \in 0..Whole THEN q.usedPercent ELSE NoWindow

CommandCodePercent(q) == ShareOrNone(AtLeastZero(OrZero(q.used)), q.limit)
\* The limit is that of the plan; without one, what is left or was bought is unused.
CommandCodeMonthlyPercent(q) ==
  IF ~Has(q.remaining) \/ q.remaining < 0 THEN NoWindow
  ELSE IF Positive(q.limit) THEN DisplayShare(Gone(q), q.limit) ELSE 0
QoderPercent(q) ==
  IF ~Has(q.used) \/ ~Has(q.limit) THEN NoWindow
  ELSE IF q.usedPercent \in 0..Whole THEN q.usedPercent ELSE ShareOr(Whole, q.used, q.limit)
PerplexityPercent(q) == IF Has(q.used) THEN ShareOr(Whole, q.used, OrZero(q.limit)) ELSE NoWindow
LongCatPercent(q) ==
  IF Has(q.used) /\ Has(q.limit) /\ Has(q.remaining) THEN ShareOr(0, q.used, q.limit) ELSE NoWindow
\* Packages that do not say what is left of them are used up.
LongCatFuelPercent(q) ==
  ShareOrNone(AtLeastZero(q.limit - AtLeastZero(OrZero(q.remaining))), q.limit)
TokenPlanPercent(q) == ShareOrNone(UsedOrGone(q), q.limit)
MiMoPercent(q) == IF Has(q.used) /\ Positive(q.limit) THEN FractionGiven(q.usedPercent) ELSE NoWindow

-----------------------------------------------------------------------------
(* Codex, Claude and Kimi: the first two show what they are told, and some  *)
(* of their windows are there whether they are told anything or not.       *)

ToldPercent(q) == IF Has(q.usedPercent) THEN q.usedPercent ELSE NoWindow

\* Over RPC a percentage that is there but null is nothing.
CodexPercent(q) == ToldPercent(q)
CodexNullPercent(q) == OrZero(q.usedPercent)

\* The session's window from the web, and that of the routines once there is a
\* key for it, are unused unless told otherwise.
ClaudePercent(q) == ToldPercent(q)
ClaudeUntoldPercent(q) == OrZero(q.usedPercent)
ClaudeSpendPercent(q) ==
  IF ~Has(q.used) \/ ~Positive(q.limit) THEN NoWindow
  ELSE IF Has(q.usedPercent) THEN Clamped(q.usedPercent) ELSE DisplayShare(q.used, q.limit)
ClaudeCliPercent(q) ==
  IF Has(q.leftPercent) THEN Clamped(Whole - q.leftPercent) ELSE PercentGiven(q.usedPercent)
KimiPercent(q) ==
  IF Has(q.limit) THEN ShareOr(0, OrZero(UsedOrGone(q)), q.limit) ELSE NoWindow

-----------------------------------------------------------------------------
(* The windows of the providers, and whether their servers speak in        *)
(* percents or in fractions.                                               *)

Of(Percent(_)) == [scale |-> 1, percent |-> [q \in Quotas |-> Percent(q)]]
InFractions(Percent(_)) == [scale |-> Unit, percent |-> [q \in Quotas |-> Percent(q)]]

Windows ==
  [chutes |-> <<Of(ChutesPercent)>>, synthetic |-> <<Of(SyntheticPercent)>>,
   warp |-> <<Of(WarpPercent)>>, minimax |-> <<Of(MiniMaxPercent), Of(MiniMaxServicePercent)>>,
   alibaba |-> <<Of(AlibabaPercent)>>,
   doubao |-> <<Of(DoubaoCodingPercent), Of(DoubaoAgentPercent), Of(DoubaoProbePercent)>>,
   factory |->
     <<InFractions(FactoryLegacyPercent), Of(FactoryBillingPercent), Of(FactoryExpiredPercent)>>,
   gemini |-> <<InFractions(GeminiPercent)>>, antigravity |-> <<InFractions(AntigravityPercent)>>,
   ollama |-> <<Of(OllamaPercent)>>, kiro |-> <<Of(KiroPercent), Of(KiroManagedPercent)>>,
   augment |-> <<Of(AugmentPercent)>>,
   elevenlabs |-> <<Of(ElevenLabsPercent)>>, crof |-> <<Of(CrofPercent)>>,
   venice |-> <<Of(VenicePercent)>>, zenmux |-> <<InFractions(ZenMuxPercent)>>,
   kilo |-> <<Of(KiloPercent)>>, clawrouter |-> <<Of(ClawRouterPercent)>>,
   llmproxy |-> <<Of(LlmProxyPercent)>>,
   openrouter |-> <<Of(OpenRouterPercent), Of(OpenRouterNullPercent)>>,
   zai |-> <<Of(ZaiPercent)>>, copilot |-> <<Of(CopilotPercent)>>,
   neuralwatt |-> <<Of(NeuralWattPercent)>>, codebuff |-> <<Of(CodebuffPercent)>>,
   clinepass |-> <<Of(ClinePassPercent)>>, jetbrains |-> <<Of(JetBrainsPercent)>>,
   zed |-> <<Of(ZedPercent)>>, grok |-> <<Of(GrokPercent), Of(GrokWebPercent)>>,
   windsurf |-> <<Of(WindsurfPercent), Of(WindsurfCountPercent)>>, ibmbob |-> <<Of(IBMBobPercent)>>,
   stepfun |-> <<InFractions(StepFunPercent)>>, zoommate |-> <<Of(ZoomMatePercent)>>,
   notion |-> <<Of(NotionPercent)>>,
   opencodego |-> <<Of(OpenCodeGoPercent), InFractions(OpenCodeGoPercent), Of(OpenCodeGoPagePercent)>>,
   qwencloud |-> <<InFractions(QwenCloudPercent), Of(QwenCloudLegacyPercent)>>,
   litellm |-> <<Of(LiteLlmPercent)>>, sub2api |-> <<Of(Sub2ApiPercent)>>,
   bedrock |-> <<Of(BedrockPercent)>>, cursor |-> <<Of(CursorPercent)>>,
   opencode |-> <<Of(OpenCodePercent), InFractions(OpenCodePercent)>>,
   devin |-> <<Of(DevinPercent), InFractions(DevinPercent)>>, manus |-> <<Of(ManusPercent)>>,
   t3chat |-> <<Of(T3ChatPercent)>>, sakana |-> <<Of(SakanaPercent)>>, abacus |-> <<Of(AbacusPercent)>>,
   mistral |-> <<Of(MistralPercent)>>,
   commandcode |-> <<Of(CommandCodePercent), Of(CommandCodeMonthlyPercent)>>,
   qoder |-> <<Of(QoderPercent)>>, perplexity |-> <<Of(PerplexityPercent)>>,
   longcat |-> <<Of(LongCatPercent), Of(LongCatFuelPercent)>>,
   alibabatokenplan |-> <<Of(TokenPlanPercent)>>,
   mimo |-> <<InFractions(MiMoPercent)>>, codex |-> <<Of(CodexPercent), Of(CodexNullPercent)>>,
   claude |->
     <<Of(ClaudePercent), Of(ClaudeUntoldPercent), Of(ClaudeSpendPercent), Of(ClaudeCliPercent)>>,
   kimi |-> <<Of(KimiPercent)>>]
=============================================================================
