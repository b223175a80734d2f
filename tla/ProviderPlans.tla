---------------------------- MODULE ProviderPlans ----------------------------
(***************************************************************************)
(* The table of providers: the modes of the registry, the field that a     *)
(* token account replaces, and the plan of the fetch.                      *)
(***************************************************************************)
EXTENDS CorePlans

\* How a provider with one source is entered: by its key, its cookie.
Keyed(token, steps) == Plan(token, OneWay(Api, "key"), steps)
Browsed(token, steps) == Plan(token, OneWay(Web, "cookie"), steps)

ApiTable ==
  [deepgram   |-> Keyed("none", DeepgramSteps),
   poe        |-> Keyed("none", PoeSteps),
   chutes     |-> Keyed("none", ChutesSteps),
   synthetic  |-> Keyed("none", KeyedSteps(SyntheticUsage)),
   warp       |-> Keyed("none", KeyedSteps(WarpLimits)),
   moonshot   |-> Keyed("none", SimpleSteps(MoonshotReading)),
   elevenlabs |-> Keyed("api key", SimpleSteps(ElevenLabsReading)),
   crof       |-> Keyed("none", SimpleSteps(CrofReading)),
   venice     |-> Keyed("api key", SimpleSteps(VeniceReading)),
   zenmux     |-> Keyed("none", ZenMuxSteps),
   clawrouter |-> Keyed("none", ClawRouterSteps),
   llmproxy   |-> Keyed("api key", LlmProxySteps),
   openrouter |-> Keyed("api key", OpenRouterSteps),
   openai     |-> Keyed("api key", OpenAISteps),
   xai        |-> Keyed("none", XaiSteps),
   aiand      |-> Keyed("none", AiAndSteps),
   azureopenai |-> Keyed("none", AzureSteps),
   zai        |-> Keyed("api key", ZaiSteps),
   copilot    |-> Keyed("api key", CopilotSteps),
   deepinfra  |-> Keyed("api key", DeepInfraSteps),
   neuralwatt |-> Keyed("api key", NeuralWattSteps),
   fireworks  |-> Keyed("none", FireworksSteps),
   codebuff   |-> Keyed("none", CodebuffSteps),
   clinepass  |-> Keyed("none", ClinePassSteps),
   ibmbob     |-> Keyed("api key", IBMBobSteps),
   litellm    |-> Keyed("api key", LiteLlmSteps),
   sub2api    |-> Keyed("api key", Sub2ApiSteps),
   bedrock    |-> Plan("none", OneWay(Api, "settings"), BedrockSteps),
   wayfinder  |-> Plan("none", OneWay(Api, "base"), WayfinderSteps),
   gemini     |-> Plan("none", OneWay(Api, "credentials"), GeminiSteps),
   zed        |-> Plan("none", OneWay(Api, "credentials"), ZedSteps)]

WebTable ==
  [cursor      |-> Plan("cookie", OneWay(Web \cup Cli, "cookie"), CursorSteps),
   opencode    |-> Browsed("cookie", OpenCodeSteps),
   devin       |-> Plan("none", OneWay(Web, "token"), DevinSteps),
   manus       |-> Plan("cookie", OneWay(Web, "session"), ManusSteps),
   t3chat      |-> Plan("none", OneWay(Web, "session"), T3ChatSteps),
   sakana      |-> Browsed("none", SakanaSteps),
   abacus      |-> Browsed("cookie", AbacusSteps),
   mistral     |-> Browsed("cookie", MistralSteps),
   commandcode |-> Browsed("none", CommandCodeSteps),
   qoder       |-> Plan("cookie", OneWay(Web, "session"), QoderSteps),
   perplexity  |-> Plan("none", OneWay(Web, "session"), PerplexitySteps),
   longcat     |-> Browsed("none", LongCatSteps),
   alibabatokenplan |-> Browsed("none", TokenPlanSteps),
   mimo        |-> Plan("none", MiMoLegs, MiMoSteps),
   stepfun     |-> Plan("cookie", OneWay(Web, "off"), StepFunSteps),
   zoommate    |-> Plan("none", OneWay(Web, "context"), ZoomMateSteps),
   notion      |-> Plan("none", OneWay(Web, "source"), NotionSteps),
   qwencloud   |-> Browsed("none", QwenCloudSteps)]

MixedTable ==
  [codex       |-> Plan("none", CodexLegs, CodexSteps),
   claude      |-> Plan("cookie", ClaudeLegs, ClaudeSteps),
   kimi        |-> Plan("none", KimiLegs, KimiSteps),
   groq        |-> Plan("api key", GroqLegs, GroqSteps),
   minimax     |-> Plan("cookie", MiniMaxLegs, MiniMaxSteps),
   alibaba     |-> Plan("none", AlibabaLegs, AlibabaSteps),
   doubao      |-> Plan("none", DoubaoLegs, DoubaoSteps),
   factory     |-> Plan("cookie", FactoryLegs, FactorySteps),
   antigravity |-> Plan("api key", AntigravityLegs, AntigravitySteps),
   ollama      |-> Plan("cookie", OllamaLegs, OllamaSteps),
   deepseek    |-> Plan("api key", DeepSeekLegs, DeepSeekSteps),
   kilo        |-> Plan("none", KiloLegs, KiloSteps),
   amp         |-> Plan("none", AmpLegs, AmpSteps),
   grok        |-> Plan("none", GrokLegs, GrokSteps),
   windsurf    |-> Plan("none", WindsurfLegs, WindsurfSteps),
   opencodego  |-> Plan("cookie", OpenCodeGoLegs, OpenCodeGoSteps),
   kiro        |-> Plan("none", OneWay(Cli, "binary"), KiroSteps),
   augment     |-> Plan("cookie", OneWay(Cli, "binary"), AugmentSteps),
   jetbrains   |-> Plan("none", OneWay(Cli, "file"), JetBrainsSteps),
   vertexai    |-> Plan("none", OneWay(VertexModes, "credentials"), VertexSteps)]

ProviderTable == ApiTable @@ WebTable @@ MixedTable
=============================================================================
