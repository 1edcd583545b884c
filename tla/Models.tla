------------------------------- MODULE Models -------------------------------
(***************************************************************************)
(* The models a process runs with, and what their answers come to: which   *)
(* chat model and which embedder a configuration builds, and what each     *)
(* provider's client makes of a reply.  (infrastructure/llm.rs.)           *)
(*                                                                         *)
(* A client is named by its provider.  Prompts, headers and the wording of *)
(* errors are left out; a reply stands for what its text contains.         *)
(***************************************************************************)
EXTENDS Naturals, Sequences, FiniteSets

Providers == {"openai", "gemini", "anthropic", "custom", "vertex", "local", "none"}
KeyNames == {"OPENAI_API_KEY", "GEMINI_API_KEY", "ANTHROPIC_API_KEY", "NEUROLITHE_API_KEY"}
NoKey == "no key"

\* chat and embed: [llm] provider and embedding_provider ("unset" when absent);
\* keys: the variables set in the environment; onnx: a local model's files can be
\* had (they are fetched when it is first asked).
Configs == [chat : Providers, embed : Providers \cup {"unset"},
            keys : SUBSET KeyNames, onnx : BOOLEAN]

IsChat(provider) == provider \notin {"local", "vertex", "none"}
EffectiveEmbeddingProvider(config) ==
    IF config.embed = "unset" THEN config.chat ELSE config.embed

\* AppConfig::validate: what a process refuses to start with.
Valid(config) ==
    /\ config.chat \notin {"vertex", "local"}
    /\ EffectiveEmbeddingProvider(config) \notin {"anthropic", "none"}

ApiKeyEnvVars(provider) ==
    CASE provider = "openai"    -> <<"OPENAI_API_KEY", "NEUROLITHE_API_KEY">>
      [] provider = "gemini"    -> <<"GEMINI_API_KEY", "NEUROLITHE_API_KEY">>
      [] provider = "anthropic" -> <<"ANTHROPIC_API_KEY", "NEUROLITHE_API_KEY">>
      [] provider = "custom"    -> <<"NEUROLITHE_API_KEY">>
      [] OTHER                  -> <<>>

KeyRequired(provider) == provider \in {"openai", "gemini", "anthropic"}
ResolveApiKey(provider, keys) ==
    LET found == SelectSeq(ApiKeyEnvVars(provider), LAMBDA name : name \in keys)
    IN IF found = <<>> THEN NoKey ELSE Head(found)
LacksKey(provider, keys) == KeyRequired(provider) /\ ResolveApiKey(provider, keys) = NoKey

BuildChatModel(config) ==
    IF ~IsChat(config.chat) \/ LacksKey(config.chat, config.keys) THEN "none"
    ELSE config.chat

\* A stand-in fails every call, and the probe of its dimension with it.
BuildEmbedder(config) ==
    LET provider == EffectiveEmbeddingProvider(config)
    IN IF LacksKey(provider, config.keys) \/ provider \in {"anthropic", "none"}
       THEN "unconfigured" ELSE provider

\* What opens its workspace: the stores need the embedder's dimension.  A local
\* model tells its own unloaded, so it may open them and then fail every call.
Starts(config) == Valid(config) /\ BuildEmbedder(config) # "unconfigured"
Embeds(config) == BuildEmbedder(config) = "local" => config.onnx

CreateModels(config) ==
    [chat |-> BuildChatModel(config), embedder |-> BuildEmbedder(config),
     embeds |-> Embeds(config)]

\* Only a client on the network can be left waiting; it gives up after
\* llm.request_timeout_secs.
Remote(client) == client \notin {"local", "none"}

-----------------------------------------------------------------------------
(* What comes back.  "failed": no connection, a status that is not a       *)
(* success, or a body that is not JSON.  Otherwise the body's text: none   *)
(* ("missing"), blank, the JSON of n facts alone or inside prose, JSON     *)
(* without a list of facts, or prose.                                      *)
(***************************************************************************)
Failed == [text |-> "failed", facts |-> 0]
Replies(most) == {Failed} \cup [text : {"missing", "blank", "shapeless", "prose"}, facts : {0}]
                          \cup [text : {"json", "wrapped"}, facts : 0 .. most]

Error == [ok |-> FALSE, facts |-> 0]
Facts(n) == [ok |-> TRUE, facts |-> n]

\* Mutant: a reply that cannot be read has no facts.
ExtractWhatParses(client, reply) ==
    IF reply.text = "failed" THEN Error
    ELSE IF reply.text = "json" THEN Facts(reply.facts) ELSE Facts(0)
\* anthropic takes the outermost {...} of the text; the others parse it whole.
ExtractFacts(client, reply) ==
    CASE reply.text = "failed"                -> Error
      [] reply.text \in {"missing", "blank"}  -> Facts(0)
      [] reply.text = "json"                  -> Facts(reply.facts)
      [] reply.text = "wrapped" /\ client = "anthropic" -> Facts(reply.facts)
      [] OTHER                                -> Error

\* An embedding comes with a vector, or is an error: no token, no answer, or no
\* vector in it; from a local model, one that is not loaded or fails.
Vector == [text |-> "vector", facts |-> 0]
EmbeddingReplies(models) ==
    IF ~models.embeds THEN {Failed}
    ELSE {Vector, Failed} \cup [text : IF Remote(models.embedder) THEN {"shapeless"} ELSE {},
                                facts : {0}]
Embedded(reply) == reply = Vector

\* The text is returned as it is: a reply without one is an empty summary.
CompressContext(reply) ==
    [ok |-> reply.text # "failed", empty |-> reply.text \in {"missing", "blank"}]
=============================================================================
