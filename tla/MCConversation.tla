--------------------------- MODULE MCConversation ---------------------------
(* Small instances of Conversation. *)
EXTENDS Conversation

\* No chat model and a local embedder (the default); one provider for both, with
\* its key; Claude, and a local model that cannot be fetched.
mc_Setups ==
    {[chat |-> "none", embed |-> "local", keys |-> {}, onnx |-> TRUE],
     [chat |-> "openai", embed |-> "unset", keys |-> {"OPENAI_API_KEY"}, onnx |-> FALSE],
     [chat |-> "anthropic", embed |-> "local", keys |-> {"ANTHROPIC_API_KEY"}, onnx |-> FALSE]}
=============================================================================
