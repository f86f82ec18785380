---------------------------- MODULE MCLibraryRun ----------------------------
(* One system of every class, two models of which one may have an endpoint of *)
(* its own, and an embedder that may have one too.                            *)
EXTENDS LibraryRun, TLC

MCAlias    == "a_mem" :> "a_mem_agentic_memory_official"
MCFamilies == <<"memos", "mem0", "a_mem", "goose", "openai_compatible_custom">>
MCClass    == [memos |-> "locked", mem0 |-> "memory", a_mem |-> "memory", goose |-> "agent",
               openai_compatible_custom |-> "custom"]
MCMentions == [n \in {"a_mem_agentic_memory_official", "a_mem"} |-> {"a_mem"}]
                  @@ ("mem0_official" :> {"mem0"}) @@ ("memos_official" :> {"memos"})
                  @@ ("goose_agent" :> {"goose"}) @@ ("supermemory_official" :> {})
                  @@ ("openai_compatible_custom_agent" :> {"openai_compatible_custom"})
                  @@ ("oracle_memory" :> {})
MCEndpoint == [deepseek |-> <<"OPENAI_BASE_URL">>, gpt |-> <<"GPT_BASE_URL", "OPENAI_BASE_URL">>]
MCKeyEnv   == [deepseek |-> "OPENAI_API_KEY", gpt |-> "OPENAI_API_KEY"]
MCEmbedding == <<"EMBEDDING_BASE_URL", "OPENAI_BASE_URL">>
MCEnvironments ==
    {[OPENAI_BASE_URL |-> "gateway", OPENAI_API_KEY |-> "key", LLM_MODEL |-> Unset,
      GPT_BASE_URL |-> g, EMBEDDING_BASE_URL |-> e] : g \in {Unset, "gpt"}, e \in {Unset, "bge"}}
=============================================================================
