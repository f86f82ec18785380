CONSTANTS
    Baselines = {"oracle_memory"}
    Memories = {"mem0_official", "a_mem_agentic_memory_official", "memos_official", "supermemory_official"}
    Agents = {"goose_agent", "openai_compatible_custom_agent"}
    Alias <- MCAlias
    Names = {"oracle_memory", "mem0_official", "a_mem", "memos_official", "supermemory_official",
             "goose_agent", "openai_compatible_custom_agent", "unknown"}
    Families <- MCFamilies
    Class <- MCClass
    Mentions <- MCMentions
    Models = {"deepseek", "gpt"}
    EndpointOf <- MCEndpoint
    KeyEnv <- MCKeyEnv
    Embedding <- MCEmbedding
    Environments <- MCEnvironments
    NumQueries = 2
    MaxCalls = 3
SPECIFICATION Spec
INVARIANTS BackboneAsAsked OwnEmbedderConstant
CHECK_DEADLOCK FALSE
