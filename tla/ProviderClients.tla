---------------------------- MODULE ProviderClients ----------------------------
(***************************************************************************)
(* How each provider client of amb/clients/providers keeps, scopes, retries*)
(* and loses memory, as ExternalMemoryAgent sees it: one profile per       *)
(* client, read off its reset, add and search (put, add_memory and         *)
(* add_episode are the add of LangMem, Letta and Graphiti).  MemoryAdapter *)
(* is the machine that runs a profile.                                     *)
(***************************************************************************)
EXTENDS Integers, FiniteSets

CONSTANT MaxTries    \* attempts of a retrying client (6 to 12 in the code)

ASSUME MaxTriesAssumption == MaxTries \in Nat \ {0}

-----------------------------------------------------------------------------
(* What a provider call raises: an HTTP status (0 for none) and the words of *)
(* its class name or message that some client looks for.                      *)

Throttled    == [status |-> 429, words |-> {"too many requests"}]
RateWords    == [status |-> 0,   words |-> {"rate limit"}]
TokenRate    == [status |-> 0,   words |-> {"rpm limit"}]
Conflict     == [status |-> 409, words |-> {}]
ServerError  == [status |-> 500, words |-> {}]
Overloaded   == [status |-> 529, words |-> {}]
Unavailable  == [status |-> 503, words |-> {"service unavailable"}]
Timeout      == [status |-> 0,   words |-> {"timeout"}]
TimedOut     == [status |-> 0,   words |-> {"timed out"}]
Dropped      == [status |-> 0,   words |-> {"connection reset"}]
Unreachable  == [status |-> 0,   words |-> {"connection error"}]
Unauthorized == [status |-> 401, words |-> {}]
WrongType    == [status |-> 0,   words |-> {"TypeError"}]

Failures == {Throttled, RateWords, TokenRate, Conflict, ServerError, Overloaded,
             Unavailable, Timeout, TimedOut, Dropped, Unreachable, Unauthorized, WrongType}

-----------------------------------------------------------------------------
(* Which failures each client takes for transient.                            *)

GatewayStatuses == {408, 409, 425, 429, 500, 502, 503, 504}

Mem0Transient == [statuses |-> GatewayStatuses,
                  words |-> {"rate limit", "too many requests", "timeout", "connection reset",
                             "service unavailable", "connection error"}]

LangMemTransient == [statuses |-> GatewayStatuses,
                     words |-> {"rate limit", "rpm limit", "too many requests", "timeout",
                                "timed out", "connection reset", "service unavailable"}]

GraphitiTransient == [statuses |-> GatewayStatuses,
                      words |-> {"rate limit", "rpm limit", "too many requests", "timeout",
                                 "timed out", "connection reset", "connection error"}]

ZepCloudTransient == [statuses |-> {429} \cup 500..599,
                      words |-> {"rate limit", "too many requests", "timeout"}]

MirixCloudTransient == ZepCloudTransient     \* the same function, copied

SupermemoryTransient == [statuses |-> {429} \cup 500..599,
                         words |-> {"timeout", "connection error"}]

EvermindTransient == [statuses |-> {429},
                      words |-> {"rate limit", "too many requests", "rpm limit"}]

AMemTransient == [statuses |-> GatewayStatuses \cup {529},
                  words |-> {"rate limit", "rpm limit", "too many requests", "timeout", "timed out",
                             "connection reset", "connection error", "service unavailable"}]

Retryable(transient) ==
    {e \in Failures : e.status \in transient.statuses \/ e.words \cap transient.words # {}}

(* The loops around a call: how often it is tried, and after which failures.  *)
NoRetry          == [tries |-> 1, on |-> {}]
RetryOn(failures) == [tries |-> MaxTries, on |-> failures]

Mem0Retry        == RetryOn(Retryable(Mem0Transient))
LangMemRetry     == RetryOn(Retryable(LangMemTransient))
GraphitiRetry    == RetryOn(Retryable(GraphitiTransient))
ZepCloudRetry    == RetryOn(Retryable(ZepCloudTransient))
MirixCloudRetry  == RetryOn(Retryable(MirixCloudTransient))
SupermemoryRetry == RetryOn(Retryable(SupermemoryTransient))
EvermindRetry    == RetryOn(Retryable(EvermindTransient))
AMemRetry        == RetryOn(Retryable(AMemTransient))

-----------------------------------------------------------------------------
(***************************************************************************)
(* The profile of a client:                                                *)
(*   space    which name space add and search use:                         *)
(*              "user"    the user_id of the call, or what unscoped says   *)
(*              "object"  what the last reset built                        *)
(*              "shared"  one space for every case                         *)
(*   unscoped what a call without user_id does when space is "user":       *)
(*              "refuse"  it raises ValueError                             *)
(*              "own"     it uses the case of the last reset               *)
(*              "last"    it uses the user of an earlier call, or a default*)
(*              "default" add uses the case_id of its metadata or else a   *)
(*                        default user, search refuses                     *)
(*   reset    "keep" (storage untouched), "new" (storage built afresh) or  *)
(*              "wipe" (the space is emptied)                              *)
(*   durable  what is stored outlives the client object                    *)
(*   atomic   an add that fails has stored nothing                         *)
(*   fatal    a failure is raised past every except Exception              *)
(*   retry    the retry loop around a provider call                        *)
(*   mute     the operations that swallow every exception                  *)
(*   calls    the operations whose provider calls can fail                 *)
(*   buffer   "none", or add only buffers and the first search writes the  *)
(*              buffer: "keep" (a failed write leaves it) or "drop"        *)
(*   settles  the service ingests later, and the first search waits for it *)
(***************************************************************************)
ServiceClient ==
    [space |-> "user", unscoped |-> "own", reset |-> "keep", durable |-> TRUE, atomic |-> FALSE,
     fatal |-> FALSE, retry |-> NoRetry, mute |-> {}, calls |-> {"add", "search"},
     buffer |-> "none", settles |-> FALSE]

WorkspaceClient ==
    [ServiceClient EXCEPT !.space = "object", !.reset = "new", !.durable = FALSE]

(* Official SDKs: the user_id of the call is the only scope, and required.    *)
(* LangMem over a memory manager stores a turn under a key and overwrites it;
   that counts as a copy here, as over its other backends.                    *)
Mem0RealClient    == [ServiceClient EXCEPT !.unscoped = "refuse", !.durable = FALSE, !.retry = Mem0Retry]
LangMemRealClient == [ServiceClient EXCEPT !.unscoped = "refuse", !.durable = FALSE, !.retry = LangMemRetry]
LettaRealClient   == [ServiceClient EXCEPT !.unscoped = "refuse"]
ZepGraphitiRealClient == [ServiceClient EXCEPT !.unscoped = "default", !.retry = GraphitiRetry]
OpenAIAgentsSessionMemoryClient == [ServiceClient EXCEPT !.space = "shared", !.reset = "wipe",
                                                         !.calls = {"reset", "add", "search"}]

(* Managed services.                                                          *)
ZepCloudClient  == [ServiceClient EXCEPT !.space = "object", !.reset = "new", !.retry = ZepCloudRetry,
                                         !.mute = {"reset"}, !.calls = {"reset", "add", "search"},
                                         !.settles = TRUE]
MirixCloudClient          == [ServiceClient EXCEPT !.retry = MirixCloudRetry, !.settles = TRUE]
SupermemoryOfficialClient == [ServiceClient EXCEPT !.retry = SupermemoryRetry, !.settles = TRUE]
MirixOfficialClient       == ServiceClient
MemobaseOfficialClient    == [ServiceClient EXCEPT !.unscoped = "last", !.calls = {"reset", "add", "search"}]
HindsightOfficialClient   == [ServiceClient EXCEPT !.space = "shared"]
ReMeClient                == [WorkspaceClient EXCEPT !.mute = {"add", "search"}]

(* Local sources.                                                             *)
CogneeOfficialSourceClient   == ServiceClient
MemOSOfficialSourceClient    == [ServiceClient EXCEPT !.space = "shared", !.reset = "wipe",
                                                      !.calls = {"reset", "add", "search"}]
MemoryOSOfficialSourceClient == [ServiceClient EXCEPT !.reset = "wipe"]
LightMemOfficialSourceClient == [ServiceClient EXCEPT !.calls = {"search"}, !.buffer = "keep"]
AMemOfficialSourceClient     == [WorkspaceClient EXCEPT !.calls = {"add"}, !.fatal = TRUE, !.retry = AMemRetry]
EvermindOfficialSourceClient == [WorkspaceClient EXCEPT !.mute = {"add"}, !.retry = EvermindRetry]
LightRAGClient               == [WorkspaceClient EXCEPT !.mute = {"add", "search"}]
NanoGraphRAGClient           == [WorkspaceClient EXCEPT !.mute = {"add", "search"}]
MemEngineClient              == [WorkspaceClient EXCEPT !.mute = {"search"}]
MemInsightOfficialSourceClient == [WorkspaceClient EXCEPT !.atomic = TRUE]
MemoripyClient               == [WorkspaceClient EXCEPT !.mute = {"reset", "search"}, !.calls = {"reset", "search"}]
MemUOfficialSourceClient     == WorkspaceClient
SynapOfficialSourceClient    == WorkspaceClient
TxtaiClient == [WorkspaceClient EXCEPT !.mute = {"search"}, !.calls = {"search"}, !.buffer = "drop"]
SimpleMemOfficialSourceClient == [WorkspaceClient EXCEPT !.calls = {"search"}, !.buffer = "drop"]

(* Every client under providers/; MemU is the one the registry does not name. *)
ClientProfile ==
    [mem0        |-> Mem0RealClient,               langmem     |-> LangMemRealClient,
     letta       |-> LettaRealClient,              graphiti    |-> ZepGraphitiRealClient,
     openai      |-> OpenAIAgentsSessionMemoryClient,
     zep_cloud   |-> ZepCloudClient,               mirix_cloud |-> MirixCloudClient,
     supermemory |-> SupermemoryOfficialClient,    mirix       |-> MirixOfficialClient,
     memobase    |-> MemobaseOfficialClient,       hindsight   |-> HindsightOfficialClient,
     reme        |-> ReMeClient,                   cognee      |-> CogneeOfficialSourceClient,
     memos       |-> MemOSOfficialSourceClient,    memoryos    |-> MemoryOSOfficialSourceClient,
     lightmem    |-> LightMemOfficialSourceClient, a_mem       |-> AMemOfficialSourceClient,
     evermind    |-> EvermindOfficialSourceClient, lightrag    |-> LightRAGClient,
     nanographrag |-> NanoGraphRAGClient,          memengine   |-> MemEngineClient,
     meminsight  |-> MemInsightOfficialSourceClient, memoripy  |-> MemoripyClient,
     memu        |-> MemUOfficialSourceClient,     synap       |-> SynapOfficialSourceClient,
     txtai       |-> TxtaiClient,                  simplemem   |-> SimpleMemOfficialSourceClient]
=============================================================================
