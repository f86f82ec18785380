------------------------------ MODULE LettaShards ------------------------------
(***************************************************************************)
(* The processes of a sharded Letta (MemGPT) run, each with one case (one  *)
(* user), on what they share on disk: the agents of the runtime root, the  *)
(* cache of embeddings and the file that spaces the embedding requests     *)
(* (amb/clients/providers/framework_sdks/letta.py).                        *)
(*                                                                         *)
(* A shard adds its turns and asks its query; each of these items resolves *)
(* the agent of the user and embeds one text.  A shard stops where it is   *)
(* killed or an exception ends its attempt, and may start again with a new *)
(* client object.                                                          *)
(*                                                                         *)
(* Simplifications: the throttle and the cache are switched on; a response *)
(* of the wrong shape, a TypeError that makes MemoryAdapter try its next   *)
(* call form, is left out; a search finds every passage of the agent.      *)
(***************************************************************************)
EXTENDS Integers, Sequences, FiniteSets

CONSTANTS
    Shards,      \* the processes of the run, and their users
    NumTurns,    \* turns of a case
    TextOf,      \* the text of every item of every shard
    Interval,    \* min_interval, in ticks of the clock
    MaxRetries,  \* max_retries of an embedding request
    MaxLives,    \* bound: starts of a shard
    MaxMisses,   \* bound: lookups of a shard that fail
    NoShard      \* nobody holds the lock

Items == 1 .. NumTurns + 1      \* the turns, and the query after them
Turns == 1 .. NumTurns
Texts == {TextOf[p][i] : p \in Shards, i \in Items}

ASSUME ShardsAssumption ==
    /\ NumTurns \in Nat /\ Interval \in Nat \ {0} /\ MaxRetries \in Nat
    /\ MaxLives \in Nat \ {0} /\ MaxMisses \in Nat
    /\ NoShard \notin Shards /\ IsFiniteSet(Shards)

VARIABLES
    pc,       \* where a shard is
    item,     \* the turn or query it is at
    life,     \* starts of the shard
    agentId,  \* _agent_ids of its client object, 0 for no agent yet
    attempt,  \* requests of _post_with_retry so far
    need,     \* what is left of the wait it computed
    answer,   \* the turns its search found
    agents,   \* saved agents of each user: the passages of each
    misses,   \* failed lookups of each shard
    cache,    \* texts with an entry in the cache: "torn" or "whole"
    lock,     \* who holds the throttle file
    file,     \* what the file says: "empty" or "stamp"
    age,      \* ticks since a stamp was written, up to Interval
    paid,     \* requests for each text the service answered
    wasted    \* of these, answers lost before they were in the cache

agentVars    == <<agentId, agents, misses>>
throttleVars == <<need, lock, file, age>>
cacheVars    == <<attempt, cache, paid, wasted>>
vars == <<pc, item, life, answer, agentVars, throttleVars, cacheVars>>

Text(p) == TextOf[p][item[p]]

Goto(p, label) == pc' = [pc EXCEPT ![p] = label]

Init ==
    /\ pc = [p \in Shards |-> "ensure"] /\ item = [p \in Shards |-> 1] /\ life = [p \in Shards |-> 1]
    /\ agentId = [p \in Shards |-> 0]
    /\ attempt = [p \in Shards |-> 0] /\ need = [p \in Shards |-> 0]
    /\ answer = [p \in Shards |-> {}]
    /\ agents = [p \in Shards |-> <<>>] /\ misses = [p \in Shards |-> 0]
    /\ cache = [t \in Texts |-> "none"]
    /\ lock = NoShard /\ file = "empty" /\ age = Interval
    /\ paid = [t \in Texts |-> 0] /\ wasted = [t \in Texts |-> 0]

-----------------------------------------------------------------------------
(* The agent of the user.                                                     *)

KeepAgent(p, id) == agentId' = [agentId EXCEPT ![p] = id]

AgentKnown(p) ==
    /\ pc[p] = "ensure" /\ agentId[p] # 0
    /\ Goto(p, "embed")
    /\ UNCHANGED <<item, life, answer, agentVars, throttleVars, cacheVars>>

AgentFound(p) ==
    /\ pc[p] = "ensure" /\ agentId[p] = 0
    /\ \E id \in DOMAIN agents[p] : KeepAgent(p, id)
    /\ Goto(p, "embed")
    /\ UNCHANGED <<item, life, answer, agents, misses, throttleVars, cacheVars>>

\* mutant: an agent is created without a look at the saved ones
AgentNotLookedUp(p) ==
    /\ pc[p] = "ensure" /\ agentId[p] = 0
    /\ misses' = misses
    /\ Goto(p, "create")
    /\ UNCHANGED <<item, life, answer, agentId, agents, throttleVars, cacheVars>>

\* mutant: the id is not kept, and looked up for every call
AgentLookedUpAgain(p) ==
    /\ pc[p] = "ensure"
    /\ IF agents[p] = <<>> THEN misses' = misses
       ELSE misses[p] < MaxMisses /\ misses' = [misses EXCEPT ![p] = @ + 1]
    /\ Goto(p, "create")
    /\ UNCHANGED <<item, life, answer, agentId, agents, throttleVars, cacheVars>>

\* there is none, or the lookup failed: every exception of it counts as none
AgentNotFound(p) ==
    /\ pc[p] = "ensure" /\ agentId[p] = 0
    /\ IF agents[p] = <<>> THEN misses' = misses
       ELSE misses[p] < MaxMisses /\ misses' = [misses EXCEPT ![p] = @ + 1]
    /\ Goto(p, "create")
    /\ UNCHANGED <<item, life, answer, agentId, agents, throttleVars, cacheVars>>

\* create_agent saves last: an agent it could not finish is not saved
CreateAgent(p) ==
    /\ pc[p] = "create"
    /\ agents' = [agents EXCEPT ![p] = Append(@, {})]
    /\ KeepAgent(p, Len(agents[p]) + 1)
    /\ Goto(p, "embed")
    /\ UNCHANGED <<item, life, answer, misses, throttleVars, cacheVars>>

-----------------------------------------------------------------------------
(* An embedding: from the cache, or from the service.                         *)

\* an entry that does not parse counts as none
Cached(text) == cache[text] = "whole"

Embed(p) ==
    /\ pc[p] = "embed"
    /\ Goto(p, IF Cached(Text(p)) THEN "apply" ELSE "gate")
    /\ attempt' = [attempt EXCEPT ![p] = 0]
    /\ UNCHANGED <<item, life, answer, agentVars, throttleVars, cache, paid, wasted>>

Remaining == IF file = "stamp" THEN Interval - age ELSE 0

\* mutant: the file is truncated as soon as it was read
TakeLockAndTruncate(p) ==
    /\ pc[p] = "gate" /\ lock = NoShard
    /\ lock' = p /\ file' = "empty"
    /\ need' = [need EXCEPT ![p] = Remaining]
    /\ Goto(p, "waiting")
    /\ UNCHANGED <<item, life, answer, agentVars, age, cacheVars>>

\* flock, then the file is read
TakeLock(p) ==
    /\ pc[p] = "gate" /\ lock = NoShard
    /\ lock' = p
    /\ need' = [need EXCEPT ![p] = Remaining]
    /\ Goto(p, "waiting")
    /\ UNCHANGED <<item, life, answer, agentVars, file, age, cacheVars>>

Truncate(p) ==
    /\ pc[p] = "waiting" /\ need[p] = 0
    /\ file' = "empty"
    /\ Goto(p, "stamping")
    /\ UNCHANGED <<item, life, answer, agentVars, need, lock, age, cacheVars>>

Stamp(p) ==
    /\ pc[p] = "stamping"
    /\ file' = "stamp" /\ age' = 0
    /\ lock' = NoShard
    /\ Goto(p, "posting")
    /\ UNCHANGED <<item, life, answer, agentVars, need, cacheVars>>

Posted(p) ==
    /\ pc[p] = "posting"
    /\ paid' = [paid EXCEPT ![Text(p)] = @ + 1]
    /\ Goto(p, "caching")
    /\ UNCHANGED <<item, life, answer, agentVars, throttleVars, attempt, cache, wasted>>

TriesLeft(p) == attempt[p] < MaxRetries

\* mutant: the retry of a failed request counts from the first again
PostFailsUncounted(p) ==
    /\ pc[p] = "posting"
    /\ Goto(p, "gate")
    /\ UNCHANGED <<item, life, answer, agentVars, throttleVars, cacheVars>>

\* an error status or a transport error, also of a request the service answered
PostFails(p) ==
    /\ pc[p] = "posting"
    /\ \/ UNCHANGED <<paid, wasted>>
       \/ /\ paid' = [paid EXCEPT ![Text(p)] = @ + 1]
          /\ wasted' = [wasted EXCEPT ![Text(p)] = @ + 1]
    /\ \/ TriesLeft(p) /\ attempt' = [attempt EXCEPT ![p] = @ + 1] /\ Goto(p, "gate")
       \/ ~TriesLeft(p) /\ Goto(p, "failed") /\ UNCHANGED attempt
    /\ UNCHANGED <<item, life, answer, agentVars, throttleVars, cache>>

\* mutant: the entry itself is opened for writing
WriteInPlace(p) ==
    /\ pc[p] = "caching"
    /\ cache' = [cache EXCEPT ![Text(p)] = "torn"]
    /\ Goto(p, "replacing")
    /\ UNCHANGED <<item, life, answer, agentVars, throttleVars, attempt, paid, wasted>>

\* to a file of its own
WriteTmp(p) ==
    /\ pc[p] = "caching"
    /\ cache' = cache
    /\ Goto(p, "replacing")
    /\ UNCHANGED <<item, life, answer, agentVars, throttleVars, attempt, paid, wasted>>

Replace(p) ==
    /\ pc[p] = "replacing"
    /\ cache' = [cache EXCEPT ![Text(p)] = "whole"]
    /\ Goto(p, "apply")
    /\ UNCHANGED <<item, life, answer, agentVars, throttleVars, attempt, paid, wasted>>

-----------------------------------------------------------------------------
(* The passage of a turn, and the search.                                     *)

Insert(p) ==
    /\ pc[p] = "apply" /\ item[p] \in Turns
    /\ agents' = [agents EXCEPT ![p][agentId[p]] = @ \cup {item[p]}]
    /\ item' = [item EXCEPT ![p] = @ + 1]
    /\ Goto(p, "ensure")
    /\ UNCHANGED <<life, answer, agentId, misses, throttleVars, cacheVars>>

\* by the index, or by a full scan where the index cannot be queried
Passages(p) == agents[p][agentId[p]]

Search(p) ==
    /\ pc[p] = "apply" /\ item[p] \notin Turns
    /\ answer' = [answer EXCEPT ![p] = Passages(p)]
    /\ Goto(p, "done")
    /\ UNCHANGED <<item, life, agentVars, throttleVars, cacheVars>>

-----------------------------------------------------------------------------
(* Stops, starts and time.                                                    *)

\* killed, or an exception ends the attempt: its lock is freed, what it paid for is lost
Stop(p) ==
    /\ pc[p] \notin {"done", "failed"}
    /\ Goto(p, "failed")
    /\ lock' = IF lock = p THEN NoShard ELSE lock
    /\ wasted' = IF pc[p] \in {"caching", "replacing"} THEN [wasted EXCEPT ![Text(p)] = @ + 1] ELSE wasted
    /\ UNCHANGED <<item, life, answer, agentVars, need, file, age, attempt, cache, paid>>

\* a new client object, which observes the case again
Start(p) ==
    /\ pc[p] = "failed" /\ life[p] < MaxLives
    /\ life' = [life EXCEPT ![p] = @ + 1]
    /\ item' = [item EXCEPT ![p] = 1]
    /\ agentId' = [agentId EXCEPT ![p] = 0]
    /\ answer' = [answer EXCEPT ![p] = {}]
    /\ Goto(p, "ensure")
    /\ UNCHANGED <<agents, misses, throttleVars, cacheVars>>

Tick ==
    /\ age < Interval \/ \E p \in Shards : need[p] > 0
    /\ age' = IF age < Interval THEN age + 1 ELSE age
    /\ need' = [p \in Shards |-> IF need[p] > 0 THEN need[p] - 1 ELSE 0]
    /\ UNCHANGED <<pc, item, life, answer, agentVars, lock, file, cacheVars>>

Work(p) ==
    \/ AgentKnown(p) \/ AgentFound(p) \/ AgentNotFound(p) \/ CreateAgent(p)
    \/ Embed(p) \/ TakeLock(p) \/ Truncate(p) \/ Stamp(p)
    \/ Posted(p) \/ PostFails(p) \/ WriteTmp(p) \/ Replace(p)
    \/ Insert(p) \/ Search(p)

Next == Tick \/ \E p \in Shards : Work(p) \/ Stop(p) \/ Start(p)

Spec == Init /\ [][Next]_vars

(* Time passes, and a process that runs goes on; a shard that stopped need    *)
(* not be started again.                                                      *)
FairSpec == Spec /\ WF_vars(Tick) /\ \A p \in Shards : WF_vars(Work(p))

-----------------------------------------------------------------------------
(* The service allows one request an interval for all shards together: no     *)
(* shard gets leave to post sooner than Interval after another one did, also  *)
(* when one is killed with the lock in its hands or the file half written.    *)
Spaced == [][\A p \in Shards : pc[p] = "stamping" /\ pc'[p] = "posting" => age = Interval]_vars

(* Every shard pays for a text at most once, and again only for an answer it  *)
(* lost: a cached embedding is never lost or seen half written.               *)
RequestsPaid == \A t \in Texts : paid[t] <= Cardinality(Shards) + wasted[t]

(* A search answers from every turn this client object stored, whatever       *)
(* lookups failed before and after them.                                      *)
PassComplete == \A p \in Shards : pc[p] = "done" => answer[p] = Turns

(* A user has a second agent only after a lookup of the first one failed, not *)
(* because a shard was killed or started again.                               *)
OneAgent == \A p \in Shards : Len(agents[p]) <= 1 + misses[p]

(* Every shard comes to an end: no wait for the lock and no retry is endless, *)
(* whoever is killed.                                                         *)
Finishes == \A p \in Shards : <>[](pc[p] \in {"done", "failed"})
=============================================================================
