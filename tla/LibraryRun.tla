------------------------------ MODULE LibraryRun ------------------------------
(***************************************************************************)
(* run_system calls of one process: the systems x models matrix            *)
(* (amb/lib/run.py, models.py, systems.py, validity.py).  A call resolves  *)
(* a system, injects a model into its configuration and into the           *)
(* environment of the process, which both outlive the call, runs the agent *)
(* and reports.                                                            *)
(*                                                                         *)
(* An endpoint is written as the variables tried for it in turn, and a key *)
(* by the variable it came from.                                           *)
(***************************************************************************)
EXTENDS Integers, Sequences, FiniteSets

CONSTANTS
    Baselines, Memories, Agents,  \* names found by the registry
    Alias,         \* MEMORY_ALIASES: friendly name -> name of a configuration
    Names,         \* names a caller may give
    Families,      \* LOCKED, MEMORY_LLM_FIELD, AGENT_MODEL_ENV and the custom agent, in this order
    Class,         \* of a family: "locked", "memory", "agent" or "custom"
    Mentions,      \* families whose name occurs in a system's name
    Models,        \* models of the registry
    EndpointOf,    \* base_url of a model, as a sequence of variables
    KeyEnv,        \* key_env of a model
    Embedding,     \* base_url of the embedder, as a sequence of variables
    Environments,  \* environments the process may start in
    NumQueries,    \* queries of the benchmark
    MaxCalls       \* bound: calls of run_system

InjectedVars == {"OPENAI_BASE_URL", "OPENAI_API_KEY", "LLM_MODEL"}

Unset   == "unset"
NoModel == "none"
Nothing == [llm |-> "own", base |-> "own", embedder |-> "own"]   \* the shipped configuration

EmbedderVars == {Embedding[i] : i \in DOMAIN Embedding}
ModelVars    == UNION {{EndpointOf[m][i] : i \in DOMAIN EndpointOf[m]} \cup {KeyEnv[m]} : m \in Models}

Vars == InjectedVars \cup ModelVars \cup EmbedderVars

ASSUME LibraryAssumption ==
    /\ NumQueries \in Nat \ {0} /\ MaxCalls \in Nat
    /\ \A e \in Environments : DOMAIN e = Vars
    /\ NoModel \notin Models
    /\ DOMAIN Embedding = 1 .. Len(Embedding) /\ Embedding # <<>>
    /\ Embedding[1] \notin InjectedVars   \* the variable that only the embedder uses

VARIABLES
    env,       \* os.environ
    start,     \* os.environ when the process started
    registry,  \* the cached model registry, <<>> before its first use
    configs,   \* patched configurations on disk
    pc,        \* where the call is
    spec,      \* the SystemSpec of the call
    asked,     \* the model the call asked for
    split,     \* the call names a release split, not a benchmark file
    saved,     \* answers in the predictions file of a split run
    report,    \* verdict of the last report
    calls      \* calls so far

callVars == <<spec, asked, split>>
diskVars == <<configs, saved>>
vars == <<env, start, registry, diskVars, pc, callVars, report, calls>>

-----------------------------------------------------------------------------
(* systems.py                                                                 *)

Kind(name) == CASE name \in Baselines -> "baseline"
                [] name \in Memories \ Baselines -> "memory"
                [] name \in Agents \ (Memories \cup Baselines) -> "agent"
                [] OTHER -> "memory"

Registered == Baselines \cup Memories \cup Agents
                  \cup {a \in DOMAIN Alias : Alias[a] \in Baselines \cup Memories \cup Agents}

resolve(name) == [name |-> name, kind |-> Kind(name), config |-> Nothing]

-----------------------------------------------------------------------------
(* models.py                                                                  *)

\* ${A:-${B}}: the first variable that is set and not empty
expand_env(expr, e) ==
    LET set == {i \in DOMAIN expr : e[expr[i]] # Unset}
    IN  IF set = {} THEN "" ELSE e[expr[CHOOSE i \in set : \A j \in set : i <= j]]

Endpoints(e) == [m \in Models |-> expand_env(EndpointOf[m], e)]

\* mutant: endpoints are expanded again at every call
RegistryUncached(e) == Endpoints(e)

Registry(e) == IF registry = <<>> THEN Endpoints(e) ELSE registry

\* the first family, in the order of the tables, whose name occurs in the system's
Family(name) ==
    LET named == {i \in DOMAIN Families : Families[i] \in Mentions[name]}
    IN  IF named = {} THEN "other" ELSE Families[CHOOSE i \in named : \A j \in named : i <= j]

ClassOf(name) == IF Family(name) = "other" THEN "other" ELSE Class[Family(name)]

\* mutant: the embedder follows the chat model
EmbedderOfModel(e, base) == base

EmbedderAt(e, base) == expand_env(Embedding, e)

ConfigPatch(name, m, base, e) ==
    CASE ClassOf(name) = "memory" -> [llm |-> m, base |-> base, embedder |-> EmbedderAt(e, base)]
      [] ClassOf(name) \in {"agent", "other"} -> [Nothing EXCEPT !.llm = m]
      [] ClassOf(name) = "custom" -> Nothing

EnvPatch(name, m, base, e) ==
    [v \in Vars |->
        CASE v = "OPENAI_BASE_URL" -> base
          [] v = "OPENAI_API_KEY" /\ e[KeyEnv[m]] # Unset -> e[KeyEnv[m]]
          [] v = "LLM_MODEL" /\ ClassOf(name) \in {"agent", "custom"} -> m
          [] OTHER -> e[v]]

-----------------------------------------------------------------------------
(* run.py                                                                     *)

Init ==
    /\ env \in Environments /\ start = env
    /\ registry = <<>>
    /\ configs = {} /\ saved = -1
    /\ pc = "idle" /\ spec = resolve(NoModel) /\ asked = NoModel /\ split = FALSE
    /\ report = "none" /\ calls = 0

\* an unknown name raises before anything else happens
Call(name, m) ==
    /\ pc = "idle" /\ calls < MaxCalls
    /\ name \in Registered
    /\ calls' = calls + 1
    /\ spec' = resolve(name) /\ asked' = m /\ split' \in BOOLEAN
    /\ pc' = IF m = NoModel \/ Kind(name) = "baseline" THEN "ready" ELSE "inject"
    /\ report' = "none"
    /\ UNCHANGED <<env, start, registry, diskVars>>

InjectRefused ==
    /\ pc = "inject" /\ ClassOf(spec.name) = "locked"
    /\ pc' = "idle" /\ report' = "raised"
    /\ UNCHANGED <<env, start, registry, diskVars, callVars, calls>>

Inject ==
    /\ pc = "inject" /\ ClassOf(spec.name) # "locked"
    /\ registry' = Registry(env)
    /\ LET base  == Registry(env)[asked]
           patch == ConfigPatch(spec.name, asked, base, env)
       IN  /\ env' = EnvPatch(spec.name, asked, base, env)
           /\ configs' = {c \in configs : c.name # spec.name \/ c.model # asked}
                             \cup {[name |-> spec.name, model |-> asked, config |-> patch]}
           /\ spec' = [spec EXCEPT !.config = patch]
    /\ pc' = "ready"
    /\ UNCHANGED <<start, saved, asked, split, report, calls>>

RunBaseline ==
    /\ pc = "ready" /\ spec.kind = "baseline"
    /\ report' = "scored"
    /\ pc' = "idle"
    /\ UNCHANGED <<env, start, registry, diskVars, callVars, calls>>

LoadAgent ==
    /\ pc = "ready" /\ spec.kind # "baseline"
    /\ pc' = "running"
    /\ UNCHANGED <<env, start, registry, diskVars, callVars, report, calls>>

\* nothing here ends a worker that was started already: that is left to its
\* constructor or to its proxy's __del__ (WorkerRpc)
LoadFails ==
    /\ pc = "ready" /\ spec.kind # "baseline"
    /\ report' = "raised"
    /\ pc' = "idle"
    /\ UNCHANGED <<env, start, registry, diskVars, callVars, calls>>

\* a split run keeps a checkpoint of the answers so far
RunRaises ==
    /\ pc = "running"
    /\ report' = "raised"
    /\ pc' = "idle"
    /\ IF split THEN saved' \in 0 .. NumQueries ELSE saved' = saved
    /\ UNCHANGED <<env, start, registry, configs, callVars, calls>>

\* nonempty / n >= 0.05
assess_predictions(nonempty) == nonempty * 20 >= NumQueries

RunOnBenchmarkFile ==
    /\ pc = "running" /\ ~split
    /\ \E nonempty \in 0 .. NumQueries :
          report' = IF assess_predictions(nonempty) THEN "valid" ELSE "empty"
    /\ pc' = "idle"
    /\ UNCHANGED <<env, start, registry, diskVars, callVars, calls>>

\* write_json opens the checkpoint for writing and cannot serialize a PredictionSet
RunOnSplit ==
    /\ pc = "running" /\ split
    /\ saved' = -1
    /\ report' = "raised"
    /\ pc' = "idle"
    /\ UNCHANGED <<env, start, registry, configs, callVars, calls>>

Next ==
    \/ \E name \in Names, m \in Models \cup {NoModel} : Call(name, m)
    \/ InjectRefused \/ Inject
    \/ RunBaseline \/ LoadAgent \/ LoadFails
    \/ RunRaises \/ RunOnBenchmarkFile \/ RunOnSplit

Spec == Init /\ [][Next]_vars

-----------------------------------------------------------------------------
(* Whatever ran before in this process, a system runs on the model it was     *)
(* asked to run on, at the endpoint the user configured for it: the           *)
(* environment an earlier call left behind does not redirect it.              *)
BackboneAsAsked ==
    pc = "running" /\ asked # NoModel =>
        /\ env["OPENAI_BASE_URL"] = expand_env(EndpointOf[asked], start)
        /\ ClassOf(spec.name) = "memory" =>
               spec.config.llm = asked /\ spec.config.base = expand_env(EndpointOf[asked], start)
        /\ ClassOf(spec.name) \in {"agent", "custom"} => env["LLM_MODEL"] = asked

(* "Embeddings for memory systems are held CONSTANT" (amb/lib/models.py:9):   *)
(* all memory systems of the matrix embed at the same endpoint.               *)
EmbedderConstant ==
    \A c, d \in configs :
        ClassOf(c.name) = "memory" /\ ClassOf(d.name) = "memory" => c.config.embedder = d.config.embedder

(* They do when the embedder has an endpoint of its own, whatever endpoints   *)
(* the models have.                                                           *)
OwnEmbedderConstant == start[Embedding[1]] # Unset => EmbedderConstant
=============================================================================
