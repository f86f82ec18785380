--------------------------- MODULE LibraryRunProofs ---------------------------
(***************************************************************************)
(* Proofs about LibraryRun, for any registry, any models and any sequence  *)
(* of calls: a system runs on the model it was asked for (BackboneAsAsked),*)
(* and an embedder with an endpoint of its own keeps it                    *)
(* (OwnEmbedderConstant).                                                  *)
(***************************************************************************)
EXTENDS LibraryRun, TLAPS

(* The registry is expanded in the environment the process started in:        *)
(* nothing is injected before its first use.                                  *)
RegistryOfStart ==
    /\ registry \in {<<>>, Endpoints(start)}
    /\ registry = <<>> => env = start

(* A call that got past the injection runs on what was injected.              *)
Injected ==
    /\ spec = [name |-> spec.name, kind |-> spec.kind, config |-> spec.config]
    /\ pc = "inject" => asked \in Models
    /\ pc \in {"ready", "running"} /\ spec.kind # "baseline" /\ asked # NoModel =>
          /\ env["OPENAI_BASE_URL"] = expand_env(EndpointOf[asked], start)
          /\ ClassOf(spec.name) = "memory" =>
                 spec.config.llm = asked /\ spec.config.base = expand_env(EndpointOf[asked], start)
          /\ ClassOf(spec.name) \in {"agent", "custom"} => env["LLM_MODEL"] = asked
    /\ pc = "running" => spec.kind # "baseline"

Backbone == RegistryOfStart /\ Injected

-----------------------------------------------------------------------------
LEMMA InitBackbone == Init => Backbone
BY DEF Init, Backbone, RegistryOfStart, Injected, resolve

(* What a first or a later use of the registry returns.                       *)
LEMMA RegistryValue ==
    ASSUME RegistryOfStart, NEW m \in Models
    PROVE  /\ Registry(env) = Endpoints(start)
           /\ Registry(env) # <<>>
           /\ Registry(env)[m] = expand_env(EndpointOf[m], start)
<1>1. Registry(env) = Endpoints(start) BY DEF RegistryOfStart, Registry
<1>2. Endpoints(start)[m] = expand_env(EndpointOf[m], start) BY DEF Endpoints
<1>3. m \in DOMAIN Endpoints(start) BY DEF Endpoints
<1>4. Endpoints(start) # <<>> BY <1>3
<1> QED BY <1>1, <1>2, <1>4

LEMMA InjectBackbone ==
    ASSUME Backbone, Inject PROVE Backbone'
<1> DEFINE base == expand_env(EndpointOf[asked], start)
<1>1. asked \in Models /\ asked' = asked /\ start' = start BY DEF Backbone, Injected, Inject
<1>2. Registry(env) = Endpoints(start) /\ Registry(env) # <<>> /\ Registry(env)[asked] = base
  BY <1>1, RegistryValue DEF Backbone
<1>3. registry' = Endpoints(start) /\ registry' # <<>> BY <1>2 DEF Inject
<1>4. RegistryOfStart'
  <2>1. Endpoints(start)' = Endpoints(start) BY <1>1 DEF Endpoints, expand_env
  <2> QED BY <1>3, <2>1 DEF RegistryOfStart
<1>5. env' = EnvPatch(spec.name, asked, base, env) BY <1>2 DEF Inject
<1>6. {"OPENAI_BASE_URL", "LLM_MODEL"} \subseteq Vars BY DEF Vars, InjectedVars
<1>7. env'["OPENAI_BASE_URL"] = base BY <1>5, <1>6 DEF EnvPatch
<1>8. ClassOf(spec.name) \in {"agent", "custom"} => env'["LLM_MODEL"] = asked
  BY <1>5, <1>6 DEF EnvPatch
<1>9. /\ spec'.config = ConfigPatch(spec.name, asked, base, env)
      /\ spec'.name = spec.name /\ spec'.kind = spec.kind
      /\ spec' = [name |-> spec'.name, kind |-> spec'.kind, config |-> spec'.config]
  BY <1>2 DEF Inject, Backbone, Injected
<1>10. ClassOf(spec.name) = "memory" => spec'.config.llm = asked /\ spec'.config.base = base
  BY <1>9 DEF ConfigPatch
<1>11. ClassOf(spec.name)' = ClassOf(spec'.name) BY DEF ClassOf, Family
<1>12. expand_env(EndpointOf[asked], start)' = base BY <1>1 DEF expand_env
<1>13. pc' = "ready" BY DEF Inject
<1>14. Injected' BY <1>1, <1>7, <1>8, <1>9, <1>10, <1>11, <1>12, <1>13 DEF Injected
<1> QED BY <1>4, <1>14 DEF Backbone

LEMMA NextBackbone == Backbone /\ [Next]_vars => Backbone'
<1> SUFFICES ASSUME Backbone, [Next]_vars PROVE Backbone' OBVIOUS
<1>1. CASE Inject BY <1>1, InjectBackbone
<1>2. ASSUME UNCHANGED <<env, start, registry>> PROVE RegistryOfStart'
  <2>1. Endpoints(start)' = Endpoints(start) BY <1>2 DEF Endpoints, expand_env
  <2> QED BY <1>2, <2>1 DEF Backbone, RegistryOfStart
<1>3. ASSUME NEW name \in Names, NEW m \in Models \cup {NoModel}, Call(name, m) PROVE Backbone'
  <2>1. spec' = [name |-> name, kind |-> Kind(name), config |-> Nothing] /\ asked' = m
    BY <1>3 DEF Call, resolve
  <2>2. pc' = "ready" => m = NoModel \/ spec'.kind = "baseline" BY <1>3, <2>1 DEF Call
  <2>3. pc' = "inject" => m \in Models BY <1>3 DEF Call
  <2>4. pc' \in {"ready", "inject"} BY <1>3 DEF Call
  <2>5. Injected' BY <2>1, <2>2, <2>3, <2>4 DEF Injected
  <2> QED BY <1>2, <1>3, <2>5 DEF Call, Backbone
<1>4. CASE \/ InjectRefused \/ RunBaseline \/ LoadFails \/ RunRaises
           \/ RunOnBenchmarkFile \/ RunOnSplit
  <2>1. pc' = "idle" /\ spec' = spec /\ UNCHANGED <<env, start, registry>>
    BY <1>4 DEF InjectRefused, RunBaseline, LoadFails, RunRaises, RunOnBenchmarkFile, RunOnSplit, callVars
  <2>2. Injected' BY <2>1 DEF Backbone, Injected
  <2> QED BY <1>2, <2>1, <2>2 DEF Backbone
<1>5. CASE LoadAgent \/ UNCHANGED vars
  <2>1. /\ UNCHANGED <<env, start, registry, spec, asked>>
        /\ pc' = pc \/ (pc = "ready" /\ pc' = "running" /\ spec.kind # "baseline")
    BY <1>5 DEF LoadAgent, vars, callVars
  <2>2. Injected' BY <2>1 DEF Backbone, Injected, ClassOf, Family, expand_env
  <2> QED BY <1>2, <2>1, <2>2 DEF Backbone
<1> QED BY <1>1, <1>3, <1>4, <1>5 DEF Next

(* Whatever calls went before, a system runs on the model and at the endpoint *)
(* it was asked for: the cached registry does not follow the environment that *)
(* injections change.                                                         *)
THEOREM SpecBackboneAsAsked == Spec => []BackboneAsAsked
<1>1. Backbone => BackboneAsAsked BY DEF Backbone, Injected, BackboneAsAsked
<1> QED BY InitBackbone, NextBackbone, <1>1, PTL DEF Spec

-----------------------------------------------------------------------------
(* The embedder.                                                              *)
Embedder ==
    start[Embedding[1]] # Unset =>
        /\ env[Embedding[1]] = start[Embedding[1]]
        /\ \A c \in configs : ClassOf(c.name) = "memory" => c.config.embedder = start[Embedding[1]]

LEMMA OwnEndpoint ==
    ASSUME env[Embedding[1]] # Unset, NEW base
    PROVE  EmbedderAt(env, base) = env[Embedding[1]]
<1>1. 1 \in DOMAIN Embedding BY LibraryAssumption
<1> DEFINE set == {i \in DOMAIN Embedding : env[Embedding[i]] # Unset}
<1>2. 1 \in set /\ \A j \in set : 1 <= j BY <1>1, LibraryAssumption
<1>3. set \subseteq Nat BY LibraryAssumption
<1>4. (CHOOSE i \in set : \A j \in set : i <= j) = 1
  <2>1. \A i \in set : (\A j \in set : i <= j) => i = 1 BY <1>2, <1>3
  <2> QED BY <1>2, <2>1
<1> QED BY <1>2, <1>4 DEF EmbedderAt, expand_env

LEMMA NextEmbedder == Embedder /\ [Next]_vars => Embedder'
<1> SUFFICES ASSUME Embedder, [Next]_vars, start'[Embedding[1]] # Unset
             PROVE  /\ env'[Embedding[1]] = start'[Embedding[1]]
                    /\ \A c \in configs' : ClassOf(c.name) = "memory" =>
                                               c.config.embedder = start'[Embedding[1]]
  BY DEF Embedder, ClassOf, Family
<1> DEFINE own == start[Embedding[1]]
<1>1. start' = start
  BY DEF Next, vars, Call, InjectRefused, Inject, RunBaseline, LoadAgent, LoadFails, RunRaises,
         RunOnBenchmarkFile, RunOnSplit
<1>2. own # Unset /\ env[Embedding[1]] = own BY <1>1 DEF Embedder
<1>3. CASE Inject
  <2> DEFINE base == Registry(env)[asked]
             patch == ConfigPatch(spec.name, asked, base, env)
             new == [name |-> spec.name, model |-> asked, config |-> patch]
  <2>1. Embedding[1] \in Vars
    <3>1. 1 \in DOMAIN Embedding BY LibraryAssumption
    <3>2. Embedding[1] \in EmbedderVars BY <3>1 DEF EmbedderVars
    <3> QED BY <3>2 DEF Vars
  <2>2. env' = EnvPatch(spec.name, asked, base, env) BY <1>3 DEF Inject
  <2>3. env'[Embedding[1]] = own
    BY <1>2, <2>1, <2>2, LibraryAssumption DEF EnvPatch, InjectedVars
  <2>4. configs' \subseteq configs \cup {new} BY <1>3 DEF Inject
  <2>5. EmbedderAt(env, base) = own BY <1>2, OwnEndpoint
  <2>6. ClassOf(new.name) = "memory" => new.config.embedder = own BY <2>5 DEF ConfigPatch
  <2> QED BY <1>1, <1>2, <2>3, <2>4, <2>6 DEF Embedder
<1>4. CASE UNCHANGED <<env, configs>> BY <1>1, <1>2, <1>4 DEF Embedder
<1>5. Inject \/ UNCHANGED <<env, configs>>
  BY DEF Next, vars, diskVars, Call, InjectRefused, RunBaseline, LoadAgent, LoadFails, RunRaises,
         RunOnBenchmarkFile, RunOnSplit
<1> QED BY <1>3, <1>4, <1>5

(* An embedder with an endpoint of its own is the same in every patched       *)
(* configuration, whatever models were injected before.                       *)
THEOREM SpecOwnEmbedder == Spec => []OwnEmbedderConstant
<1>1. Init => Embedder BY DEF Init, Embedder
<1>2. Embedder => OwnEmbedderConstant BY DEF Embedder, OwnEmbedderConstant, EmbedderConstant
<1> QED BY <1>1, NextEmbedder, <1>2, PTL DEF Spec
=============================================================================
