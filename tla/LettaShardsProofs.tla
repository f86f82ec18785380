--------------------------- MODULE LettaShardsProofs ---------------------------
(***************************************************************************)
(* Proofs about LettaShards, for any number of shards, texts, retries and  *)
(* restarts: requests are spaced (Spaced), a search answers from the whole *)
(* pass (PassComplete), a user has one agent (OneAgent), and each shard     *)
(* pays for a text once (RequestsPaid).                                    *)
(***************************************************************************)
EXTENDS LettaShards, FiniteSetTheorems, TLAPS

Labels == {"ensure", "create", "embed", "gate", "waiting", "stamping", "posting", "caching",
           "replacing", "apply", "done", "failed"}

Step(p) == Work(p) \/ Stop(p) \/ Start(p)

-----------------------------------------------------------------------------
(* The throttle: whoever is behind the lock holds it, its wait covers what is *)
(* left of the interval, and a file without a stamp is no older than that.    *)
ThrottleTypes ==
    /\ pc \in [Shards -> Labels]
    /\ need \in [Shards -> Nat]
    /\ age \in 0 .. Interval
    /\ file \in {"empty", "stamp"}

Behind == \A p \in Shards : pc[p] \in {"waiting", "stamping"} <=> lock = p

Covered ==
    /\ \A p \in Shards : pc[p] = "waiting" => need[p] + age >= Interval
    /\ \A p \in Shards : pc[p] = "stamping" => age = Interval
    /\ file = "empty" => age = Interval

Throttle == ThrottleTypes /\ Behind /\ Covered

LEMMA InitThrottle == Init => Throttle
BY ShardsAssumption DEF Init, Throttle, ThrottleTypes, Behind, Covered, Labels

LEMMA TickThrottle == Throttle /\ Tick => Throttle'
<1> SUFFICES ASSUME Throttle, Tick PROVE Throttle' OBVIOUS
<1> USE DEF Throttle, Tick
<1>1. ThrottleTypes'
  BY ShardsAssumption DEF ThrottleTypes
<1>2. Behind'
  BY DEF Behind
<1>3. Covered'
  <2>1. ASSUME NEW p \in Shards, pc[p] = "waiting" PROVE need'[p] + age' >= Interval
    BY <2>1, ShardsAssumption DEF ThrottleTypes, Covered
  <2> QED BY <2>1, ShardsAssumption DEF ThrottleTypes, Covered
<1> QED BY <1>1, <1>2, <1>3

(* A step that is not at the throttle.                                        *)
Elsewhere(p) ==
    /\ \E l \in Labels \ {"waiting", "stamping"} : Goto(p, l)
    /\ pc[p] \notin {"waiting", "stamping"}
    /\ UNCHANGED throttleVars

LEMMA ElsewhereThrottle ==
    ASSUME NEW p \in Shards, Throttle, Elsewhere(p) PROVE Throttle'
<1> USE DEF Throttle, Elsewhere, Goto, throttleVars
<1>1. ThrottleTypes' BY DEF ThrottleTypes
<1>2. Behind' BY DEF ThrottleTypes, Behind
<1>3. Covered' BY DEF ThrottleTypes, Covered
<1> QED BY <1>1, <1>2, <1>3

LEMMA StepThrottle ==
    ASSUME NEW p \in Shards, Throttle, Step(p) PROVE Throttle'
<1>1. CASE TakeLock(p)
  <2> USE <1>1, ShardsAssumption DEF Throttle, TakeLock, Goto, Remaining
  <2>1. ThrottleTypes' BY DEF ThrottleTypes, Labels
  <2>2. Behind' BY DEF ThrottleTypes, Behind
  <2>3. Covered' BY DEF ThrottleTypes, Covered
  <2> QED BY <2>1, <2>2, <2>3
<1>2. CASE Truncate(p)
  <2> USE <1>2, ShardsAssumption DEF Throttle, Truncate, Goto
  <2>1. ThrottleTypes' BY DEF ThrottleTypes, Labels
  <2>2. Behind' BY DEF ThrottleTypes, Behind
  <2>3. age = Interval BY DEF ThrottleTypes, Covered
  <2>4. Covered' BY <2>3 DEF ThrottleTypes, Covered
  <2> QED BY <2>1, <2>2, <2>4
<1>3. CASE Stamp(p)
  <2> USE <1>3, ShardsAssumption DEF Throttle, Stamp, Goto
  <2>1. ThrottleTypes' BY DEF ThrottleTypes, Labels
  <2>2. lock = p BY DEF Behind
  <2>3. Behind' BY <2>2 DEF ThrottleTypes, Behind
  <2>4. \A q \in Shards : pc'[q] \notin {"waiting", "stamping"}
    BY <2>2 DEF ThrottleTypes, Behind
  <2>5. Covered' BY <2>4 DEF Covered
  <2> QED BY <2>1, <2>3, <2>5
<1>4. CASE Stop(p)
  <2> USE <1>4, ShardsAssumption DEF Throttle, Stop, Goto
  <2>1. ThrottleTypes' BY DEF ThrottleTypes, Labels
  <2>2. Behind' BY DEF ThrottleTypes, Behind
  <2>3. Covered' BY DEF ThrottleTypes, Covered
  <2> QED BY <2>1, <2>2, <2>3
<1>5. CASE \/ AgentKnown(p) \/ AgentFound(p) \/ AgentNotFound(p) \/ CreateAgent(p)
           \/ Embed(p) \/ Insert(p) \/ Search(p) \/ Start(p)
  <2>1. Elsewhere(p)
    BY <1>5 DEF AgentKnown, AgentFound, AgentNotFound, CreateAgent, Embed, Insert, Search, Passages, Start,
                Elsewhere, Labels, Goto, throttleVars
  <2> QED BY <2>1, ElsewhereThrottle
<1>6. CASE Posted(p) \/ PostFails(p) \/ WriteTmp(p) \/ Replace(p)
  <2>1. Elsewhere(p)
    BY <1>6 DEF Posted, PostFails, WriteTmp, Replace, Elsewhere, Labels, Goto, throttleVars
  <2> QED BY <2>1, ElsewhereThrottle
<1> QED BY <1>1, <1>2, <1>3, <1>4, <1>5, <1>6 DEF Step, Work

LEMMA NextThrottle == Throttle /\ [Next]_vars => Throttle'
<1> SUFFICES ASSUME Throttle, [Next]_vars PROVE Throttle' OBVIOUS
<1>1. CASE Tick BY <1>1, TickThrottle
<1>2. ASSUME NEW p \in Shards, Step(p) PROVE Throttle' BY <1>2, StepThrottle
<1>3. CASE UNCHANGED vars
  BY <1>3 DEF vars, throttleVars, Throttle, ThrottleTypes, Behind, Covered
<1> QED BY <1>1, <1>2, <1>3 DEF Next, Step

(* Whoever stamps has waited for the whole interval.                          *)
LEMMA StampSpaced ==
    Throttle => \A p \in Shards : pc[p] = "stamping" /\ pc'[p] = "posting" => age = Interval
BY DEF Throttle, Covered

(* No shard gets leave to post sooner than Interval after another one did,    *)
(* whichever shards are killed at whatever point of _throttle_before_request. *)
THEOREM SpecSpaced == Spec => Spaced
<1>1. Throttle => [\A p \in Shards : pc[p] = "stamping" /\ pc'[p] = "posting" => age = Interval]_vars
  BY StampSpaced
<1> QED BY InitThrottle, NextThrottle, <1>1, PTL DEF Spec, Spaced

-----------------------------------------------------------------------------
(* The agents: a client object keeps to one agent, which holds every turn it  *)
(* stored; one more agent of the user is owed to a failed lookup.             *)
AgentTypes ==
    /\ pc \in [Shards -> Labels]
    /\ item \in [Shards -> Items]
    /\ agentId \in [Shards -> Nat]
    /\ agents \in [Shards -> Seq(SUBSET Turns)]
    /\ answer \in [Shards -> SUBSET Turns]
    /\ misses \in [Shards -> Nat]

Unresolved == {"ensure", "create", "failed"}

Kept(p) ==
    /\ agentId[p] <= Len(agents[p])
    /\ pc[p] = "create" => agentId[p] = 0
    /\ pc[p] \notin Unresolved => agentId[p] # 0
    /\ pc[p] # "failed" /\ item[p] > 1 => agentId[p] # 0
    /\ agentId[p] # 0 => 1 .. item[p] - 1 \subseteq agents[p][agentId[p]]
    /\ pc[p] = "done" => answer[p] = Turns

Owed(p) ==
    /\ Len(agents[p]) <= 1 + misses[p]
    /\ pc[p] = "create" => Len(agents[p]) <= misses[p]

Agents == AgentTypes /\ \A p \in Shards : Kept(p) /\ Owed(p)

LEMMA InitAgents == Init => Agents
BY ShardsAssumption DEF Init, Agents, AgentTypes, Kept, Owed, Labels, Items, Turns, Unresolved

(* A step of one shard does not touch the agents of another one.              *)
Mine(p) ==
    \A q \in Shards \ {p} :
        /\ pc'[q] = pc[q] /\ item'[q] = item[q] /\ agentId'[q] = agentId[q]
        /\ agents'[q] = agents[q] /\ answer'[q] = answer[q] /\ misses'[q] = misses[q]

LEMMA MineAgents ==
    ASSUME NEW p \in Shards, Agents, Mine(p), AgentTypes', Kept(p)', Owed(p)' PROVE Agents'
<1>1. ASSUME NEW q \in Shards \ {p} PROVE Kept(q)' /\ Owed(q)'
  BY <1>1 DEF Agents, Mine, Kept, Owed
<1> QED BY <1>1 DEF Agents

(* A step that neither resolves nor stores anything.                          *)
Passive(p) ==
    /\ pc[p] \notin Unresolved /\ pc[p] # "done"
    /\ \E l \in Labels \ {"create", "done"} : Goto(p, l) /\ (l = "ensure" => pc[p] = "ensure")
    /\ UNCHANGED <<item, answer, agentVars>>

LEMMA PassiveAgents ==
    ASSUME NEW p \in Shards, Agents, Passive(p) PROVE Agents'
<1> USE DEF Passive, Goto, agentVars
<1>1. AgentTypes' BY DEF Agents, AgentTypes
<1>2. Mine(p) BY DEF Agents, AgentTypes, Mine
<1>3. Kept(p)' BY DEF Agents, AgentTypes, Kept, Unresolved
<1>4. Owed(p)' BY DEF Agents, AgentTypes, Owed
<1> QED BY <1>1, <1>2, <1>3, <1>4, MineAgents

LEMMA ResolveAgents ==
    ASSUME NEW p \in Shards, Agents,
           AgentKnown(p) \/ AgentFound(p) \/ AgentNotFound(p) \/ CreateAgent(p)
    PROVE  Agents'
<1>1. AgentTypes /\ Kept(p) /\ Owed(p) BY DEF Agents
<1>2. CASE AgentKnown(p)
  <2> USE <1>1, <1>2 DEF AgentKnown, Goto, agentVars
  <2>1. AgentTypes' BY DEF AgentTypes, Labels
  <2>2. Mine(p) BY DEF AgentTypes, Mine
  <2>3. Kept(p)' BY DEF AgentTypes, Kept, Unresolved
  <2>4. Owed(p)' BY DEF AgentTypes, Owed
  <2> QED BY <2>1, <2>2, <2>3, <2>4, MineAgents
<1>3. CASE AgentFound(p)
  <2> USE <1>1, <1>3 DEF AgentFound, KeepAgent, Goto
  <2>0. PICK id \in DOMAIN agents[p] : agentId' = [agentId EXCEPT ![p] = id] OBVIOUS
  <2>1. id \in 1 .. Len(agents[p]) BY <2>0 DEF AgentTypes
  <2>2. item[p] = 1 BY DEF AgentTypes, Kept, Items
  <2>3. AgentTypes' BY <2>0, <2>1 DEF AgentTypes, Labels
  <2>4. Mine(p) BY <2>0 DEF AgentTypes, Mine
  <2>5. Kept(p)'
    <3>1. agentId'[p] = id /\ pc'[p] = "embed" /\ item'[p] = 1 /\ agents'[p] = agents[p]
      BY <2>0, <2>2 DEF AgentTypes
    <3>2. 1 .. item'[p] - 1 = {} BY <3>1
    <3> QED BY <2>1, <3>1, <3>2 DEF AgentTypes, Kept, Unresolved
  <2>6. Owed(p)' BY DEF AgentTypes, Owed
  <2> QED BY <2>3, <2>4, <2>5, <2>6, MineAgents
<1>4. CASE AgentNotFound(p)
  <2> USE <1>1, <1>4 DEF AgentNotFound, Goto
  <2>1. AgentTypes'
    <3>1. misses' \in [Shards -> Nat] BY DEF AgentTypes
    <3> QED BY <3>1 DEF AgentTypes, Labels
  <2>2. Mine(p) BY DEF AgentTypes, Mine
  <2>3. Kept(p)' BY DEF AgentTypes, Kept, Unresolved
  <2>4. Len(agents[p]) <= misses'[p] BY DEF AgentTypes, Owed
  <2>5. Owed(p)' BY <2>4 DEF AgentTypes, Owed
  <2> QED BY <2>1, <2>2, <2>3, <2>5, MineAgents
<1>5. CASE CreateAgent(p)
  <2> USE <1>1, <1>5 DEF CreateAgent, KeepAgent, Goto
  <2>1. /\ Append(agents[p], {}) \in Seq(SUBSET Turns)
        /\ Len(Append(agents[p], {})) = Len(agents[p]) + 1
        /\ Len(agents[p]) \in Nat
    BY DEF AgentTypes
  <2>2. item[p] = 1 BY DEF AgentTypes, Kept, Items
  <2>3. AgentTypes' BY <2>1 DEF AgentTypes, Labels
  <2>4. Mine(p) BY DEF AgentTypes, Mine
  <2>5. Kept(p)'
    <3>1. agents'[p] = Append(agents[p], {}) /\ agentId'[p] = Len(agents[p]) + 1
      BY DEF AgentTypes
    <3>2. pc'[p] = "embed" /\ item'[p] = 1 BY <2>2 DEF AgentTypes
    <3>3. 1 .. item'[p] - 1 = {} BY <3>2
    <3> QED BY <2>1, <3>1, <3>2, <3>3 DEF Kept, Unresolved
  <2>6. Owed(p)' BY <2>1 DEF AgentTypes, Owed
  <2> QED BY <2>3, <2>4, <2>5, <2>6, MineAgents
<1> QED BY <1>2, <1>3, <1>4, <1>5

LEMMA InsertAgents ==
    ASSUME NEW p \in Shards, Agents, Insert(p) PROVE Agents'
<1> DEFINE id == agentId[p]
           new == [agents[p] EXCEPT ![id] = @ \cup {item[p]}]
<1>1. AgentTypes /\ Kept(p) /\ Owed(p) BY DEF Agents
<1>2. id \in 1 .. Len(agents[p]) BY <1>1 DEF Insert, AgentTypes, Kept, Unresolved
<1>3. agents' = [agents EXCEPT ![p] = new] BY DEF Insert
<1>4. new \in Seq(SUBSET Turns) /\ Len(new) = Len(agents[p])
  BY <1>1, <1>2 DEF Insert, AgentTypes
<1>5. new[id] = agents[p][id] \cup {item[p]} BY <1>1, <1>2 DEF AgentTypes
<1>6. item[p] \in 1 .. NumTurns /\ 1 .. item[p] - 1 \subseteq agents[p][id]
  BY <1>1, <1>2 DEF Insert, Turns, Kept
<1>7. 1 .. item[p] \subseteq new[id] BY <1>5, <1>6
<1>8. agents'[p] = new /\ agentId'[p] = id /\ item'[p] = item[p] + 1 /\ pc'[p] = "ensure"
  BY <1>1, <1>3 DEF Insert, Goto, AgentTypes
<1>9. Kept(p)' BY <1>1, <1>2, <1>4, <1>6, <1>7, <1>8 DEF Kept, Unresolved
<1>10. Owed(p)' BY <1>1, <1>4, <1>8 DEF Insert, Owed
<1>11. Mine(p) BY <1>1, <1>3 DEF Insert, Goto, AgentTypes, Mine
<1>12. AgentTypes' BY <1>1, <1>3, <1>4, <1>6, ShardsAssumption DEF Insert, Goto, AgentTypes, Labels, Items
<1> QED BY <1>9, <1>10, <1>11, <1>12, MineAgents

LEMMA SearchAgents ==
    ASSUME NEW p \in Shards, Agents, Search(p) PROVE Agents'
<1> USE DEF Search, Passages, Goto, agentVars
<1>1. AgentTypes /\ Kept(p) /\ Owed(p) BY DEF Agents
<1>2. agentId[p] \in 1 .. Len(agents[p]) BY <1>1 DEF AgentTypes, Kept, Unresolved
<1>3. agents[p][agentId[p]] \subseteq Turns BY <1>1, <1>2 DEF AgentTypes
<1>4. item[p] = NumTurns + 1 BY <1>1, ShardsAssumption DEF AgentTypes, Items, Turns
<1>5. answer'[p] = Turns
  <2>1. item[p] - 1 = NumTurns BY <1>4, ShardsAssumption
  <2>2. agentId[p] # 0 BY <1>2
  <2>3. Turns \subseteq agents[p][agentId[p]] BY <1>1, <2>1, <2>2 DEF Kept, Turns
  <2>4. answer'[p] = agents[p][agentId[p]] BY <1>1 DEF AgentTypes
  <2> QED BY <1>3, <2>3, <2>4
<1>6. AgentTypes' BY <1>1, <1>3 DEF AgentTypes, Labels
<1>7. Mine(p) BY <1>1 DEF AgentTypes, Mine
<1>8. Kept(p)' BY <1>1, <1>2, <1>5 DEF AgentTypes, Kept, Unresolved
<1>9. Owed(p)' BY <1>1 DEF AgentTypes, Owed
<1> QED BY <1>6, <1>7, <1>8, <1>9, MineAgents

LEMMA StopAgents ==
    ASSUME NEW p \in Shards, Agents, Stop(p) PROVE Agents'
<1> USE DEF Stop, Goto, agentVars
<1>1. AgentTypes /\ Kept(p) /\ Owed(p) BY DEF Agents
<1>2. AgentTypes' BY <1>1 DEF AgentTypes, Labels
<1>3. Mine(p) BY <1>1 DEF AgentTypes, Mine
<1>4. Kept(p)' BY <1>1 DEF AgentTypes, Kept, Unresolved
<1>5. Owed(p)' BY <1>1 DEF AgentTypes, Owed
<1> QED BY <1>2, <1>3, <1>4, <1>5, MineAgents

LEMMA StartAgents ==
    ASSUME NEW p \in Shards, Agents, Start(p) PROVE Agents'
<1> USE DEF Start, Goto
<1>1. AgentTypes /\ Kept(p) /\ Owed(p) BY DEF Agents
<1>2. AgentTypes' BY <1>1, ShardsAssumption DEF AgentTypes, Labels, Items
<1>3. Mine(p) BY <1>1 DEF AgentTypes, Mine
<1>4. Kept(p)' BY <1>1 DEF AgentTypes, Kept, Unresolved
<1>5. Owed(p)' BY <1>1 DEF AgentTypes, Owed
<1> QED BY <1>2, <1>3, <1>4, <1>5, MineAgents

LEMMA NextAgents == Agents /\ [Next]_vars => Agents'
<1> SUFFICES ASSUME Agents, [Next]_vars PROVE Agents' OBVIOUS
<1>1. ASSUME UNCHANGED <<pc, item, answer, agentVars>> PROVE Agents'
  BY <1>1 DEF agentVars, Agents, AgentTypes, Kept, Owed
<1>2. CASE Tick \/ UNCHANGED vars BY <1>1, <1>2 DEF Tick, vars
<1>3. ASSUME NEW p \in Shards, Step(p) PROVE Agents'
  <2>1. CASE Embed(p) \/ TakeLock(p) \/ Truncate(p) \/ Stamp(p)
    <3>1. Passive(p)
      BY <2>1 DEF Embed, TakeLock, Truncate, Stamp, Passive, Goto, Labels, Unresolved
    <3> QED BY <3>1, PassiveAgents
  <2>2. CASE Posted(p) \/ PostFails(p) \/ WriteTmp(p) \/ Replace(p)
    <3>1. Passive(p)
      BY <2>2 DEF Posted, PostFails, WriteTmp, Replace, Passive, Goto, Labels, Unresolved
    <3> QED BY <3>1, PassiveAgents
  <2> QED BY <1>3, <2>1, <2>2, ResolveAgents, InsertAgents, SearchAgents, StopAgents, StartAgents
          DEF Step, Work
<1> QED BY <1>2, <1>3 DEF Next, Step

(* The search of a shard answers from every turn its client object stored,    *)
(* whatever lookups failed: _agent_ids keeps the adds and the search on one   *)
(* agent.                                                                     *)
THEOREM SpecPassComplete == Spec => []PassComplete
<1>1. Agents => PassComplete BY DEF Agents, Kept, PassComplete
<1> QED BY InitAgents, NextAgents, <1>1, PTL DEF Spec

(* A user has more than one saved agent only after lookups that failed.       *)
THEOREM SpecOneAgent == Spec => []OneAgent
<1>1. Agents => OneAgent BY DEF Agents, Owed, OneAgent
<1> QED BY InitAgents, NextAgents, <1>1, PTL DEF Spec
-----------------------------------------------------------------------------
(* The requests: while a text is not cached, every answer paid for and not    *)
(* lost is in the hands of a shard that is about to cache it; from then on no  *)
(* shard starts to ask for it, so only those on their way still pay.          *)
AskingLabels  == {"gate", "waiting", "stamping", "posting"}
HoldingLabels == {"caching", "replacing"}

At(labels, text) == {p \in Shards : pc[p] \in labels /\ Text(p) = text}

Asking(text)  == At(AskingLabels, text)
Holding(text) == At(HoldingLabels, text)

PaidTypes ==
    /\ cache \in [Texts -> {"none", "whole"}]
    /\ paid \in [Texts -> Nat]
    /\ wasted \in [Texts -> Nat]

Account(text) ==
    /\ cache[text] = "none" => paid[text] = wasted[text] + Cardinality(Holding(text))
    /\ cache[text] = "whole" =>
           paid[text] + Cardinality(Asking(text)) <= Cardinality(Shards) + wasted[text]

Paid == PaidTypes /\ \A text \in Texts : Account(text)

LEMMA AtFinite ==
    ASSUME NEW labels, NEW text
    PROVE  /\ IsFiniteSet(At(labels, text)) /\ Cardinality(At(labels, text)) \in Nat
           /\ IsFiniteSet(At(labels, text)') /\ Cardinality(At(labels, text)') \in Nat
           /\ Cardinality(Shards) \in Nat
           /\ Cardinality(At(labels, text)) <= Cardinality(Shards)
<1>1. At(labels, text) \in SUBSET Shards /\ At(labels, text)' \in SUBSET Shards BY DEF At
<1>2. IsFiniteSet(Shards) BY ShardsAssumption
<1>3. IsFiniteSet(At(labels, text)) /\ Cardinality(At(labels, text)) <= Cardinality(Shards)
  BY <1>1, <1>2, FS_Subset
<1>4. IsFiniteSet(At(labels, text)') BY <1>1, <1>2, FS_Subset
<1> QED BY <1>2, <1>3, <1>4, FS_CardinalityType

(* A shard asks for a text or holds its answer, not both.                     *)
LEMMA AskingOrHolding ==
    ASSUME NEW text
    PROVE  Cardinality(Holding(text)) + Cardinality(Asking(text)) <= Cardinality(Shards)
<1> DEFINE A == Asking(text)
           H == Holding(text)
<1>1. A \cap H = {} /\ A \cup H \in SUBSET Shards
  BY DEF Asking, Holding, At, AskingLabels, HoldingLabels
<1>2. IsFiniteSet(A) /\ IsFiniteSet(H) /\ Cardinality(A) \in Nat /\ Cardinality(H) \in Nat
  BY AtFinite DEF Asking, Holding
<1>3. Cardinality(A \cup H) = Cardinality(A) + Cardinality(H)
  BY <1>1, <1>2, FS_Union, FS_EmptySet
<1>4. Cardinality(A \cup H) <= Cardinality(Shards) BY <1>1, ShardsAssumption, FS_Subset
<1> QED BY <1>2, <1>3, <1>4

LEMMA TextType ==
    ASSUME Agents, NEW p \in Shards
    PROVE  Text(p) \in Texts
BY DEF Agents, AgentTypes, Text, Texts

(* Only the shard that moves enters or leaves a set, and stays at its text    *)
(* as long as it asks or holds.                                               *)
Moves(p, l) ==
    /\ l \in Labels /\ Goto(p, l)
    /\ item' = item \/ (l \notin AskingLabels \cup HoldingLabels /\ \A q \in Shards \ {p} : item'[q] = item[q])

LEMMA MovesAt ==
    ASSUME Agents, NEW p \in Shards, NEW l, Moves(p, l), NEW text,
           NEW labels, labels \in {AskingLabels, HoldingLabels}
    PROVE  At(labels, text)' = IF l \in labels /\ Text(p) = text THEN At(labels, text) \cup {p}
                               ELSE At(labels, text) \ {p}
<1>1. pc'[p] = l /\ \A q \in Shards \ {p} : pc'[q] = pc[q] /\ item'[q] = item[q]
  BY DEF Moves, Goto, Agents, AgentTypes
<1>2. l \in labels => Text(p)' = Text(p) BY DEF Moves, Text
<1> QED BY <1>1, <1>2 DEF At, Text

LEMMA MovesCount ==
    ASSUME Agents, NEW p \in Shards, NEW l, Moves(p, l), NEW text,
           NEW labels, labels \in {AskingLabels, HoldingLabels}
    PROVE  /\ text # Text(p) => Cardinality(At(labels, text)') = Cardinality(At(labels, text))
           /\ text = Text(p) =>
                  Cardinality(At(labels, text)') =
                      Cardinality(At(labels, text)) + (IF l \in labels THEN 1 ELSE 0)
                                                    - (IF pc[p] \in labels THEN 1 ELSE 0)
<1> DEFINE S == At(labels, text)
<1>1. IsFiniteSet(S) /\ Cardinality(S) \in Nat BY AtFinite
<1>2. p \in S <=> pc[p] \in labels /\ Text(p) = text BY DEF At
<1>3. S' = IF l \in labels /\ Text(p) = text THEN S \cup {p} ELSE S \ {p} BY MovesAt
<1>4. Cardinality(S \cup {p}) = IF p \in S THEN Cardinality(S) ELSE Cardinality(S) + 1
  BY <1>1, FS_AddElement
<1>5. Cardinality(S \ {p}) = IF p \in S THEN Cardinality(S) - 1 ELSE Cardinality(S)
  BY <1>1, FS_RemoveElement
<1> HIDE DEF S
<1>6. /\ text # Text(p) => Cardinality(S') = Cardinality(S)
      /\ text = Text(p) =>
             Cardinality(S') = Cardinality(S) + (IF l \in labels THEN 1 ELSE 0)
                                              - (IF pc[p] \in labels THEN 1 ELSE 0)
  BY <1>1, <1>2, <1>3, <1>4, <1>5
<1> QED BY <1>6 DEF S

LEMMA InitPaid == Init => Paid
<1> SUFFICES ASSUME Init PROVE Paid OBVIOUS
<1>1. PaidTypes BY DEF Init, PaidTypes
<1>2. ASSUME NEW text \in Texts PROVE Account(text)
  <2>1. Holding(text) = {} BY DEF Init, Holding, HoldingLabels, At
  <2> QED BY <2>1, FS_EmptySet DEF Init, Account
<1> QED BY <1>1, <1>2 DEF Paid

(* What a step changes for the text of its shard, and for no other one.       *)
Others(text) ==
    \A other \in Texts \ {text} :
        cache'[other] = cache[other] /\ paid'[other] = paid[other] /\ wasted'[other] = wasted[other]

LEMMA MovesPaid ==
    ASSUME Agents, Paid, NEW p \in Shards, NEW l, Moves(p, l), PaidTypes',
           NEW t \in Texts, t = Text(p), Others(t), Account(t)'
    PROVE  Paid'
<1>1. ASSUME NEW text \in Texts, text # t PROVE Account(text)'
  <2>1. Cardinality(Asking(text)') = Cardinality(Asking(text))
    BY <1>1, MovesCount DEF Asking
  <2>2. Cardinality(Holding(text)') = Cardinality(Holding(text))
    BY <1>1, MovesCount DEF Holding
  <2> QED BY <1>1, <2>1, <2>2 DEF Paid, Account, Others
<1> QED BY <1>1 DEF Paid

(* The account of its text, from what the shard asks for and holds.           *)
LEMMA MovesAccount ==
    ASSUME Agents, Paid, NEW p \in Shards, NEW l, Moves(p, l), NEW t \in Texts, t = Text(p),
           NEW asks \in {0, 1}, NEW asked \in {0, 1}, NEW holds \in {0, 1}, NEW held \in {0, 1},
           asks = 1 <=> l \in AskingLabels, asked = 1 <=> pc[p] \in AskingLabels,
           holds = 1 <=> l \in HoldingLabels, held = 1 <=> pc[p] \in HoldingLabels,
           \/ cache'[t] = "none" /\ cache[t] = "none"
                /\ paid'[t] + held = wasted'[t] + paid[t] - wasted[t] + holds
           \/ cache'[t] = "whole" /\ cache[t] = "whole"
                /\ paid'[t] - paid[t] + asks <= wasted'[t] - wasted[t] + asked
           \/ cache'[t] = "whole" /\ cache[t] = "none" /\ paid'[t] = paid[t] /\ wasted'[t] = wasted[t]
                /\ asks = 0,
           PaidTypes'
    PROVE  Account(t)'
<1> DEFINE a == Cardinality(Asking(t))
           h == Cardinality(Holding(t))
           b == Cardinality(Asking(t)')
           g == Cardinality(Holding(t)')
           n == Cardinality(Shards)
<1>1. a \in Nat /\ h \in Nat /\ b \in Nat /\ g \in Nat /\ n \in Nat
  BY AtFinite DEF Asking, Holding
<1>2. h + a <= n BY AskingOrHolding
<1>3. b = a + asks - asked
  <2>1. Cardinality(Asking(t)') = Cardinality(Asking(t)) + (IF l \in AskingLabels THEN 1 ELSE 0)
                                                         - (IF pc[p] \in AskingLabels THEN 1 ELSE 0)
    BY MovesCount DEF Asking
  <2> QED BY <1>1, <2>1
<1>4. g = h + holds - held
  <2>1. Cardinality(Holding(t)') = Cardinality(Holding(t)) + (IF l \in HoldingLabels THEN 1 ELSE 0)
                                                           - (IF pc[p] \in HoldingLabels THEN 1 ELSE 0)
    BY MovesCount DEF Holding
  <2> QED BY <1>1, <2>1
<1>5. /\ cache[t] = "none" => paid[t] = wasted[t] + h
      /\ cache[t] = "whole" => paid[t] + a <= n + wasted[t]
  BY DEF Paid, Account
<1>6. /\ paid[t] \in Nat /\ wasted[t] \in Nat /\ paid'[t] \in Nat /\ wasted'[t] \in Nat
  BY DEF Paid, PaidTypes
<1> HIDE DEF a, h, b, g, n
<1>7. /\ cache'[t] = "none" => paid'[t] = wasted'[t] + g
      /\ cache'[t] = "whole" => paid'[t] + b <= n + wasted'[t]
  <2> DEFINE P == paid[t]
             W == wasted[t]
             PP == paid'[t]
             WW == wasted'[t]
  <2>1. P \in Nat /\ W \in Nat /\ PP \in Nat /\ WW \in Nat BY <1>6
  <2>2. CASE /\ cache'[t] = "none" /\ cache[t] = "none" /\ PP + held = WW + P - W + holds
    <3>1. P = W + h BY <1>5, <2>2
    <3> HIDE DEF P, W, PP, WW
    <3>2. PP = WW + g BY <1>1, <1>4, <2>1, <2>2, <3>1
    <3> QED BY <2>2, <3>2 DEF PP, WW
  <2>3. CASE /\ cache'[t] = "whole" /\ cache[t] = "whole" /\ PP - P + asks <= WW - W + asked
    <3>1. P + a <= n + W BY <1>5, <2>3
    <3> HIDE DEF P, W, PP, WW
    <3>2. PP + b <= n + WW BY <1>1, <1>3, <2>1, <2>3, <3>1
    <3> QED BY <2>3, <3>2 DEF PP, WW
  <2>4. CASE /\ cache'[t] = "whole" /\ cache[t] = "none" /\ PP = P /\ WW = W /\ asks = 0
    <3>1. P = W + h BY <1>5, <2>4
    <3> HIDE DEF P, W, PP, WW
    <3>2. PP + b <= n + WW BY <1>1, <1>2, <1>3, <2>1, <2>4, <3>1
    <3> QED BY <2>4, <3>2 DEF PP, WW
  <2> QED BY <2>2, <2>3, <2>4
<1> QED BY <1>7 DEF Account, b, g, n

(* A step that neither asks, pays, caches nor loses an answer.                *)
LEMMA ApartPaid ==
    ASSUME Agents, Paid, NEW p \in Shards, NEW l, Moves(p, l), UNCHANGED <<cache, paid, wasted>>,
           l \in AskingLabels <=> pc[p] \in AskingLabels,
           l \in HoldingLabels <=> pc[p] \in HoldingLabels
    PROVE  Paid'
<1>1. PICK t \in Texts : t = Text(p) BY TextType
<1>2. ASSUME NEW text \in Texts PROVE Account(text)'
  <2>1. Cardinality(Asking(text)') = Cardinality(Asking(text))
    <3>1. Cardinality(At(AskingLabels, text)) \in Nat BY AtFinite
    <3> QED BY <3>1, MovesCount DEF Asking
  <2>2. Cardinality(Holding(text)') = Cardinality(Holding(text))
    <3>1. Cardinality(At(HoldingLabels, text)) \in Nat BY AtFinite
    <3> QED BY <3>1, MovesCount DEF Holding
  <2> QED BY <2>1, <2>2 DEF Paid, Account
<1>3. PaidTypes' BY DEF Paid, PaidTypes
<1> QED BY <1>2, <1>3 DEF Paid

LEMMA StepPaid ==
    ASSUME Agents, Paid, NEW p \in Shards, Step(p)
    PROVE  Paid'
<1>0. PICK t \in Texts : t = Text(p) BY TextType
<1>t. AgentTypes /\ PaidTypes BY DEF Agents, Paid
<1>1. CASE Embed(p)
  <2>1. CASE Cached(t)
    <3>1. Moves(p, "apply") BY <1>0, <1>1, <2>1 DEF Embed, Moves, Labels
    <3> QED BY <1>1, <3>1, ApartPaid DEF Embed, AskingLabels, HoldingLabels
  <2>2. CASE ~Cached(t)
    <3>1. Moves(p, "gate") BY <1>0, <1>1, <2>2 DEF Embed, Moves, Labels
    <3>2. cache[t] = "none" BY <1>t, <2>2 DEF PaidTypes, Cached
    <3>3. PaidTypes' /\ Others(t) /\ UNCHANGED <<cache, paid, wasted>>
      BY <1>1, <1>t DEF Embed, PaidTypes, Others
    <3>4. Account(t)'
      <4>1. pc[p] \notin AskingLabels \cup HoldingLabels
        BY <1>1 DEF Embed, AskingLabels, HoldingLabels
      <4>2. paid[t] \in Nat /\ wasted[t] \in Nat BY <1>t DEF PaidTypes
      <4>3. paid'[t] + 0 = wasted'[t] + paid[t] - wasted[t] + 0 BY <3>3, <4>2
      <4>4. "gate" \in AskingLabels /\ "gate" \notin HoldingLabels BY DEF AskingLabels, HoldingLabels
      <4> QED BY <1>0, <3>1, <3>2, <3>3, <4>1, <4>3, <4>4, MovesAccount
    <3> QED BY <1>0, <3>1, <3>3, <3>4, MovesPaid
  <2> QED BY <2>1, <2>2
<1>2. CASE \/ TakeLock(p) \/ Truncate(p) \/ Stamp(p)
  <2>1. \E l \in {"waiting", "stamping", "posting"} : Moves(p, l)
    BY <1>2 DEF TakeLock, Truncate, Stamp, Moves, Labels
  <2>2. pc[p] \in AskingLabels \ HoldingLabels /\ UNCHANGED <<cache, paid, wasted>>
    BY <1>2 DEF TakeLock, Truncate, Stamp, AskingLabels, HoldingLabels, cacheVars
  <2> QED BY <2>1, <2>2, ApartPaid DEF AskingLabels, HoldingLabels
<1>3. CASE Posted(p)
  <2>1. Moves(p, "caching") BY <1>3 DEF Posted, Moves, Labels
  <2>2. PaidTypes' /\ Others(t) /\ paid'[t] = paid[t] + 1 /\ wasted' = wasted /\ cache' = cache
    BY <1>0, <1>3, <1>t DEF Posted, PaidTypes, Others
  <2>3. Account(t)'
    <3>1. pc[p] \in AskingLabels \ HoldingLabels BY <1>3 DEF Posted, AskingLabels, HoldingLabels
    <3>2. paid[t] \in Nat /\ wasted[t] \in Nat /\ cache[t] \in {"none", "whole"}
      BY <1>t DEF PaidTypes
    <3>3. /\ paid'[t] + 0 = wasted'[t] + paid[t] - wasted[t] + 1
          /\ paid'[t] - paid[t] + 0 <= wasted'[t] - wasted[t] + 1
      BY <2>2, <3>2
    <3>4. "caching" \in HoldingLabels /\ "caching" \notin AskingLabels BY DEF AskingLabels, HoldingLabels
    <3> QED BY <1>0, <2>1, <2>2, <3>1, <3>2, <3>3, <3>4, MovesAccount
  <2> QED BY <1>0, <2>1, <2>2, <2>3, MovesPaid
<1>4. CASE PostFails(p)
  <2>1. PICK l \in {"gate", "failed"} : Moves(p, l) BY <1>4 DEF PostFails, Moves, Labels
  <2>2. PaidTypes' /\ Others(t) /\ cache' = cache
    BY <1>0, <1>4, <1>t DEF PostFails, PaidTypes, Others
  <2>3. Account(t)'
    <3>1. pc[p] \in AskingLabels \ HoldingLabels BY <1>4 DEF PostFails, AskingLabels, HoldingLabels
    <3>2. paid[t] \in Nat /\ wasted[t] \in Nat /\ cache[t] \in {"none", "whole"}
      BY <1>t DEF PaidTypes
    <3>3. \/ paid'[t] = paid[t] /\ wasted'[t] = wasted[t]
          \/ paid'[t] = paid[t] + 1 /\ wasted'[t] = wasted[t] + 1
      BY <1>0, <1>4, <1>t DEF PostFails, PaidTypes
    <3>4. /\ paid'[t] + 0 = wasted'[t] + paid[t] - wasted[t] + 0
          /\ \A asks \in {0, 1} : paid'[t] - paid[t] + asks <= wasted'[t] - wasted[t] + 1
      BY <3>2, <3>3
    <3>5. PICK asks \in {0, 1} : asks = 1 <=> l \in AskingLabels
      <4>1. CASE l \in AskingLabels BY <4>1
      <4>2. CASE l \notin AskingLabels BY <4>2
      <4> QED BY <4>1, <4>2
    <3>6. l \notin HoldingLabels BY <2>1 DEF HoldingLabels
    <3> QED BY <1>0, <2>1, <2>2, <3>1, <3>2, <3>4, <3>5, <3>6, MovesAccount
  <2> QED BY <1>0, <2>1, <2>2, <2>3, MovesPaid
<1>5. CASE WriteTmp(p)
  <2>1. Moves(p, "replacing") BY <1>5 DEF WriteTmp, Moves, Labels
  <2> QED BY <1>5, <2>1, ApartPaid DEF WriteTmp, AskingLabels, HoldingLabels
<1>6. CASE Replace(p)
  <2>1. Moves(p, "apply") BY <1>6 DEF Replace, Moves, Labels
  <2>2. PaidTypes' /\ Others(t) /\ cache'[t] = "whole" /\ paid' = paid /\ wasted' = wasted
    BY <1>0, <1>6, <1>t DEF Replace, PaidTypes, Others
  <2>3. Account(t)'
    <3>1. pc[p] \in HoldingLabels \ AskingLabels BY <1>6 DEF Replace, AskingLabels, HoldingLabels
    <3>2. paid[t] \in Nat /\ wasted[t] \in Nat /\ cache[t] \in {"none", "whole"}
      BY <1>t DEF PaidTypes
    <3>3. paid'[t] - paid[t] + 0 <= wasted'[t] - wasted[t] + 0 BY <2>2, <3>2
    <3>4. "apply" \notin HoldingLabels \cup AskingLabels BY DEF AskingLabels, HoldingLabels
    <3> QED BY <1>0, <2>1, <2>2, <3>1, <3>2, <3>3, <3>4, MovesAccount
  <2> QED BY <1>0, <2>1, <2>2, <2>3, MovesPaid
<1>7. CASE Stop(p)
  <2>1. Moves(p, "failed") BY <1>7 DEF Stop, Moves, Labels
  <2>2. PaidTypes' /\ Others(t) /\ cache' = cache /\ paid' = paid
    BY <1>0, <1>7, <1>t DEF Stop, PaidTypes, Others
  <2>3. Account(t)'
    <3>1. paid[t] \in Nat /\ wasted[t] \in Nat /\ cache[t] \in {"none", "whole"}
      BY <1>t DEF PaidTypes
    <3>2. "failed" \notin HoldingLabels \cup AskingLabels BY DEF AskingLabels, HoldingLabels
    <3>3. CASE pc[p] \in HoldingLabels
      <4>1. wasted'[t] = wasted[t] + 1 BY <1>0, <1>7, <1>t, <3>3 DEF Stop, HoldingLabels, PaidTypes
      <4>2. /\ paid'[t] + 1 = wasted'[t] + paid[t] - wasted[t] + 0
            /\ paid'[t] - paid[t] + 0 <= wasted'[t] - wasted[t] + 0
        BY <2>2, <3>1, <4>1
      <4>3. pc[p] \notin AskingLabels BY <3>3 DEF AskingLabels, HoldingLabels
      <4> QED BY <1>0, <2>1, <2>2, <3>1, <3>2, <3>3, <4>2, <4>3, MovesAccount
    <3>4. CASE pc[p] \notin HoldingLabels
      <4>1. wasted'[t] = wasted[t] BY <1>7, <3>4 DEF Stop, HoldingLabels
      <4>2. /\ paid'[t] + 0 = wasted'[t] + paid[t] - wasted[t] + 0
            /\ \A asked \in {0, 1} : paid'[t] - paid[t] + 0 <= wasted'[t] - wasted[t] + asked
        BY <2>2, <3>1, <4>1
      <4>3. PICK asked \in {0, 1} : asked = 1 <=> pc[p] \in AskingLabels
        <5>1. CASE pc[p] \in AskingLabels BY <5>1
        <5>2. CASE pc[p] \notin AskingLabels BY <5>2
        <5> QED BY <5>1, <5>2
      <4> QED BY <1>0, <2>1, <2>2, <3>1, <3>2, <3>4, <4>2, <4>3, MovesAccount
    <3> QED BY <3>3, <3>4
  <2> QED BY <1>0, <2>1, <2>2, <2>3, MovesPaid
<1>8. CASE AgentKnown(p) \/ AgentFound(p) \/ AgentNotFound(p) \/ CreateAgent(p) \/ Insert(p) \/ Search(p)
            \/ Start(p)
  <2>1. \E l \in {"embed", "create", "ensure", "done"} : Moves(p, l)
    BY <1>8, <1>t DEF AgentKnown, AgentFound, AgentNotFound, CreateAgent, Insert, Search, Start,
                      Moves, Labels, AskingLabels, HoldingLabels, AgentTypes
  <2>2. pc[p] \notin AskingLabels \cup HoldingLabels /\ UNCHANGED <<cache, paid, wasted>>
    BY <1>8 DEF AgentKnown, AgentFound, AgentNotFound, CreateAgent, Insert, Search, Start,
                AskingLabels, HoldingLabels, cacheVars
  <2> QED BY <2>1, <2>2, ApartPaid DEF AskingLabels, HoldingLabels
<1> QED BY <1>1, <1>2, <1>3, <1>4, <1>5, <1>6, <1>7, <1>8 DEF Step, Work

LEMMA NextPaid == Agents /\ Paid /\ [Next]_vars => Paid'
<1> SUFFICES ASSUME Agents, Paid, [Next]_vars PROVE Paid' OBVIOUS
<1>1. ASSUME UNCHANGED <<pc, item, cacheVars>> PROVE Paid'
  BY <1>1 DEF cacheVars, Paid, PaidTypes, Account, Asking, Holding, At, Text
<1>2. CASE Tick \/ UNCHANGED vars BY <1>1, <1>2 DEF Tick, vars
<1>3. ASSUME NEW p \in Shards, Step(p) PROVE Paid' BY <1>3, StepPaid
<1> QED BY <1>2, <1>3 DEF Next, Step

LEMMA PaidOnce == Paid => RequestsPaid
<1> SUFFICES ASSUME Paid, NEW text \in Texts PROVE paid[text] <= Cardinality(Shards) + wasted[text]
  BY DEF RequestsPaid
<1>1. Cardinality(Asking(text)) \in Nat /\ Cardinality(Holding(text)) \in Nat /\ Cardinality(Shards) \in Nat
      /\ Cardinality(Holding(text)) <= Cardinality(Shards)
  BY AtFinite DEF Asking, Holding
<1>2. paid[text] \in Nat /\ wasted[text] \in Nat /\ cache[text] \in {"none", "whole"}
  BY DEF Paid, PaidTypes
<1>3. Account(text) BY DEF Paid
<1> QED BY <1>1, <1>2, <1>3 DEF Account

(* Every shard pays for a text at most once, and again only for an answer it  *)
(* lost: what _embed_text cached is never lost, torn or asked for again,      *)
(* whichever shards are killed between the answer and os.replace.             *)
THEOREM SpecRequestsPaid == Spec => []RequestsPaid
<1>1. Init => Agents /\ Paid BY InitAgents, InitPaid
<1>2. Agents /\ Paid /\ [Next]_vars => (Agents /\ Paid)' BY NextAgents, NextPaid
<1> QED BY <1>1, <1>2, PaidOnce, PTL DEF Spec
=============================================================================
