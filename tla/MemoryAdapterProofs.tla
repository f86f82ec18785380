-------------------------- MODULE MemoryAdapterProofs --------------------------
(***************************************************************************)
(* Proofs about MemoryAdapter, for every provider profile and all bounds:  *)
(* what a search can find (CaseIsolation, FreshPass), that an answer never *)
(* misses some of the turns counted as written (NothingLost), that every   *)
(* copy of a turn is due to a failed call (CopiesExplained), the bounds of *)
(* the loops (TypeOK), and that nothing is missing unless a call failed    *)
(* (WholeCase).                                                            *)
(***************************************************************************)
EXTENDS MemoryAdapter, FiniteSetTheorems, TLAPS

Active == pc \notin {"ready", "failed"}

(* The name spaces a call made now can reach.                                *)
Reach == CASE me.space = "user"   -> {<<"user", case>>, <<"default", 0>>}
           [] me.space = "object" -> {<<"object", pass>>}
           [] me.space = "shared" -> {<<"shared", 0>>}

(* The one name space an isolating client searches.                          *)
Home == CASE me.space = "user"   -> <<"user", case>>
          [] me.space = "object" -> <<"object", pass>>
          [] me.space = "shared" -> <<"shared", 0>>

ControlOK ==
    /\ client \in Clients
    /\ case \in Nat /\ pass \in Nat
    /\ pc \in {"ready", "observing", "adding", "flushing", "searching", "failed"}
    /\ form \in 1 .. 6
    /\ pc \in {"flushing", "searching"} => form # 5
    /\ pc # "ready" => case > 0

(* Where an entry is says what it can be: a user's space holds turns of that *)
(* case, a workspace turns of the pass that built it.                        *)
InPlace ==
    /\ \A e \in store : e.turn.case \in Nat /\ e.turn.pass \in Nat /\ e.turn.pass <= pass
    /\ \A e \in store, c \in Nat : e.space = <<"user", c>> => e.turn.case = c
    /\ \A e \in store, n \in Nat : e.space = <<"object", n>> => e.turn.pass = n

(* A pass is over one case.                                                  *)
OneCase ==
    /\ \A t \in pending : t.case = case /\ t.pass = pass
    /\ Active \/ answer # {} => \A e \in store : e.turn.pass = pass => e.turn.case = case

(* What an emptied space, and storage that ends with its client object, hold.*)
Fresh ==
    /\ Active /\ me.reset = "wipe" =>
           \A e \in store : e.space \in {<<"user", case>>, <<"shared", 0>>} => e.turn.pass = pass
    /\ ~me.durable =>
           \A e \in store : e.turn.case <= case /\ (e.turn.case = case => e.turn.pass = pass)

Answered == CaseIsolation /\ FreshPass

Origin == ControlOK /\ InPlace /\ OneCase /\ Fresh /\ Answered

-----------------------------------------------------------------------------
LEMMA ProfileType == ASSUME client \in Clients PROVE me \in Profiles
BY AdapterAssumption DEF me

LEMMA CallsReach ==
    ASSUME client \in Clients, NEW scoped \in BOOLEAN, NEW withCase \in BOOLEAN
    PROVE  CallSpaces(scoped, withCase) \subseteq Reach
<1>1. me.space \in {"user", "object", "shared"} /\ me.unscoped \in {"refuse", "own", "last", "default"}
  BY ProfileType DEF Profiles
<1> QED BY <1>1 DEF CallSpaces, UserSpaces, Reach

LEMMA AddsReach ==
    ASSUME ControlOK PROVE AddSpaces \subseteq Reach
<1>1. (form <= 2) \in BOOLEAN /\ (form = 3) \in BOOLEAN BY DEF ControlOK
<1> QED BY <1>1, CallsReach DEF AddSpaces, ControlOK

(* The searches of an isolating client all go to the same space.             *)
LEMMA SearchesHome ==
    ASSUME ControlOK, Isolating(me), form # 5
    PROVE  SearchSpaces \subseteq {Home}
<1>1. me.space \in {"user", "object", "shared"} /\ me.unscoped \in {"refuse", "own", "last", "default"}
  BY ProfileType DEF Profiles, ControlOK
<1>2. form \in {1, 2, 3, 4, 6} BY DEF ControlOK
<1> QED BY <1>1, <1>2 DEF SearchSpaces, CallSpaces, UserSpaces, Home, Isolating

(* A step inside a pass: it stores and buffers only turns of the pass, where *)
(* a call can reach, and answers only with what a search found.              *)
Stores ==
    \A e \in store' : e \in store \/ (e.space \in Reach /\ e.turn \in pending \cup {Turn} /\ Active)

Within ==
    /\ UNCHANGED <<client, case, pass>>
    /\ pc' \in {"ready", "observing", "adding", "flushing", "searching", "failed"}
    /\ Active \/ pc' = pc
    /\ Stores
    /\ pending' \subseteq pending \cup {Turn}
    /\ \/ answer' \in {answer, {}}
       \/ pc = "searching" /\ \E s \in SearchSpaces : answer' = Found(s)

-----------------------------------------------------------------------------
LEMMA FoundTurns ==
    ASSUME NEW s, NEW t \in Found(s) PROVE \E e \in store : e.space = s /\ e.turn = t
BY DEF Found

(* What a search of an isolating client finds.                               *)
LEMMA SearchFinds ==
    ASSUME Origin, pc = "searching", NEW s \in SearchSpaces, NEW t \in Found(s)
    PROVE  /\ Isolating(me) => t.case = case
           /\ Isolating(me) /\ (me.reset # "keep" \/ ~me.durable) => t.pass = pass
<1> SUFFICES ASSUME Isolating(me)
             PROVE  t.case = case /\ (me.reset # "keep" \/ ~me.durable => t.pass = pass)
  OBVIOUS
<1>1. form # 5 BY DEF Origin, ControlOK
<1>2. s = Home BY <1>1, SearchesHome DEF Origin
<1>3. PICK e \in store : e.space = Home /\ e.turn = t BY <1>2, FoundTurns
<1>4. me \in Profiles /\ case \in Nat /\ pass \in Nat /\ Active
  BY ProfileType DEF Origin, ControlOK, Active
<1>5. CASE me.space = "user"
  <2>1. e.space = <<"user", case>> BY <1>3, <1>5 DEF Home
  <2>2. t.case = case BY <2>1, <1>3, <1>4 DEF Origin, InPlace
  <2>3. ASSUME me.reset = "wipe" PROVE t.pass = pass
    BY <2>1, <2>3, <1>3, <1>4 DEF Origin, Fresh
  <2>4. ASSUME ~me.durable PROVE t.pass = pass
    BY <2>2, <2>4, <1>3 DEF Origin, Fresh
  <2>5. me.reset \in {"keep", "wipe"} BY <1>4, <1>5 DEF Profiles
  <2> QED BY <2>2, <2>3, <2>4, <2>5
<1>6. CASE me.space = "object"
  <2>1. e.space = <<"object", pass>> BY <1>3, <1>6 DEF Home
  <2>2. t.pass = pass BY <2>1, <1>3, <1>4 DEF Origin, InPlace
  <2> QED BY <2>2, <1>3, <1>4 DEF Origin, OneCase
<1>7. CASE me.space = "shared"
  <2>1. e.space = <<"shared", 0>> /\ me.reset = "wipe"
    BY <1>3, <1>7 DEF Home, Isolating
  <2>2. t.pass = pass BY <2>1, <1>3, <1>4 DEF Origin, Fresh
  <2> QED BY <2>2, <1>3, <1>4 DEF Origin, OneCase
<1> QED BY <1>4, <1>5, <1>6, <1>7 DEF Profiles

(* What is stored within a pass is a turn of the pass.                       *)
LEMMA StoredWithin ==
    ASSUME Origin, Within, NEW e \in store'
    PROVE  e \in store \/ (Active /\ e.space \in Reach /\ e.turn.case = case /\ e.turn.pass = pass)
BY DEF Origin, OneCase, Within, Stores, Turn

LEMMA WithinKeepsInPlace == Origin /\ Within => InPlace'
<1> SUFFICES ASSUME Origin, Within PROVE InPlace' OBVIOUS
<1>1. case \in Nat /\ pass \in Nat /\ me.space \in {"user", "object", "shared"}
  BY ProfileType DEF Origin, ControlOK, Profiles
<1>2. pass' = pass BY DEF Within
<1>3. ASSUME NEW e \in store'
      PROVE  e.turn.case \in Nat /\ e.turn.pass \in Nat /\ e.turn.pass <= pass
  BY <1>1, <1>3, StoredWithin DEF Origin, InPlace
<1>4. ASSUME NEW e \in store', NEW c \in Nat, e.space = <<"user", c>> PROVE e.turn.case = c
  <2>1. CASE e \in store BY <2>1, <1>4 DEF Origin, InPlace
  <2>2. CASE e.space \in Reach /\ e.turn.case = case BY <2>2, <1>1, <1>4 DEF Reach
  <2> QED BY <2>1, <2>2, StoredWithin
<1>5. ASSUME NEW e \in store', NEW n \in Nat, e.space = <<"object", n>> PROVE e.turn.pass = n
  <2>1. CASE e \in store BY <2>1, <1>5 DEF Origin, InPlace
  <2>2. CASE e.space \in Reach /\ e.turn.pass = pass BY <2>2, <1>1, <1>5 DEF Reach
  <2> QED BY <2>1, <2>2, StoredWithin
<1> QED BY <1>2, <1>3, <1>4, <1>5 DEF InPlace

LEMMA WithinKeepsOneCase == Origin /\ Within => OneCase'
<1> SUFFICES ASSUME Origin, Within PROVE OneCase' OBVIOUS
<1>1. case' = case /\ pass' = pass BY DEF Within
<1>2. \A t \in pending' : t.case = case /\ t.pass = pass
  BY DEF Origin, OneCase, Within, Turn
<1>3. (Active \/ answer # {})' => Active \/ answer # {}
  BY DEF Within, Active
<1>4. ASSUME Active \/ answer # {}, NEW e \in store', e.turn.pass = pass PROVE e.turn.case = case
  BY <1>4, StoredWithin DEF Origin, OneCase
<1> QED BY <1>1, <1>2, <1>3, <1>4 DEF OneCase

LEMMA WithinKeepsFresh == Origin /\ Within => Fresh'
<1> SUFFICES ASSUME Origin, Within PROVE Fresh' OBVIOUS
<1>1. case' = case /\ pass' = pass /\ me' = me BY DEF Within, me
<1>2. Active' => Active BY DEF Within, Active
<1>3. ASSUME Active, me.reset = "wipe", NEW e \in store',
             e.space \in {<<"user", case>>, <<"shared", 0>>}
      PROVE  e.turn.pass = pass
  BY <1>3, StoredWithin DEF Origin, Fresh
<1>4. ASSUME ~me.durable, NEW e \in store'
      PROVE  e.turn.case <= case /\ (e.turn.case = case => e.turn.pass = pass)
  BY <1>4, StoredWithin DEF Origin, Fresh, ControlOK
<1> QED BY <1>1, <1>2, <1>3, <1>4 DEF Fresh

LEMMA WithinKeepsAnswered == Origin /\ Within => Answered'
<1> SUFFICES ASSUME Origin, Within PROVE Answered' OBVIOUS
<1>1. case' = case /\ pass' = pass /\ me' = me BY DEF Within, me
<1>2. CASE answer' \in {answer, {}}
  BY <1>1, <1>2 DEF Origin, Answered, CaseIsolation, FreshPass, Isolating
<1>3. CASE pc = "searching" /\ \E s \in SearchSpaces : answer' = Found(s)
  <2>1. ASSUME NEW t \in answer'
        PROVE  /\ Isolating(me) => t.case = case
               /\ Isolating(me) /\ (me.reset # "keep" \/ ~me.durable) => t.pass = pass
    BY <1>3, SearchFinds
  <2>2. Isolating(me)' = Isolating(me) BY <1>1 DEF Isolating
  <2> QED BY <1>1, <2>1, <2>2 DEF Answered, CaseIsolation, FreshPass
<1> QED BY <1>2, <1>3 DEF Within

-----------------------------------------------------------------------------
(* The steps of the agent, of the storage and of the service inside a pass.  *)

LEMMA PutStores ==
    ASSUME Active, NEW new, \A e \in new : e.space \in Reach /\ e.turn \in pending \cup {Turn},
           Put(new) \/ PutOrNot(new)
    PROVE  Stores
<1>1. store' \subseteq store \cup new BY DEF Put, PutOrNot, PutUnseen, heldVars
<1> QED BY <1>1 DEF Stores

LEMMA AddPuts ==
    ASSUME ControlOK, pc = "adding", NEW s \in AddSpaces, Put(NewEntries({s})) \/ PutOrNot(NewEntries({s}))
    PROVE  Stores
<1>1. \A e \in NewEntries({s}) : e.space \in Reach /\ e.turn \in pending \cup {Turn}
  BY AddsReach DEF NewEntries
<1>2. Active BY DEF Active
<1> QED BY <1>1, <1>2, PutStores

LEMMA FlushPuts ==
    ASSUME ControlOK, pc = "flushing", Put(FlushEntries) \/ PutOrNot(FlushEntries)
    PROVE  Stores
<1>1. CallSpaces(TRUE, TRUE) \subseteq Reach BY CallsReach DEF ControlOK
<1>2. \A e \in FlushEntries : e.space \in Reach /\ e.turn \in pending \cup {Turn}
  BY <1>1 DEF FlushEntries
<1>3. Active BY DEF Active
<1> QED BY <1>2, <1>3, PutStores

LEMMA AddStepWithin == Origin /\ AddStep => Within /\ ControlOK'
<1> SUFFICES ASSUME Origin, AddStep PROVE Within /\ ControlOK' OBVIOUS
<1>0. ControlOK BY DEF Origin
<1>1. ASSUME BufferTurn PROVE Within /\ ControlOK'
  BY <1>0, <1>1 DEF BufferTurn, Written, FirstCall, heldVars, Within, Stores, Active, ControlOK
<1>2. ASSUME StartAdd PROVE Within /\ ControlOK'
  BY <1>0, <1>2 DEF StartAdd, FirstCall, storeVars, heldVars, Within, Stores, Active, ControlOK
<1>3. ASSUME AddReturns PROVE Within /\ ControlOK'
  <2>1. Stores BY <1>0, <1>3, AddPuts DEF AddReturns
  <2> QED BY <1>0, <1>3, <2>1 DEF AddReturns, Written, FirstCall, Within, Active, ControlOK
<1>4. ASSUME AddRefused PROVE Within /\ ControlOK'
  BY <1>0, <1>4 DEF AddRefused, FirstCall, storeVars, heldVars, Within, Stores, Active, ControlOK
<1>5. ASSUME NEW e \in Failures, AddFaults(e),
             (Written \/ SameForm) \/ (form < 5 /\ OtherForm(form + 1)) \/ FirstCall,
             pc' \in {pc, "observing", "failed"}
      PROVE  Within /\ ControlOK'
  <2>1. Stores BY <1>0, <1>5, AddPuts DEF AddFaults
  <2> QED BY <1>0, <1>5, <2>1
          DEF AddFaults, Written, SameForm, OtherForm, FirstCall, Within, Active, ControlOK
<1>6. ASSUME NEW e \in Failures,
             AddSwallowed(e) \/ AddRetried(e) \/ AddInNextForm(e) \/ AddGivenUp(e) \/ AddRaises(e)
      PROVE  Within /\ ControlOK'
  BY <1>5, <1>6 DEF AddSwallowed, AddRetried, AddInNextForm, AddGivenUp, AddRaises, Written
<1> QED BY <1>1, <1>2, <1>3, <1>4, <1>6 DEF AddStep

(* A query ends: answered, recorded as failed, or with the attempt.          *)
LEMMA QueryEnds ==
    ASSUME Origin, pc \in {"flushing", "searching"}, Stores, pending' \subseteq pending,
           \/ pc = "searching" /\ \E s \in SearchSpaces : QueryDone(Found(s))
           \/ QueryDone({}) \/ QueryRaises
    PROVE  Within /\ ControlOK'
<1>0. ControlOK /\ Active BY DEF Origin, Active
<1>1. CASE \E found : QueryDone(found)
  <2>1. UNCHANGED <<client, case, pass>> /\ pc' \in {"ready", "observing"} /\ form' = 1
    BY <1>1 DEF QueryDone, FirstCall
  <2>2. answer' = {} \/ (pc = "searching" /\ \E s \in SearchSpaces : answer' = Found(s))
        \/ (UNCHANGED answer)
    BY DEF QueryDone, QueryRaises
  <2> QED BY <1>0, <2>1, <2>2 DEF Within, ControlOK
<1>2. CASE QueryRaises BY <1>0, <1>2 DEF QueryRaises, QueryDone, FirstCall, Within, ControlOK
<1> QED BY <1>1, <1>2

LEMMA SearchStepWithin == Origin /\ SearchStep => Within /\ ControlOK'
<1> SUFFICES ASSUME Origin, SearchStep PROVE Within /\ ControlOK' OBVIOUS
<1>0. ControlOK BY DEF Origin
<1>1. ASSUME StartSearch PROVE Within /\ ControlOK'
  BY <1>0, <1>1 DEF StartSearch, FirstCall, Within, Stores, Active, ControlOK
<1>2. ASSUME FlushReturns PROVE Within /\ ControlOK'
  <2>1. Stores BY <1>0, <1>2, FlushPuts DEF FlushReturns
  <2> QED BY <1>0, <1>2, <2>1 DEF FlushReturns, callVars, Within, Active, ControlOK
<1>3. ASSUME NEW e \in Failures, FlushLost(e) PROVE Within /\ ControlOK'
  <2>1. Stores BY <1>0, <1>3, FlushPuts DEF FlushLost
  <2> QED BY <1>0, <1>3, <2>1 DEF FlushLost, callVars, Within, Active, ControlOK
<1>4. ASSUME NEW e \in Failures, FlushRaises(e) PROVE Within /\ ControlOK'
  <2>1. Stores BY <1>0, <1>4, FlushPuts DEF FlushRaises
  <2> QED BY <1>4, <2>1, QueryEnds DEF FlushRaises
<1>5. ASSUME UNCHANGED storeVars, pc = "searching",
             \/ \E s \in SearchSpaces : QueryDone(Found(s))
             \/ QueryDone({}) \/ QueryRaises
      PROVE  Within /\ ControlOK'
  <2>1. Stores /\ pending' = pending BY <1>5 DEF Stores, storeVars, heldVars
  <2> QED BY <1>5, <2>1, QueryEnds
<1>6. ASSUME SearchReturns \/ SearchRefused PROVE Within /\ ControlOK'
  <2>1. UNCHANGED storeVars BY <1>6 DEF SearchReturns, SearchRefused, storeVars
  <2> QED BY <1>5, <1>6, <2>1 DEF SearchReturns, SearchRefused
<1>7. ASSUME NEW e \in Failures, SearchSwallowed(e) \/ SearchGivenUp(e) \/ SearchRaises(e)
      PROVE  Within /\ ControlOK'
  BY <1>5, <1>7 DEF SearchSwallowed, SearchGivenUp, SearchRaises, SearchFaults
<1>8. ASSUME NEW e \in Failures, SearchRetried(e) \/ SearchInNextForm(e) PROVE Within /\ ControlOK'
  <2>1. UNCHANGED <<agentVars, storeVars, answer>> /\ pc = "searching"
    BY <1>8 DEF SearchRetried, SearchInNextForm, SearchFaults
  <2>2. form' \in 1 .. 6 \ {5}
    BY <1>0, <1>8, <2>1 DEF SearchRetried, SearchInNextForm, SameForm, OtherForm, ControlOK
  <2> QED BY <1>0, <2>1, <2>2 DEF agentVars, storeVars, heldVars, Within, Stores, Active, ControlOK
<1> QED BY <1>1, <1>2, <1>3, <1>4, <1>6, <1>7, <1>8 DEF SearchStep

LEMMA IngestWithin == Origin /\ Ingest => Within /\ ControlOK'
BY DEF Ingest, agentVars, callVars, Origin, Within, Stores, ControlOK

LEMMA StutterWithin == Origin /\ UNCHANGED vars => Within /\ ControlOK'
BY DEF vars, agentVars, callVars, storeVars, heldVars, Origin, Within, Stores, ControlOK

LEMMA WithinKeepsOrigin == Origin /\ Within /\ ControlOK' => Origin'
BY WithinKeepsInPlace, WithinKeepsOneCase, WithinKeepsFresh, WithinKeepsAnswered DEF Origin
-----------------------------------------------------------------------------
(* A reset opens a pass that no entry belongs to yet, and empties what the   *)
(* provider empties.                                                         *)
LEMMA ResetKeepsOrigin ==
    ASSUME Origin, ResetCase \/ \E e \in Failures : ResetRaises(e)
    PROVE  Origin'
<1>0. ControlOK /\ me \in Profiles /\ me' = me
  BY ProfileType DEF Origin, ControlOK, ResetCase, ResetRaises, StartCase, me
<1>1. case' = case + 1 /\ pass' = pass + 1 /\ pending' = {} /\ answer' = {} /\ pc = "ready"
  BY DEF ResetCase, ResetRaises, StartCase
<1>2. store' = Kept(store, case') \/ (UNCHANGED store /\ ~Active')
  BY <1>1 DEF ResetCase, ResetRaises, heldVars, Active
<1>3. store' \subseteq store BY <1>2 DEF Kept
<1>4. ControlOK'
  BY <1>0, <1>1 DEF ControlOK, ResetCase, ResetRaises, StartCase, callVars
<1>5. \A e \in store' : e.turn.pass \in Nat /\ e.turn.pass <= pass
  BY <1>3 DEF Origin, InPlace
<1>6. InPlace'
  <2>1. \A e \in store' : e.turn.case \in Nat /\ e.turn.pass \in Nat /\ e.turn.pass <= pass'
    BY <1>0, <1>1, <1>3, <1>5 DEF Origin, InPlace, ControlOK
  <2> QED BY <1>3, <2>1 DEF Origin, InPlace
<1>7. \A e \in store' : e.turn.pass # pass' BY <1>0, <1>1, <1>5 DEF ControlOK
<1>8. OneCase' BY <1>1, <1>7 DEF OneCase
<1>9. Fresh'
  <2>1. ASSUME Active', me.reset = "wipe", NEW e \in store'
        PROVE  e.space \notin {<<"user", case'>>, <<"shared", 0>>}
    BY <1>2, <2>1 DEF Kept
  <2>2. ASSUME ~me.durable, NEW e \in store' PROVE e.turn.case < case'
    BY <1>0, <1>1, <1>3, <2>2 DEF Origin, Fresh, InPlace, ControlOK
  <2>3. ASSUME ~me.durable, NEW e \in store'
        PROVE  e.turn.case <= case' /\ (e.turn.case = case' => e.turn.pass = pass')
    <3>1. e.turn.case \in Nat /\ case' \in Nat BY <1>0, <1>1, <1>3 DEF Origin, InPlace, ControlOK
    <3> QED BY <2>2, <2>3, <3>1
  <2> QED BY <1>0, <2>1, <2>3 DEF Fresh
<1>10. Answered' BY <1>1 DEF Answered, CaseIsolation, FreshPass
<1> QED BY <1>4, <1>6, <1>8, <1>9, <1>10 DEF Origin

(* A new client object keeps only what is durable, also when the process was *)
(* killed while an add was under way.                                        *)
LEMMA NewClientKeepsOrigin ==
    ASSUME Origin, Restart \/ KilledInAdd
    PROVE  Origin'
<1>0. ControlOK /\ me \in Profiles /\ me' = me /\ NewClient
  BY ProfileType DEF Origin, ControlOK, Restart, KilledInAdd, NewClient, me
<1>1. pass' = pass /\ pc' = "ready" /\ pending' = {} /\ answer' = {} BY <1>0 DEF NewClient
<1>2. ControlOK'
  <2>1. case' \in {0, case, case - 1} BY <1>0 DEF NewClient, CasesDone
  <2>2. case' \in Nat
    BY <1>0, <2>1 DEF NewClient, CasesDone, Origin, ControlOK
  <2> QED BY <1>0, <1>1, <2>2 DEF ControlOK, NewClient, FirstCall
<1>3. (me.durable /\ Stores) \/ store' = {} \/ (me.durable /\ store' = store)
  <2>1. CASE Restart BY <2>1 DEF Restart, heldVars
  <2>2. CASE KilledInAdd
    <3>1. PICK s \in AddSpaces : PutUnseen(NewEntries({s})) BY <2>2 DEF KilledInAdd
    <3>2. pc = "adding" /\ Put(NewEntries({s})) /\ me.durable BY <2>2, <3>1 DEF KilledInAdd, PutUnseen
    <3> QED BY <1>0, <3>2, AddPuts
  <2> QED BY <2>1, <2>2
<1>4. \A e \in store' : e \in store \/ (Active /\ e.space \in Reach /\ e.turn.case = case /\ e.turn.pass = pass)
  BY <1>3 DEF Stores, Origin, OneCase, Turn
<1>5. InPlace'
  <2>1. case \in Nat /\ pass \in Nat /\ me.space \in {"user", "object", "shared"}
    BY <1>0 DEF ControlOK, Profiles
  <2>2. ASSUME NEW e \in store'
        PROVE  e.turn.case \in Nat /\ e.turn.pass \in Nat /\ e.turn.pass <= pass
    BY <1>4, <2>1, <2>2 DEF Origin, InPlace
  <2>3. ASSUME NEW e \in store', NEW c \in Nat, e.space = <<"user", c>> PROVE e.turn.case = c
    <3>1. CASE e \in store BY <2>3, <3>1 DEF Origin, InPlace
    <3>2. CASE e.space \in Reach /\ e.turn.case = case BY <2>1, <2>3, <3>2 DEF Reach
    <3> QED BY <1>4, <3>1, <3>2
  <2>4. ASSUME NEW e \in store', NEW n \in Nat, e.space = <<"object", n>> PROVE e.turn.pass = n
    <3>1. CASE e \in store BY <2>4, <3>1 DEF Origin, InPlace
    <3>2. CASE e.space \in Reach /\ e.turn.pass = pass BY <2>1, <2>4, <3>2 DEF Reach
    <3> QED BY <1>4, <3>1, <3>2
  <2> QED BY <1>1, <2>2, <2>3, <2>4 DEF InPlace
<1>6. OneCase' BY <1>1 DEF OneCase, Active
<1>7. Fresh' BY <1>0, <1>1, <1>3 DEF Fresh, Active
<1>8. Answered' BY <1>1 DEF Answered, CaseIsolation, FreshPass
<1> QED BY <1>2, <1>5, <1>6, <1>7, <1>8 DEF Origin

LEMMA InitOrigin == Init => Origin
BY DEF Init, Origin, ControlOK, InPlace, OneCase, Fresh, Answered, CaseIsolation, FreshPass, Active

LEMMA NextOrigin == Origin /\ [Next]_vars => Origin'
<1> SUFFICES ASSUME Origin, [Next]_vars PROVE Origin' OBVIOUS
<1>1. CASE ResetCase \/ \E e \in Failures : ResetRaises(e) BY <1>1, ResetKeepsOrigin
<1>2. CASE AddStep BY <1>2, AddStepWithin, WithinKeepsOrigin
<1>3. CASE SearchStep BY <1>3, SearchStepWithin, WithinKeepsOrigin
<1>4. CASE Restart \/ KilledInAdd BY <1>4, NewClientKeepsOrigin
<1>5. CASE Ingest BY <1>5, IngestWithin, WithinKeepsOrigin
<1>6. CASE UNCHANGED vars BY <1>6, StutterWithin, WithinKeepsOrigin
<1> QED BY <1>1, <1>2, <1>3, <1>4, <1>5, <1>6 DEF Next, AgentStep

LEMMA SpecOrigin == Spec => []Origin
BY InitOrigin, NextOrigin, PTL DEF Spec

(* An isolating client never finds a turn of another case, for any profile   *)
(* and whatever call fails, is retried, changes its form or is killed.       *)
THEOREM SpecCaseIsolation == Spec => []CaseIsolation
<1>1. Origin => CaseIsolation BY DEF Origin, Answered
<1> QED BY <1>1, SpecOrigin, PTL

(* If it also starts each pass or each process from empty storage, it finds  *)
(* only the turns of this pass over the case.                                *)
THEOREM SpecFreshPass == Spec => []FreshPass
<1>1. Origin => FreshPass BY DEF Origin, Answered
<1> QED BY <1>1, SpecOrigin, PTL
-----------------------------------------------------------------------------
(* NothingLost: a turn counted as written is buffered or in the one space    *)
(* that is searched, until the search, which begins with an empty buffer and *)
(* waits for what the service has not ingested.                              *)

Progress ==
    /\ turn \in Nat
    /\ pc = "adding" => turn <= NumTurns
    /\ answer # {} \/ pc \in {"flushing", "searching"} => turn > NumTurns
    /\ pc = "searching" => pending = {}
    /\ me.buffer = "none" => pending = {} /\ pc # "flushing"
    /\ ~me.settles => unsettled = {}
    /\ pc = "searching" /\ acked # {} => unsettled = {}

Stored(t) == \E e \in store : e.space = Home /\ e.turn = t

Held == Lossless(me) /\ Active => \A t \in acked : t \in pending \/ Stored(t)

Ledger == Progress /\ Held /\ NothingLost

LEMMA LosslessHome ==
    ASSUME client \in Clients, Lossless(me), NEW scoped \in BOOLEAN, NEW withCase \in BOOLEAN
    PROVE  CallSpaces(scoped, withCase) \subseteq {Home}
<1>1. me.space \in {"user", "object", "shared"} /\ me.unscoped \in {"refuse", "own", "last", "default"}
  BY ProfileType DEF Profiles
<1> QED BY <1>1 DEF CallSpaces, UserSpaces, Home, Lossless

LEMMA LosslessAdds ==
    ASSUME ControlOK, Lossless(me) PROVE AddSpaces \subseteq {Home} /\ SearchSpaces \subseteq {Home}
<1>1. (form <= 2) \in BOOLEAN /\ (form = 3) \in BOOLEAN /\ (form <= 4) \in BOOLEAN BY DEF ControlOK
<1> QED BY <1>1, LosslessHome DEF AddSpaces, SearchSpaces, ControlOK

LEMMA FlushHome ==
    ASSUME client \in Clients, Lossless(me) PROVE Home \in CallSpaces(TRUE, TRUE)
<1>1. me.space \in {"user", "object", "shared"} BY ProfileType DEF Profiles
<1> QED BY <1>1 DEF CallSpaces, UserSpaces, Home

(* A step that neither answers nor takes back anything, but may count a turn *)
(* it buffered or stored as written.                                         *)
Counts(t) == t \in pending' \/ Stored(t)'

LEMMA HeldStays ==
    ASSUME Ledger, UNCHANGED <<client, case, pass>>, Active,
           store \subseteq store',
           Lossless(me) => \A t \in pending : Counts(t),
           Lossless(me) => \A t \in acked' : t \in acked \/ Counts(t)
    PROVE  Held'
<1>1. me' = me /\ Lossless(me)' = Lossless(me) BY DEF me, Lossless
<1>2. Home' = Home BY <1>1 DEF Home
<1>3. \A t : Stored(t) => Stored(t)' BY <1>2 DEF Stored
<1> QED BY <1>1, <1>3 DEF Ledger, Held, Counts
LEMMA PutAdds ==
    ASSUME NEW new, Put(new) \/ PutOrNot(new)
    PROVE  store \subseteq store' /\ (~me.settles => unsettled' = unsettled)
BY DEF Put, PutOrNot, PutUnseen, heldVars

LEMMA AddStepLedger ==
    ASSUME Origin, Ledger, AddStep
    PROVE  Ledger'
<1>0. ControlOK /\ Progress /\ Held /\ NumTurns \in Nat
  BY AdapterAssumption DEF Origin, Ledger
<1>1. UNCHANGED <<client, case, pass>> /\ me' = me /\ Lossless(me)' = Lossless(me) /\ Home' = Home
  <2>1. UNCHANGED <<client, case, pass>> BY AddStepWithin DEF Within
  <2> QED BY <2>1 DEF me, Lossless, Home
<1>2. Active /\ turn <= NumTurns /\ answer = {} /\ answer' = {} /\ pc' \in {"observing", "adding", "failed"}
  <2>1. pc = "adding" \/ (pc = "observing" /\ turn <= NumTurns)
    BY DEF AddStep, BufferTurn, StartAdd, AddReturns, AddRefused, AddSwallowed, AddRetried,
           AddInNextForm, AddGivenUp, AddRaises, AddFaults
  <2>2. answer' = answer
    BY DEF AddStep, BufferTurn, StartAdd, AddReturns, AddRefused, AddSwallowed, AddRetried,
           AddInNextForm, AddGivenUp, AddRaises, AddFaults
  <2>3. pc' \in {"observing", "adding", "failed"}
    BY <2>1 DEF AddStep, BufferTurn, StartAdd, AddReturns, AddRefused, AddSwallowed, AddRetried,
           AddInNextForm, AddGivenUp, AddRaises, AddFaults, Written
  <2> QED BY <1>0, <2>1, <2>2, <2>3 DEF Progress, Active
<1>3. NothingLost' BY <1>2 DEF NothingLost
<1>4. (turn' = turn \/ (turn' = turn + 1 /\ pc' # "adding")) /\ (pc' = "adding" => turn' = turn)
  BY DEF AddStep, BufferTurn, StartAdd, AddReturns, AddRefused, AddSwallowed, AddRetried,
         AddInNextForm, AddGivenUp, AddRaises, AddFaults, Written
<1>5. CASE BufferTurn
  <2>1. UNCHANGED heldVars /\ pending' = pending \cup {Turn} /\ acked' = acked \cup {Turn}
        /\ me.buffer # "none"
    BY <1>5 DEF BufferTurn, Written
  <2>2. Progress' BY <1>0, <1>1, <1>2, <1>4, <2>1 DEF Progress, heldVars
  <2>3. Held' BY <1>1, <1>2, <2>1, HeldStays DEF Counts, heldVars
  <2> QED BY <1>3, <2>2, <2>3 DEF Ledger
<1>6. ASSUME StartAdd \/ AddRefused PROVE Ledger'
  <2>1. UNCHANGED <<storeVars, acked>> BY <1>6 DEF StartAdd, AddRefused, storeVars
  <2>2. Progress' BY <1>0, <1>1, <1>2, <1>4, <2>1 DEF Progress, storeVars, heldVars
  <2>3. Held' BY <1>1, <1>2, <2>1, HeldStays DEF Counts, storeVars, heldVars
  <2> QED BY <1>3, <2>2, <2>3 DEF Ledger
<1>7. ASSUME UNCHANGED pending,
             \E s \in AddSpaces :
                 \/ Put(NewEntries({s})) /\ acked' = acked \cup {Turn}
                 \/ PutOrNot(NewEntries({s})) /\ (acked' = acked \/ "add" \in me.mute)
      PROVE  Ledger'
  <2>1. PICK s \in AddSpaces :
            \/ Put(NewEntries({s})) /\ acked' = acked \cup {Turn}
            \/ PutOrNot(NewEntries({s})) /\ (acked' = acked \/ "add" \in me.mute)
    BY <1>7
  <2>2. store \subseteq store' /\ (~me.settles => unsettled' = unsettled) BY <2>1, PutAdds
  <2>3. Progress' BY <1>0, <1>1, <1>2, <1>4, <1>7, <2>2 DEF Progress
  <2>4. ASSUME Lossless(me), Put(NewEntries({s})), NEW t, t = Turn PROVE Stored(t)'
    <3>1. s = Home BY <1>0, <2>4, LosslessAdds
    <3>2. [space |-> Home, turn |-> t] \in store' BY <2>4, <3>1 DEF Put, NewEntries
    <3> QED BY <1>1, <3>2 DEF Stored
  <2>5. Held'
    <3>1. Lossless(me) => \A t \in acked' : t \in acked \/ Counts(t)
      BY <2>1, <2>4 DEF Lossless, Counts
    <3>2. \A t \in pending : Counts(t) BY <1>7 DEF Counts
    <3> QED BY <1>1, <1>2, <2>2, <3>1, <3>2, HeldStays
  <2> QED BY <1>3, <2>3, <2>5 DEF Ledger
<1>8. ASSUME AddReturns PROVE Ledger' BY <1>7, <1>8 DEF AddReturns, Written
<1>9. ASSUME NEW e \in Failures,
             AddSwallowed(e) \/ AddRetried(e) \/ AddInNextForm(e) \/ AddGivenUp(e) \/ AddRaises(e)
      PROVE  Ledger'
  BY <1>7, <1>9 DEF AddFaults, AddSwallowed, AddRetried, AddInNextForm, AddGivenUp, AddRaises
<1> QED BY <1>5, <1>6, <1>8, <1>9 DEF AddStep

(* A query ends with nothing found, or with everything counted as written.   *)
LEMMA QueryLedger ==
    ASSUME Origin, Ledger, pc \in {"flushing", "searching"}, UNCHANGED <<turn, pending>>,
           store \subseteq store', ~me.settles => unsettled' = unsettled,
           \/ pc = "searching" /\ \E s \in SearchSpaces : QueryDone(Found(s))
           \/ QueryDone({}) \/ QueryRaises
    PROVE  Ledger'
<1>0. ControlOK /\ Progress /\ Held BY DEF Origin, Ledger
<1>1. UNCHANGED <<client, case, pass, acked>> /\ me' = me /\ Lossless(me)' = Lossless(me)
  BY DEF QueryDone, QueryRaises, me, Lossless
<1>2. pc' \in {"ready", "observing", "failed"} BY DEF QueryDone, QueryRaises
<1>3. Progress' BY <1>0, <1>1, <1>2 DEF Progress
<1>4. Held'
  <2>1. Active BY DEF Active
  <2> QED BY <1>1, <2>1, HeldStays DEF Counts
<1>5. NothingLost'
  <2> SUFFICES ASSUME Lossless(me) PROVE answer' = {} \/ acked \subseteq answer'
    BY <1>1 DEF NothingLost
  <2>1. CASE pc = "searching" /\ \E s \in SearchSpaces : QueryDone(Found(s))
    <3>1. PICK s \in SearchSpaces : answer' = Found(s) BY <2>1 DEF QueryDone
    <3>2. s = Home BY <1>0, LosslessAdds
    <3>3. Active BY <2>1 DEF Active
    <3>4. ASSUME NEW t \in acked PROVE t \in Found(Home)
      <4>1. pending = {} /\ unsettled = {} BY <1>0, <2>1, <3>4 DEF Progress
      <4>2. PICK e \in store : e.space = Home /\ e.turn = t BY <1>0, <3>3, <4>1 DEF Held, Stored
      <4> QED BY <4>1, <4>2 DEF Found
    <3> QED BY <3>1, <3>2, <3>4
  <2>2. CASE QueryDone({}) \/ (UNCHANGED answer)
    BY <1>1, <2>2 DEF QueryDone, Ledger, NothingLost
  <2> QED BY <2>1, <2>2 DEF QueryRaises
<1> QED BY <1>3, <1>4, <1>5 DEF Ledger
LEMMA SearchStepLedger ==
    ASSUME Origin, Ledger, SearchStep
    PROVE  Ledger'
<1>0. ControlOK /\ Progress /\ Held /\ NothingLost BY DEF Origin, Ledger
<1>1. CASE StartSearch
  <2>1. UNCHANGED <<client, case, pass, turn, pending, store, acked, answer>> /\ me' = me /\ Active
        /\ Lossless(me)' = Lossless(me)
    BY <1>1 DEF StartSearch, Active, me, Lossless
  <2>2. pc' = (IF pending = {} THEN "searching" ELSE "flushing") /\ turn > NumTurns
    BY <1>1 DEF StartSearch
  <2>3. unsettled' = (IF me.settles /\ acked # {} THEN {} ELSE unsettled) BY <1>1 DEF StartSearch
  <2>4. Progress' BY <1>0, <2>1, <2>2, <2>3 DEF Progress
  <2>5. Held' BY <2>1, HeldStays DEF Counts
  <2>6. NothingLost' BY <1>0, <2>1 DEF NothingLost
  <2> QED BY <2>4, <2>5, <2>6 DEF Ledger
<1>2. ASSUME pc = "flushing", pc' = "searching", pending' = {},
             UNCHANGED <<client, case, pass, turn, acked, answer>>,
             store \subseteq store', ~me.settles => unsettled' = unsettled,
             Lossless(me) => \A t \in pending : Stored(t)'
      PROVE  Ledger'
  <2>1. me' = me /\ Active /\ Lossless(me)' = Lossless(me) BY <1>2 DEF Active, me, Lossless
  <2>2. ~me.settles
    <3>1. me.buffer # "none" BY <1>0, <1>2 DEF Progress
    <3> QED BY <1>0, <3>1, ProfileType DEF ControlOK, Profiles
  <2>3. Progress' BY <1>0, <1>2, <2>1, <2>2 DEF Progress
  <2>4. Held' BY <1>2, <2>1, HeldStays DEF Counts
  <2>5. NothingLost' BY <1>0, <1>2, <2>1 DEF NothingLost
  <2> QED BY <2>3, <2>4, <2>5 DEF Ledger
<1>3. CASE FlushReturns
  <2>1. Put(FlushEntries) /\ pc = "flushing" /\ pc' = "searching" /\ pending' = {}
        /\ UNCHANGED <<client, case, pass, turn, acked, answer>>
    BY <1>3 DEF FlushReturns
  <2>2. Home' = Home BY <2>1 DEF Home, me
  <2>3. ASSUME Lossless(me), NEW t \in pending PROVE Stored(t)'
    <3>1. [space |-> Home, turn |-> t] \in FlushEntries
      BY <1>0, <2>3, FlushHome DEF FlushEntries, ControlOK
    <3> QED BY <2>1, <2>2, <3>1 DEF Put, Stored
  <2>4. store \subseteq store' /\ (~me.settles => unsettled' = unsettled) BY <2>1, PutAdds
  <2> QED BY <1>2, <2>1, <2>3, <2>4
<1>4. ASSUME NEW e \in Failures, FlushLost(e) PROVE Ledger'
  <2>1. PutOrNot(FlushEntries) /\ pc = "flushing" /\ pc' = "searching" /\ pending' = {}
        /\ UNCHANGED <<client, case, pass, turn, acked, answer>> /\ me.buffer = "drop"
    BY <1>4 DEF FlushLost
  <2>2. ~Lossless(me) BY <2>1 DEF Lossless
  <2>3. store \subseteq store' /\ (~me.settles => unsettled' = unsettled) BY <2>1, PutAdds
  <2> QED BY <1>2, <2>1, <2>2, <2>3
<1>5. ASSUME NEW e \in Failures, FlushRaises(e) PROVE Ledger'
  <2>1. PutOrNot(FlushEntries) /\ pc = "flushing" /\ UNCHANGED <<pending, turn>> /\ QueryRaises
    BY <1>5 DEF FlushRaises, QueryRaises, QueryDone
  <2>2. store \subseteq store' /\ (~me.settles => unsettled' = unsettled) BY <2>1, PutAdds
  <2> QED BY <2>1, <2>2, QueryLedger
<1>6. ASSUME pc = "searching", UNCHANGED storeVars,
             \/ \E s \in SearchSpaces : QueryDone(Found(s))
             \/ QueryDone({}) \/ QueryRaises
      PROVE  Ledger'
  <2>1. UNCHANGED <<turn, pending, store, unsettled>>
    BY <1>6 DEF QueryDone, QueryRaises, storeVars, heldVars
  <2> QED BY <1>6, <2>1, QueryLedger
<1>7. CASE SearchReturns \/ SearchRefused
  <2>1. UNCHANGED storeVars BY <1>7 DEF SearchReturns, SearchRefused, storeVars
  <2> QED BY <1>6, <1>7, <2>1 DEF SearchReturns, SearchRefused
<1>8. ASSUME NEW e \in Failures, SearchSwallowed(e) \/ SearchGivenUp(e) \/ SearchRaises(e) PROVE Ledger'
  BY <1>6, <1>8 DEF SearchSwallowed, SearchGivenUp, SearchRaises, SearchFaults
<1>9. ASSUME NEW e \in Failures, SearchRetried(e) \/ SearchInNextForm(e) PROVE Ledger'
  <2>1. UNCHANGED <<agentVars, storeVars, acked, answer>> /\ Active /\ me' = me
        /\ Lossless(me)' = Lossless(me)
    BY <1>9 DEF SearchRetried, SearchInNextForm, SearchFaults, Active, agentVars, me, Lossless
  <2>2. Progress' BY <1>0, <2>1 DEF Progress, agentVars, storeVars, heldVars
  <2>3. Held' BY <2>1, HeldStays DEF Counts, agentVars, storeVars, heldVars
  <2>4. NothingLost' BY <1>0, <2>1 DEF NothingLost
  <2> QED BY <2>2, <2>3, <2>4 DEF Ledger
<1> QED BY <1>1, <1>3, <1>4, <1>5, <1>7, <1>8, <1>9 DEF SearchStep

(* A new pass and a new client object start with an empty account.           *)
LEMMA FreshLedger ==
    ASSUME Origin, Ledger, ResetCase \/ (\E e \in Failures : ResetRaises(e)) \/ Restart \/ KilledInAdd
    PROVE  Ledger'
<1>0. Progress BY DEF Ledger
<1>1. pending' = {} /\ acked' = {} /\ answer' = {} /\ turn' = 1 /\ pc' \in {"ready", "observing", "failed"}
      /\ me' = me
  BY DEF ResetCase, ResetRaises, StartCase, Restart, KilledInAdd, NewClient, me
<1>2. ~me.settles => unsettled' = {}
  BY <1>0 DEF Progress, ResetCase, ResetRaises, StartCase, Restart, KilledInAdd, Kept, PutUnseen, Put,
         heldVars
<1>3. Progress' BY <1>1, <1>2 DEF Progress
<1>4. Held' /\ NothingLost' BY <1>1 DEF Held, NothingLost
<1> QED BY <1>3, <1>4 DEF Ledger

LEMMA InitLedger == Init => Ledger
BY DEF Init, Ledger, Progress, Held, NothingLost, Active

LEMMA NextLedger == Origin /\ Ledger /\ [Next]_vars => Ledger'
<1> SUFFICES ASSUME Origin, Ledger, [Next]_vars PROVE Ledger' OBVIOUS
<1>1. ASSUME UNCHANGED <<agentVars, pending, store, acked, answer>>, unsettled' \subseteq unsettled
      PROVE  Ledger'
  <2>1. UNCHANGED <<client, life, pc, case, pass, turn, query>> BY <1>1 DEF agentVars
  <2>2. me' = me /\ Lossless(me)' = Lossless(me) /\ Active' = Active /\ Home' = Home
    BY <2>1 DEF me, Lossless, Active, Home
  <2>3. Progress' BY <1>1, <2>1, <2>2 DEF Ledger, Progress
  <2>4. Held' BY <1>1, <2>2 DEF Ledger, Held, Stored
  <2>5. NothingLost' BY <1>1, <2>2 DEF Ledger, NothingLost
  <2> QED BY <2>3, <2>4, <2>5 DEF Ledger
<1>2. CASE Ingest BY <1>1, <1>2 DEF Ingest
<1>3. CASE UNCHANGED vars BY <1>1, <1>3 DEF vars, storeVars, heldVars
<1>4. CASE AddStep BY <1>4, AddStepLedger
<1>5. CASE SearchStep BY <1>5, SearchStepLedger
<1>6. CASE ResetCase \/ (\E e \in Failures : ResetRaises(e)) \/ Restart \/ KilledInAdd
  BY <1>6, FreshLedger
<1> QED BY <1>2, <1>3, <1>4, <1>5, <1>6 DEF Next, AgentStep

(* A lossless client answers with nothing, or with every turn the agent      *)
(* counts as written, whatever fails on the way.                             *)
THEOREM SpecNothingLost == Spec => []NothingLost
<1>1. Init => Origin /\ Ledger BY InitOrigin, InitLedger
<1>2. Origin /\ Ledger /\ [Next]_vars => (Origin /\ Ledger)' BY NextOrigin, NextLedger
<1>3. Ledger => NothingLost BY DEF Ledger
<1> QED BY <1>1, <1>2, <1>3, PTL DEF Spec
-----------------------------------------------------------------------------
(* CopiesExplained: what a call still to be made could store again is there  *)
(* only because an earlier call had an effect its failure hid, and each such *)
(* call can account for the one turn it wrote.                               *)

(* Turns of the pass that were not written yet, and stored all the same.     *)
Ahead == {e \in store : e.turn.pass = pass /\ e.turn.nr >= turn}

Surplus == IF Active THEN twice \cup Ahead ELSE twice

Numbered ==
    /\ turn \in Nat /\ ghosts \in Nat
    /\ \A e \in store : e.turn.nr \in Nat
    /\ \A t \in pending : t.nr \in Nat /\ t.nr < turn
    /\ me.buffer = "none" => pending = {}

(* As long as no failed call had an effect.                                  *)
Clean ==
    ghosts = 0 =>
        /\ twice = {}
        /\ Active => \A e \in store : e.turn.pass = pass => e.turn.nr < turn /\ e.turn \notin pending

Counted ==
    me.buffer = "none" => IsFiniteSet(Surplus) /\ Cardinality(Surplus) <= ghosts

Explained == Numbered /\ Clean /\ Counted

(* A step that stores nothing new before its turn is written.                *)
LEMMA FewerCounted ==
    ASSUME Counted, me' = me, ghosts' = ghosts, ghosts \in Nat, Surplus' \subseteq Surplus
    PROVE  Counted'
<1> SUFFICES ASSUME me.buffer = "none"
             PROVE  IsFiniteSet(Surplus') /\ Cardinality(Surplus') <= ghosts
  BY DEF Counted
<1>1. IsFiniteSet(Surplus) /\ Cardinality(Surplus) <= ghosts BY DEF Counted
<1>2. IsFiniteSet(Surplus') /\ Cardinality(Surplus') <= Cardinality(Surplus) BY <1>1, FS_Subset
<1>3. Cardinality(Surplus) \in Nat /\ Cardinality(Surplus') \in Nat
  BY <1>1, <1>2, FS_CardinalityType
<1> QED BY <1>1, <1>2, <1>3

(* A failed call that had an effect accounts for the turn it wrote.          *)
LEMMA GhostCounted ==
    ASSUME Counted, me' = me, ghosts \in Nat, ghosts' = ghosts + 1,
           NEW new, Surplus' \subseteq Surplus \cup {new}
    PROVE  Counted'
<1> SUFFICES ASSUME me.buffer = "none"
             PROVE  IsFiniteSet(Surplus') /\ Cardinality(Surplus') <= ghosts + 1
  BY DEF Counted
<1>1. IsFiniteSet(Surplus) /\ Cardinality(Surplus) <= ghosts BY DEF Counted
<1> DEFINE more == Surplus \cup {new}
<1>2. /\ IsFiniteSet(more)
      /\ Cardinality(more) = Cardinality(Surplus) \/ Cardinality(more) = Cardinality(Surplus) + 1
  BY <1>1, FS_AddElement
<1>3. IsFiniteSet(Surplus') /\ Cardinality(Surplus') <= Cardinality(more) BY <1>2, FS_Subset
<1>4. /\ Cardinality(Surplus) \in Nat /\ Cardinality(more) \in Nat
      /\ Cardinality(Surplus') \in Nat
  BY <1>1, <1>2, <1>3, FS_CardinalityType
<1> QED BY <1>1, <1>2, <1>3, <1>4

LEMMA SameExplained ==
    ASSUME Explained, me' = me, UNCHANGED <<pass, turn, pending, store, twice, ghosts>>, Active' => Active
    PROVE  Explained'
<1>1. Ahead' = Ahead BY DEF Ahead
<1>2. Surplus' \subseteq Surplus BY <1>1 DEF Surplus
<1>3. Counted' BY <1>2, FewerCounted DEF Explained, Numbered
<1> QED BY <1>3 DEF Explained, Numbered, Clean

(* Storing the turn of this step.                                            *)
LEMMA AddExplained ==
    ASSUME Explained, Active, me' = me, UNCHANGED <<pass, pending>>, NEW s,
           \/ Put(NewEntries({s})) /\ turn' = turn + 1 /\ UNCHANGED ghosts
           \/ PutOrNot(NewEntries({s})) /\ turn' \in {turn, turn + 1}
    PROVE  Explained'
<1> DEFINE new == [space |-> s, turn |-> Turn]
<1>0. turn \in Nat /\ turn' \in Nat /\ turn' >= turn /\ ghosts \in Nat BY DEF Explained, Numbered
<1>1. NewEntries({s}) = {new}
  <2>1. \A e \in NewEntries({s}) : e = new BY DEF NewEntries
  <2>2. new \in NewEntries({s}) BY DEF NewEntries
  <2> QED BY <2>1, <2>2
<1>2. new.turn = Turn /\ Turn.nr = turn /\ Turn.pass = pass BY DEF Turn
<1>3. CASE UNCHANGED heldVars
  <2>1. Ahead' \subseteq Ahead BY <1>0, <1>3 DEF Ahead, heldVars, Explained, Numbered
  <2>2. Surplus' \subseteq Surplus BY <1>3, <2>1 DEF Surplus, heldVars
  <2>3. Counted' BY <1>0, <1>3, <2>2, FewerCounted DEF Explained, heldVars
  <2>4. Clean' BY <1>0, <1>3 DEF Explained, Numbered, Clean, heldVars
  <2>5. Numbered' BY <1>0, <1>3 DEF Explained, Numbered, heldVars
  <2> QED BY <2>3, <2>4, <2>5 DEF Explained
<1>4. CASE Put(NewEntries({s})) /\ ghosts' \in {ghosts, ghosts + 1} /\ (ghosts' = ghosts => turn' = turn + 1)
  <2>1. store' = store \cup {new} /\ twice' = twice \cup ({new} \cap store) BY <1>1, <1>4 DEF Put
  <2>2. Numbered' BY <1>0, <1>2, <1>4, <2>1 DEF Explained, Numbered
  <2>3. new \in store => new \in Ahead BY <1>0, <1>2 DEF Ahead
  <2>4. Ahead' \subseteq Ahead \cup {new} BY <1>0, <2>1 DEF Ahead, Explained, Numbered
  <2>5. ghosts' = ghosts => Ahead' \subseteq Ahead
    BY <1>0, <1>2, <1>4, <2>1 DEF Ahead, Explained, Numbered
  <2>6. Surplus' \subseteq Surplus \cup {new} BY <2>1, <2>4 DEF Surplus
  <2>7. ghosts' = ghosts => Surplus' \subseteq Surplus BY <2>1, <2>3, <2>5 DEF Surplus
  <2>8. Counted' BY <1>0, <1>4, <2>6, <2>7, FewerCounted, GhostCounted DEF Explained
  <2>9. Clean'
    <3> SUFFICES ASSUME ghosts' = 0
                 PROVE  /\ twice' = {}
                        /\ \A e \in store' : e.turn.pass = pass => e.turn.nr < turn' /\ e.turn \notin pending
      BY DEF Clean
    <3>1. ghosts = 0 /\ turn' = turn + 1 BY <1>0, <1>4
    <3>2. new \notin store BY <1>0, <1>2, <3>1 DEF Explained, Clean
    <3>3. Turn \notin pending BY <1>0, <1>2 DEF Explained, Numbered
    <3>4. ASSUME NEW e \in store, e.turn.pass = pass PROVE e.turn.nr < turn' /\ e.turn \notin pending
      BY <1>0, <3>1, <3>4 DEF Explained, Clean, Numbered
    <3> QED BY <1>0, <1>2, <2>1, <3>1, <3>2, <3>3, <3>4 DEF Explained, Clean
  <2> QED BY <2>2, <2>8, <2>9 DEF Explained
<1>5. \/ UNCHANGED heldVars
      \/ Put(NewEntries({s})) /\ ghosts' \in {ghosts, ghosts + 1} /\ (ghosts' = ghosts => turn' = turn + 1)
  BY <1>0 DEF PutOrNot, PutUnseen
<1> QED BY <1>3, <1>4, <1>5

LEMMA AddStepExplained ==
    ASSUME Origin, Explained, AddStep
    PROVE  Explained'
<1>0. UNCHANGED <<client, case, pass>> /\ me' = me
  <2>1. UNCHANGED <<client, case, pass>> BY AddStepWithin DEF Within
  <2> QED BY <2>1 DEF me
<1>1. CASE BufferTurn
  <2>0. turn \in Nat /\ Numbered BY DEF Explained, Numbered
  <2>1. /\ UNCHANGED <<store, twice, ghosts>> /\ pending' = pending \cup {Turn} /\ turn' = turn + 1
        /\ Active /\ me.buffer # "none"
    BY <1>1 DEF BufferTurn, Written, heldVars, Active
  <2>2. Turn.nr = turn BY DEF Turn
  <2>3. Numbered' BY <1>0, <2>0, <2>1, <2>2 DEF Numbered
  <2>4. ASSUME ghosts = 0, NEW e \in store, e.turn.pass = pass
        PROVE  e.turn.nr < turn' /\ e.turn \notin pending'
    BY <2>0, <2>1, <2>2, <2>4 DEF Explained, Numbered, Clean
  <2>5. Clean' BY <1>0, <2>1, <2>4 DEF Explained, Clean
  <2> QED BY <1>0, <2>1, <2>3, <2>5 DEF Explained, Counted
<1>2. ASSUME StartAdd \/ AddRefused PROVE Explained'
  <2>1. UNCHANGED <<pass, turn, storeVars>> /\ Active
    BY <1>2 DEF StartAdd, AddRefused, Active, storeVars
  <2> QED BY <1>0, <2>1, SameExplained DEF storeVars, heldVars
<1>3. CASE AddReturns
  <2>1. PICK s \in AddSpaces : Put(NewEntries({s})) BY <1>3 DEF AddReturns
  <2>2. Active /\ UNCHANGED <<pass, pending, ghosts>> /\ turn' = turn + 1
    BY <1>3 DEF AddReturns, Written, Active
  <2> QED BY <1>0, <2>1, <2>2, AddExplained
<1>4. ASSUME NEW e \in Failures,
             AddSwallowed(e) \/ AddRetried(e) \/ AddInNextForm(e) \/ AddGivenUp(e) \/ AddRaises(e)
      PROVE  Explained'
  <2>1. PICK s \in AddSpaces : PutOrNot(NewEntries({s}))
    BY <1>4 DEF AddSwallowed, AddRetried, AddInNextForm, AddGivenUp, AddRaises, AddFaults
  <2>2. Active /\ UNCHANGED <<pass, pending>> /\ turn' \in {turn, turn + 1}
    BY <1>4 DEF AddSwallowed, AddRetried, AddInNextForm, AddGivenUp, AddRaises, AddFaults, Written, Active
  <2> QED BY <1>0, <2>1, <2>2, AddExplained
<1> QED BY <1>1, <1>2, <1>3, <1>4 DEF AddStep

(* The buffer is written by the one flush that returns.                      *)
LEMMA FlushExplained ==
    ASSUME Origin, Explained, pc = "flushing", me' = me, UNCHANGED <<pass, turn>>,
           \/ Put(FlushEntries) /\ pending' = {} /\ UNCHANGED ghosts
           \/ PutOrNot(FlushEntries) /\ pending' \in {pending, {}}
    PROVE  Explained'
<1>0. Active /\ ghosts \in Nat BY DEF Active, Explained, Numbered
<1>1. \A e \in FlushEntries : e.turn \in pending BY DEF FlushEntries
<1>2. CASE UNCHANGED heldVars /\ pending' \in {pending, {}}
  <2>1. Ahead' = Ahead BY <1>2 DEF Ahead, heldVars
  <2>2. Surplus' \subseteq Surplus BY <1>0, <1>2, <2>1 DEF Surplus, heldVars
  <2>3. Counted' BY <1>0, <1>2, <2>2, FewerCounted DEF Explained, heldVars
  <2> QED BY <1>0, <1>2, <2>3 DEF Explained, Numbered, Clean, heldVars
<1>3. CASE /\ Put(FlushEntries) /\ pending' \in {pending, {}} /\ ghosts' \in {ghosts, ghosts + 1}
           /\ ghosts' = ghosts => pending' = {}
  <2>1. Numbered' BY <1>0, <1>1, <1>3 DEF Explained, Numbered, Put
  <2>2. Counted'
    <3> SUFFICES ASSUME me.buffer = "none" PROVE Counted' BY DEF Counted
    <3>1. FlushEntries = {} BY <1>1 DEF Explained, Numbered
    <3>2. UNCHANGED <<store, twice>> BY <1>3, <3>1 DEF Put
    <3>3. Ahead' = Ahead BY <3>2 DEF Ahead
    <3>4. Surplus' \subseteq Surplus BY <1>0, <3>2, <3>3 DEF Surplus
    <3>5. Surplus' \subseteq Surplus \cup {0} BY <3>4
    <3> QED BY <1>0, <1>3, <3>4, <3>5, FewerCounted, GhostCounted DEF Explained
  <2>3. Clean'
    <3> SUFFICES ASSUME ghosts' = 0
                 PROVE  /\ twice' = {}
                        /\ \A e \in store' : e.turn.pass = pass => e.turn.nr < turn /\ e.turn \notin pending'
      BY DEF Clean
    <3>1. ghosts = 0 /\ pending' = {} BY <1>0, <1>3
    <3>2. ASSUME NEW e \in FlushEntries PROVE e \notin store
      <4>1. e.turn \in pending /\ e.turn.pass = pass BY <1>1, <3>2 DEF Origin, OneCase
      <4> QED BY <1>0, <3>1, <4>1 DEF Explained, Clean
    <3>3. twice' = {} BY <1>3, <3>1, <3>2 DEF Put, Explained, Clean
    <3>4. \A e \in store' : e \in store \/ e.turn \in pending BY <1>1, <1>3 DEF Put
    <3> QED BY <1>0, <3>1, <3>3, <3>4 DEF Explained, Numbered, Clean
  <2> QED BY <2>1, <2>2, <2>3 DEF Explained
<1> QED BY <1>0, <1>2, <1>3 DEF PutOrNot, PutUnseen

LEMMA SearchStepExplained ==
    ASSUME Origin, Explained, SearchStep
    PROVE  Explained'
<1>0. UNCHANGED <<client, case, pass>> /\ me' = me
  <2>1. UNCHANGED <<client, case, pass>> BY SearchStepWithin DEF Within
  <2> QED BY <2>1 DEF me
<1>1. CASE StartSearch BY <1>0, <1>1, SameExplained DEF StartSearch, Active
<1>2. CASE FlushReturns BY <1>0, <1>2, FlushExplained DEF FlushReturns
<1>3. ASSUME NEW e \in Failures, FlushLost(e) \/ FlushRaises(e) PROVE Explained'
  <2>1. pc = "flushing" /\ PutOrNot(FlushEntries) /\ pending' \in {pending, {}} /\ turn' = turn
    BY <1>3 DEF FlushLost, FlushRaises, QueryRaises, QueryDone
  <2> QED BY <1>0, <2>1, FlushExplained
<1>4. ASSUME UNCHANGED <<turn, storeVars>>, pc = "searching" PROVE Explained'
  BY <1>0, <1>4, SameExplained DEF storeVars, heldVars, Active
<1>5. CASE SearchReturns \/ SearchRefused
  BY <1>4, <1>5 DEF SearchReturns, SearchRefused, QueryRaises, QueryDone, storeVars
<1>6. ASSUME NEW e \in Failures,
             \/ SearchSwallowed(e) \/ SearchRetried(e) \/ SearchInNextForm(e)
             \/ SearchGivenUp(e) \/ SearchRaises(e)
      PROVE  Explained'
  <2>1. pc = "searching" /\ UNCHANGED storeVars
    BY <1>6 DEF SearchSwallowed, SearchRetried, SearchInNextForm, SearchGivenUp, SearchRaises, SearchFaults
  <2>2. turn' = turn
    BY <1>6 DEF SearchSwallowed, SearchRetried, SearchInNextForm, SearchGivenUp, SearchRaises,
                SearchFaults, QueryRaises, QueryDone, agentVars
  <2> QED BY <1>4, <2>1, <2>2
<1> QED BY <1>1, <1>2, <1>3, <1>5, <1>6 DEF SearchStep

(* Nothing of a new pass is stored yet.                                      *)
LEMMA NewPassExplained ==
    ASSUME Origin, Explained, ResetCase \/ \E e \in Failures : ResetRaises(e)
    PROVE  Explained'
<1>1. me' = me /\ pass' = pass + 1 /\ turn' = 1 /\ pending' = {} /\ ghosts' = ghosts
  BY DEF ResetCase, ResetRaises, StartCase, me, heldVars
<1>2. store' \subseteq store /\ twice' \subseteq twice
  BY DEF ResetCase, ResetRaises, Kept, heldVars
<1>3. \A e \in store : e.turn.pass # pass' BY <1>1 DEF Origin, InPlace, ControlOK
<1>4. Ahead' = {} BY <1>2, <1>3 DEF Ahead
<1>5. Surplus' \subseteq Surplus BY <1>2, <1>4 DEF Surplus
<1>6. Counted' BY <1>1, <1>5, FewerCounted DEF Explained, Numbered
<1> QED BY <1>1, <1>2, <1>3, <1>6 DEF Explained, Numbered, Clean

LEMMA NewClientExplained ==
    ASSUME Origin, Explained, Restart \/ KilledInAdd
    PROVE  Explained'
<1>0. ghosts \in Nat BY DEF Explained, Numbered
<1>1. me' = me /\ turn' = 1 /\ pending' = {} /\ ~Active'
  BY DEF Restart, KilledInAdd, NewClient, me, Active
<1>2. CASE Restart
  <2>1. store' \subseteq store /\ twice' \subseteq twice /\ ghosts' = ghosts BY <1>2 DEF Restart, heldVars
  <2>2. Surplus' \subseteq Surplus BY <1>1, <2>1 DEF Surplus
  <2>3. Counted' BY <1>0, <1>1, <2>1, <2>2, FewerCounted DEF Explained
  <2> QED BY <1>1, <2>1, <2>3 DEF Explained, Numbered, Clean
<1>3. CASE KilledInAdd
  <2>1. PICK s \in AddSpaces : Put(NewEntries({s})) BY <1>3 DEF KilledInAdd, PutUnseen
  <2>2. Active /\ ghosts' = ghosts + 1 BY <1>3 DEF KilledInAdd, PutUnseen, Active
  <2> DEFINE new == [space |-> s, turn |-> Turn]
  <2>3. \A e \in NewEntries({s}) : e = new /\ e.turn.nr = turn BY DEF NewEntries, Turn
  <2>4. twice' \subseteq twice \cup {new} BY <2>1, <2>3 DEF Put
  <2>5. Surplus' \subseteq Surplus \cup {new} BY <1>1, <2>2, <2>4 DEF Surplus
  <2>6. Counted' BY <1>0, <1>1, <2>2, <2>5, GhostCounted DEF Explained
  <2>7. \A e \in store' : e.turn.nr \in Nat BY <2>1, <2>3 DEF Put, Explained, Numbered
  <2>8. ghosts' # 0 BY <1>0, <2>2
  <2> QED BY <1>0, <1>1, <2>2, <2>6, <2>7, <2>8 DEF Explained, Numbered, Clean
<1> QED BY <1>2, <1>3

LEMMA InitExplained == Init => Explained
<1> SUFFICES ASSUME Init PROVE Explained OBVIOUS
<1>1. Surplus = {} BY DEF Init, Surplus, Active
<1>2. Counted BY <1>1, FS_EmptySet DEF Counted, Init
<1> QED BY <1>2 DEF Init, Explained, Numbered, Clean, Active

LEMMA NextExplained == Origin /\ Explained /\ [Next]_vars => Explained'
<1> SUFFICES ASSUME Origin, Explained, [Next]_vars PROVE Explained' OBVIOUS
<1>1. CASE Ingest
  BY <1>1, SameExplained DEF Ingest, agentVars, me, Active
<1>2. CASE UNCHANGED vars
  BY <1>2, SameExplained DEF vars, agentVars, storeVars, heldVars, me, Active
<1>3. CASE AddStep BY <1>3, AddStepExplained
<1>4. CASE SearchStep BY <1>4, SearchStepExplained
<1>5. CASE ResetCase \/ (\E e \in Failures : ResetRaises(e)) BY <1>5, NewPassExplained
<1>6. CASE Restart \/ KilledInAdd BY <1>6, NewClientExplained
<1> QED BY <1>1, <1>2, <1>3, <1>4, <1>5, <1>6 DEF Next, AgentStep

(* Whatever the retries, the forms, the flushes and the restarts do, a       *)
(* provider holds a second copy of a turn only where a failed call had taken *)
(* effect, and an unbuffered client at most one for each such call.          *)
THEOREM SpecCopiesExplained == Spec => []CopiesExplained
<1>1. Init => Origin /\ Explained BY InitOrigin, InitExplained
<1>2. Origin /\ Explained /\ [Next]_vars => (Origin /\ Explained)' BY NextOrigin, NextExplained
<1>3. Explained => CopiesExplained
  <2> SUFFICES ASSUME Explained, me.buffer = "none" PROVE Cardinality(twice) <= ghosts
    BY DEF Explained, Clean, CopiesExplained
  <2>1. IsFiniteSet(Surplus) /\ Cardinality(Surplus) <= ghosts /\ twice \subseteq Surplus
    BY DEF Explained, Counted, Surplus
  <2>2. Cardinality(twice) <= Cardinality(Surplus) /\ IsFiniteSet(twice) BY <2>1, FS_Subset
  <2>3. Cardinality(Surplus) \in Nat /\ Cardinality(twice) \in Nat BY <2>1, <2>2, FS_CardinalityType
  <2> QED BY <2>1, <2>2, <2>3 DEF Explained, Numbered
<1> QED BY <1>1, <1>2, <1>3, PTL DEF Spec
-----------------------------------------------------------------------------
(* TypeOK: a client object goes through each case at most once, so that the  *)
(* passes are bounded by what the objects before this one can have begun and *)
(* the cases of this one; and no query is asked beyond the last one.         *)

Begun == pass \in Nat /\ pass <= (life - 1) * NumCases + case

ControlTyped ==
    /\ Begun
    /\ client \in Clients
    /\ life \in 1 .. MaxLives
    /\ pc \in {"ready", "observing", "adding", "flushing", "searching", "failed"}
    /\ case \in 0 .. NumCases
    /\ turn \in 1 .. NumTurns + 1
    /\ query \in 0 .. NumQueries
    /\ form \in 1 .. 6
    /\ attempt \in 1 .. me.retry.tries
    /\ ghosts \in 0 .. MaxGhosts /\ typeErrors \in 0 .. MaxTypeErrors /\ faulted \in BOOLEAN
    /\ pc # "ready" => case > 0
    /\ Active => pass > 0 /\ query < NumQueries
    /\ pc = "adding" => turn <= NumTurns

DataTyped ==
    /\ pending \subseteq Turns /\ acked \subseteq Turns /\ answer \subseteq Turns
    /\ store \subseteq Entries /\ twice \subseteq store /\ unsettled \subseteq store

Typed == ControlTyped /\ DataTyped

LEMMA CasesOfLives ==
    ASSUME NEW n \in 1 .. MaxLives
    PROVE  /\ n * NumCases \in Nat /\ (n - 1) * NumCases \in Nat
           /\ n * NumCases <= MaxLives * NumCases
           /\ n * NumCases = (n - 1) * NumCases + NumCases
<1>1. NumCases \in Nat /\ MaxLives \in Nat /\ n \in Nat /\ n - 1 \in Nat BY AdapterAssumption
<1>2. PICK k \in Nat : MaxLives = n + k
  <2>1. MaxLives - n \in Nat /\ MaxLives = n + (MaxLives - n) BY <1>1
  <2> QED BY <2>1
<1>3. n * NumCases \in Nat /\ (n - 1) * NumCases \in Nat /\ k * NumCases \in Nat BY <1>1
<1>4. (n + k) * NumCases = n * NumCases + k * NumCases BY <1>1
<1>5. n * NumCases = (n - 1) * NumCases + NumCases BY <1>1
<1> QED BY <1>2, <1>3, <1>4, <1>5

LEMMA PassTyped ==
    ASSUME ControlTyped
    PROVE  /\ pass <= life * NumCases /\ life * NumCases \in Nat /\ (life - 1) * NumCases \in Nat
           /\ life * NumCases = (life - 1) * NumCases + NumCases
           /\ pass \in 0 .. MaxLives * NumCases
<1>1. /\ life * NumCases \in Nat /\ (life - 1) * NumCases \in Nat
      /\ life * NumCases <= MaxLives * NumCases /\ life * NumCases = (life - 1) * NumCases + NumCases
  BY CasesOfLives DEF ControlTyped
<1> DEFINE X == life * NumCases
           Y == (life - 1) * NumCases
           Z == MaxLives * NumCases
<1>2. case \in Nat /\ case <= NumCases /\ NumCases \in Nat /\ pass \in Nat /\ pass <= Y + case
  BY AdapterAssumption DEF ControlTyped, Begun
<1>3. Z \in Int /\ MaxLives \in Nat BY AdapterAssumption
<1>4. X \in Nat /\ Y \in Nat /\ X <= Z /\ X = Y + NumCases BY <1>1
<1> HIDE DEF X, Y, Z
<1>5. pass <= X /\ pass \in 0 .. Z BY <1>2, <1>3, <1>4
<1> QED BY <1>1, <1>5 DEF X, Z

LEMMA TypedImpliesTypeOK == Typed => TypeOK
<1> SUFFICES ASSUME Typed PROVE TypeOK OBVIOUS
<1>1. pass \in 0 .. life * NumCases
  <2>1. pass <= life * NumCases /\ life * NumCases \in Nat /\ pass \in Nat
    BY PassTyped DEF Typed, ControlTyped, Begun
  <2> DEFINE X == life * NumCases
  <2>2. pass <= X /\ X \in Nat /\ pass \in Nat BY <2>1
  <2> HIDE DEF X
  <2>3. pass \in 0 .. X BY <2>2
  <2> QED BY <2>3 DEF X
<1> QED BY <1>1 DEF Typed, ControlTyped, DataTyped, TypeOK

LEMMA TriesType == ASSUME client \in Clients PROVE me.retry.tries \in Nat /\ me.retry.tries >= 1
<1>1. me \in Profiles BY ProfileType
<1>2. me.retry.tries \in 1 .. MaxTries BY <1>1 DEF Profiles
<1> QED BY <1>2, MaxTriesAssumption

LEMMA SpacesTyped ==
    ASSUME ControlTyped, Active, NEW scoped \in BOOLEAN, NEW withCase \in BOOLEAN
    PROVE  CallSpaces(scoped, withCase) \subseteq Spaces
<1>1. CallSpaces(scoped, withCase) \subseteq Reach BY CallsReach DEF ControlTyped
<1>2. case \in Cases BY AdapterAssumption DEF ControlTyped, Active, Cases
<1>3. pass \in 0 .. MaxLives * NumCases BY PassTyped
<1>4. me.space \in {"user", "object", "shared"} BY ProfileType DEF ControlTyped, Profiles
<1> QED BY <1>1, <1>2, <1>3, <1>4 DEF Reach, Spaces

LEMMA TurnTyped ==
    ASSUME ControlTyped, Active, turn <= NumTurns
    PROVE  Turn \in Turns
<1>1. case \in Cases BY AdapterAssumption DEF ControlTyped, Active, Cases
<1>2. pass \in 1 .. MaxLives * NumCases
  <2> DEFINE Z == MaxLives * NumCases
  <2>1. pass \in 0 .. Z /\ pass > 0 BY PassTyped DEF ControlTyped
  <2> HIDE DEF Z
  <2>2. pass \in 1 .. Z BY <2>1
  <2> QED BY <2>2 DEF Z
<1>3. turn \in 1 .. NumTurns BY AdapterAssumption DEF ControlTyped
<1> QED BY <1>1, <1>2, <1>3 DEF Turn, Turns

LEMMA InitTyped == Init => Typed
<1> SUFFICES ASSUME Init PROVE Typed OBVIOUS
<1>1. me.retry.tries \in Nat /\ me.retry.tries >= 1 BY TriesType DEF Init
<1>2. Begun BY AdapterAssumption DEF Init, Begun
<1>3. attempt \in 1 .. me.retry.tries BY <1>1 DEF Init
<1>4. /\ life \in 1 .. MaxLives /\ case \in 0 .. NumCases /\ query \in 0 .. NumQueries
      /\ turn \in 1 .. NumTurns + 1
      /\ ghosts \in 0 .. MaxGhosts /\ typeErrors \in 0 .. MaxTypeErrors
  <2>1. /\ NumCases \in Nat /\ NumTurns \in Nat /\ NumQueries \in Nat /\ MaxLives \in Nat \ {0}
        /\ MaxGhosts \in Nat /\ MaxTypeErrors \in Nat
    BY AdapterAssumption
  <2>2. life = 1 /\ case = 0 /\ query = 0 /\ turn = 1 /\ ghosts = 0 /\ typeErrors = 0
    BY DEF Init
  <2>3. life \in 1 .. MaxLives /\ case \in 0 .. NumCases /\ query \in 0 .. NumQueries
    BY <2>1, <2>2
  <2>4. turn \in 1 .. NumTurns + 1 BY <2>1, <2>2
  <2>5. ghosts \in 0 .. MaxGhosts /\ typeErrors \in 0 .. MaxTypeErrors BY <2>1, <2>2
  <2> QED BY <2>3, <2>4, <2>5
<1>5. ControlTyped
  <2>1. faulted \in BOOLEAN BY DEF Init
  <2>2. client \in Clients /\ pc = "ready" /\ form = 1 BY DEF Init
  <2>3. form \in 1 .. 6 /\ ~Active /\ pc # "adding" BY <2>2 DEF Active
  <2> QED BY <1>2, <1>3, <1>4, <2>1, <2>2, <2>3 DEF ControlTyped
<1>6. DataTyped BY DEF Init, DataTyped
<1> QED BY <1>5, <1>6 DEF Typed

(* Storing turns of the pass where a call can reach.                         *)
HeldTyped ==
    /\ store \subseteq Entries /\ twice \subseteq store /\ unsettled \subseteq store
    /\ ghosts \in 0 .. MaxGhosts

LEMMA PutTyped ==
    ASSUME HeldTyped, NEW new, new \subseteq Entries,
           (Put(new) /\ UNCHANGED ghosts) \/ PutUnseen(new) \/ PutOrNot(new)
    PROVE  HeldTyped'
<1>1. CASE UNCHANGED heldVars BY <1>1 DEF heldVars, HeldTyped
<1>2. CASE Put(new) /\ UNCHANGED ghosts
  BY <1>2 DEF Put, HeldTyped
<1>3. CASE PutUnseen(new)
  <2>1. ghosts' \in 0 .. MaxGhosts BY <1>3, AdapterAssumption DEF PutUnseen, HeldTyped
  <2> QED BY <1>3, <2>1 DEF PutUnseen, Put, HeldTyped
<1> QED BY <1>1, <1>2, <1>3 DEF PutOrNot

LEMMA AddTyped ==
    ASSUME Typed, pc = "adding", NEW s \in AddSpaces
    PROVE  NewEntries({s}) \subseteq Entries
<1>1. Active /\ turn <= NumTurns /\ ControlTyped BY DEF Typed, ControlTyped, Active
<1>2. (form <= 2) \in BOOLEAN /\ (form = 3) \in BOOLEAN BY <1>1 DEF ControlTyped
<1>3. s \in Spaces BY <1>1, <1>2, SpacesTyped DEF AddSpaces
<1>4. Turn \in Turns BY <1>1, TurnTyped
<1> QED BY <1>3, <1>4 DEF NewEntries, Entries

LEMMA FlushTyped ==
    ASSUME Typed, pc = "flushing"
    PROVE  FlushEntries \subseteq Entries
<1>1. Active /\ ControlTyped BY DEF Typed, Active
<1>2. CallSpaces(TRUE, TRUE) \subseteq Spaces BY <1>1, SpacesTyped
<1> QED BY <1>2 DEF FlushEntries, Entries, Typed, DataTyped

(* What a step of the agent inside a pass may do to its control.             *)
Moved ==
    /\ UNCHANGED <<client, life, case, pass>>
    /\ pc # "ready" /\ pc # "failed"
    /\ pc' \in {"ready", "observing", "adding", "flushing", "searching", "failed"}
    /\ form' \in 1 .. 6
    /\ attempt' = 1 \/ (attempt' = attempt + 1 /\ attempt < me.retry.tries) \/ attempt' = attempt
    /\ \/ turn' = turn /\ (pc' = "adding" => pc = "adding" \/ turn <= NumTurns)
       \/ turn' = turn + 1 /\ turn <= NumTurns /\ pc' = "observing"
    /\ \/ query' = query
       \/ query' = query + 1 /\ pc' = IF query + 1 = NumQueries THEN "ready" ELSE "observing"
    /\ typeErrors' \in 0 .. MaxTypeErrors /\ faulted' \in BOOLEAN /\ HeldTyped'

LEMMA MovedTyped ==
    ASSUME Typed, Moved PROVE ControlTyped'
<1>0. ControlTyped /\ Active BY DEF Typed, Moved, Active
<1>1. me' = me BY DEF Moved, me
<1>2. Begun' BY <1>0 DEF ControlTyped, Begun, Moved
<1>3. attempt' \in 1 .. me'.retry.tries
  <2>1. me.retry.tries \in Nat /\ me.retry.tries >= 1 BY <1>0, TriesType DEF ControlTyped
  <2> QED BY <1>0, <1>1, <2>1 DEF Moved, ControlTyped
<1>4. turn' \in 1 .. NumTurns + 1 /\ (pc' = "adding" => turn' <= NumTurns)
  BY <1>0, AdapterAssumption DEF Moved, ControlTyped
<1>5. query' \in 0 .. NumQueries /\ (Active' => query' < NumQueries)
  BY <1>0, AdapterAssumption DEF Moved, ControlTyped, Active
<1> QED BY <1>0, <1>1, <1>2, <1>3, <1>4, <1>5 DEF Moved, ControlTyped, HeldTyped, Active

LEMMA FaultTyped ==
    ASSUME Typed, NEW e \in Failures, Fault(e)
    PROVE  typeErrors' \in 0 .. MaxTypeErrors /\ faulted' \in BOOLEAN
BY AdapterAssumption DEF Typed, ControlTyped, Fault

LEMMA AddStepTyped ==
    ASSUME Typed, AddStep PROVE Typed'
<1>0. ControlTyped /\ DataTyped /\ HeldTyped BY DEF Typed, HeldTyped, ControlTyped, DataTyped
<1>1. Moved /\ pending' \subseteq Turns /\ acked' \subseteq Turns /\ answer' = answer
  <2>1. CASE BufferTurn
    <3>1. Turn \in Turns BY <1>0, <2>1, TurnTyped DEF BufferTurn, Active
    <3> QED BY <1>0, <2>1, <3>1
            DEF BufferTurn, Written, FirstCall, heldVars, faultVars, Moved, HeldTyped, ControlTyped, DataTyped
  <2>2. CASE StartAdd \/ AddRefused
    BY <1>0, <2>2 DEF StartAdd, AddRefused, FirstCall, storeVars, heldVars, faultVars, Moved, HeldTyped,
                      ControlTyped, DataTyped
  <2>3. CASE AddReturns
    <3>1. HeldTyped' BY <1>0, <2>3, AddTyped, PutTyped DEF AddReturns
    <3>2. Turn \in Turns /\ turn <= NumTurns BY <1>0, <2>3, TurnTyped DEF AddReturns, Active, ControlTyped
    <3> QED BY <1>0, <2>3, <3>1, <3>2
            DEF AddReturns, Written, FirstCall, faultVars, Moved, ControlTyped, DataTyped
  <2>4. ASSUME NEW e \in Failures,
               AddSwallowed(e) \/ AddRetried(e) \/ AddInNextForm(e) \/ AddGivenUp(e) \/ AddRaises(e)
        PROVE  Moved /\ pending' \subseteq Turns /\ acked' \subseteq Turns /\ answer' = answer
    <3>1. AddFaults(e) BY <2>4 DEF AddSwallowed, AddRetried, AddInNextForm, AddGivenUp, AddRaises
    <3>2. HeldTyped' BY <1>0, <3>1, AddTyped, PutTyped DEF AddFaults
    <3>3. typeErrors' \in 0 .. MaxTypeErrors /\ faulted' \in BOOLEAN BY <3>1, FaultTyped DEF AddFaults
    <3>4. Turn \in Turns /\ turn <= NumTurns BY <1>0, <3>1, TurnTyped DEF AddFaults, Active, ControlTyped
    <3>5. UNCHANGED <<client, life, case, pass, query, pending, answer>> /\ pc = "adding"
      BY <3>1 DEF AddFaults
    <3>6. CASE AddSwallowed(e) \/ AddGivenUp(e)
      BY <1>0, <3>2, <3>3, <3>4, <3>5, <3>6
         DEF AddSwallowed, AddGivenUp, Written, FirstCall, Moved, DataTyped
    <3>7. CASE AddRetried(e)
      BY <1>0, <3>2, <3>3, <3>5, <3>7 DEF AddRetried, MayRetry, SameForm, Moved, ControlTyped, DataTyped
    <3>8. CASE AddInNextForm(e) \/ AddRaises(e)
      BY <1>0, <3>2, <3>3, <3>5, <3>8
         DEF AddInNextForm, AddRaises, OtherForm, FirstCall, Moved, ControlTyped, DataTyped
    <3> QED BY <2>4, <3>6, <3>7, <3>8
  <2> QED BY <2>1, <2>2, <2>3, <2>4 DEF AddStep
<1>2. DataTyped' BY <1>0, <1>1 DEF Moved, DataTyped, HeldTyped
<1> QED BY <1>1, <1>2, MovedTyped DEF Typed

LEMMA QueryMoved ==
    ASSUME Typed, pc \in {"flushing", "searching"}, HeldTyped',
           typeErrors' \in 0 .. MaxTypeErrors, faulted' \in BOOLEAN,
           (\E found : QueryDone(found)) \/ QueryRaises
    PROVE  Moved
<1>1. ControlTyped BY DEF Typed
<1>2. CASE \E found : QueryDone(found)
  BY <1>1, <1>2 DEF QueryDone, FirstCall, Moved, ControlTyped
<1>3. CASE QueryRaises
  BY <1>1, <1>3 DEF QueryRaises, QueryDone, FirstCall, Moved, ControlTyped
<1> QED BY <1>2, <1>3

LEMMA SearchStepTyped ==
    ASSUME Typed, SearchStep PROVE Typed'
<1>0. ControlTyped /\ DataTyped /\ HeldTyped BY DEF Typed, HeldTyped, ControlTyped, DataTyped
<1>f. \A space : Found(space) \subseteq Turns BY <1>0 DEF DataTyped, Found, Entries
<1>1. Moved /\ pending' \subseteq Turns /\ acked' = acked /\ answer' \subseteq Turns
  <2> DEFINE Goal == Moved /\ pending' \subseteq Turns /\ acked' = acked /\ answer' \subseteq Turns
  <2>1. CASE StartSearch
    BY <1>0, <2>1 DEF StartSearch, FirstCall, faultVars, Moved, HeldTyped, ControlTyped, DataTyped
  <2>2. CASE FlushReturns
    <3>1. HeldTyped' BY <1>0, <2>2, FlushTyped, PutTyped DEF FlushReturns
    <3> QED BY <1>0, <2>2, <3>1 DEF FlushReturns, callVars, faultVars, Moved, ControlTyped, DataTyped
  <2>3. ASSUME NEW e \in Failures, FlushLost(e) PROVE Goal
    <3>1. HeldTyped' BY <1>0, <2>3, FlushTyped, PutTyped DEF FlushLost
    <3>2. typeErrors' \in 0 .. MaxTypeErrors /\ faulted' \in BOOLEAN BY <2>3, FaultTyped DEF FlushLost
    <3> QED BY <1>0, <2>3, <3>1, <3>2 DEF FlushLost, callVars, Moved, ControlTyped, DataTyped
  <2>4. ASSUME NEW e \in Failures, FlushRaises(e) PROVE Goal
    <3>1. HeldTyped' BY <1>0, <2>4, FlushTyped, PutTyped DEF FlushRaises
    <3>2. typeErrors' \in 0 .. MaxTypeErrors /\ faulted' \in BOOLEAN BY <2>4, FaultTyped DEF FlushRaises
    <3>3. Moved BY <2>4, <3>1, <3>2, QueryMoved DEF FlushRaises
    <3> QED BY <1>0, <2>4, <3>3 DEF FlushRaises, QueryRaises, QueryDone, DataTyped
  <2>5. ASSUME UNCHANGED storeVars, pc = "searching",
               typeErrors' \in 0 .. MaxTypeErrors, faulted' \in BOOLEAN,
               (\E s \in SearchSpaces : QueryDone(Found(s))) \/ QueryDone({}) \/ QueryRaises
        PROVE  Goal
    <3>1. HeldTyped' /\ pending' = pending BY <1>0, <2>5 DEF storeVars, heldVars, HeldTyped
    <3>2. Moved BY <2>5, <3>1, QueryMoved
    <3>3. acked' = acked /\ answer' \subseteq Turns
      BY <1>0, <1>f, <2>5 DEF QueryDone, QueryRaises, DataTyped
    <3> QED BY <1>0, <3>1, <3>2, <3>3 DEF DataTyped
  <2>6. CASE SearchReturns \/ SearchRefused
    <3>1. UNCHANGED <<storeVars, faultVars>> BY <2>6 DEF SearchReturns, SearchRefused
    <3>2. typeErrors' \in 0 .. MaxTypeErrors /\ faulted' \in BOOLEAN
      BY <1>0, <3>1 DEF faultVars, ControlTyped
    <3> QED BY <2>5, <2>6, <3>1, <3>2 DEF SearchReturns, SearchRefused
  <2>7. ASSUME NEW e \in Failures, SearchFaults(e)
        PROVE  UNCHANGED storeVars /\ pc = "searching" /\ typeErrors' \in 0 .. MaxTypeErrors
               /\ faulted' \in BOOLEAN
    BY <2>7, FaultTyped DEF SearchFaults
  <2>8. ASSUME NEW e \in Failures, SearchSwallowed(e) \/ SearchGivenUp(e) \/ SearchRaises(e) PROVE Goal
    BY <2>5, <2>7, <2>8 DEF SearchSwallowed, SearchGivenUp, SearchRaises
  <2>9. ASSUME NEW e \in Failures, SearchRetried(e) \/ SearchInNextForm(e) PROVE Goal
    <3>1. SearchFaults(e) /\ UNCHANGED <<agentVars, acked, answer>>
      BY <2>9 DEF SearchRetried, SearchInNextForm
    <3>2. HeldTyped' /\ pending' = pending BY <1>0, <2>7, <3>1 DEF storeVars, heldVars, HeldTyped
    <3>3. form' \in 1 .. 6 /\ (attempt' = 1 \/ (attempt' = attempt + 1 /\ attempt < me.retry.tries))
      BY <1>0, <2>9 DEF SearchRetried, SearchInNextForm, SameForm, OtherForm, MayRetry, ControlTyped
    <3>4. Moved BY <1>0, <2>7, <3>1, <3>2, <3>3 DEF agentVars, Moved, ControlTyped
    <3> QED BY <1>0, <3>1, <3>2, <3>4 DEF DataTyped
  <2> QED BY <2>1, <2>2, <2>3, <2>4, <2>6, <2>8, <2>9 DEF SearchStep
<1>2. DataTyped' BY <1>0, <1>1 DEF Moved, DataTyped, HeldTyped
<1> QED BY <1>1, <1>2, MovedTyped DEF Typed

(* A reset begins the next pass of this client object.                       *)
LEMMA ResetTyped ==
    ASSUME Typed, ResetCase \/ \E e \in Failures : ResetRaises(e) PROVE Typed'
<1>0. ControlTyped /\ DataTyped /\ HeldTyped BY DEF Typed, HeldTyped, ControlTyped, DataTyped
<1>1. StartCase /\ pc' \in {"observing", "failed"} BY DEF ResetCase, ResetRaises
<1>2. HeldTyped'
  <2>1. CASE ResetCase BY <1>0, <2>1 DEF ResetCase, Kept, HeldTyped
  <2>2. CASE \E e \in Failures : ResetRaises(e) BY <1>0, <2>2 DEF ResetRaises, heldVars, HeldTyped
  <2> QED BY <2>1, <2>2
<1>3. typeErrors' \in 0 .. MaxTypeErrors /\ faulted' \in BOOLEAN
  <2>1. CASE ResetCase BY <1>0, <2>1 DEF ResetCase, faultVars, ControlTyped
  <2>2. CASE \E e \in Failures : ResetRaises(e) BY <2>2, FaultTyped DEF ResetRaises
  <2> QED BY <2>1, <2>2
<1>4. Begun'
  <2> DEFINE Y == (life - 1) * NumCases
  <2>1. Y \in Nat BY <1>0, PassTyped
  <2>2. pass \in Nat /\ pass <= Y + case BY <1>0 DEF ControlTyped, Begun
  <2>3. pass' = pass + 1 /\ case' = case + 1 /\ life' = life /\ case \in Nat
    BY <1>0, <1>1, AdapterAssumption DEF StartCase, ControlTyped
  <2> HIDE DEF Y
  <2>4. pass' \in Nat /\ pass' <= Y + case' BY <2>1, <2>2, <2>3
  <2> QED BY <2>3, <2>4 DEF Begun, Y
<1>5. me' = me /\ attempt' \in 1 .. me'.retry.tries
  BY <1>0, <1>1 DEF StartCase, callVars, me, ControlTyped
<1>6. case' \in 0 .. NumCases /\ case' > 0 /\ pass' > 0 /\ query' = 0 /\ turn' = 1
  BY <1>0, <1>1, AdapterAssumption DEF StartCase, ControlTyped, Begun
<1>7. ControlTyped'
  BY <1>0, <1>1, <1>2, <1>3, <1>4, <1>5, <1>6, AdapterAssumption
     DEF StartCase, callVars, ControlTyped, HeldTyped, Active
<1>8. DataTyped' BY <1>1, <1>2 DEF StartCase, DataTyped, HeldTyped
<1> QED BY <1>7, <1>8 DEF Typed

(* A new client object begins with all its cases before it.                  *)
LEMMA NewClientTyped ==
    ASSUME Typed, Restart \/ KilledInAdd PROVE Typed'
<1>0. ControlTyped /\ DataTyped /\ HeldTyped BY DEF Typed, HeldTyped, ControlTyped, DataTyped
<1>1. NewClient BY DEF Restart, KilledInAdd
<1>2. HeldTyped'
  <2>1. CASE Restart BY <1>0, <2>1 DEF Restart, heldVars, HeldTyped
  <2>2. CASE KilledInAdd BY <1>0, <2>2, AddTyped, PutTyped DEF KilledInAdd
  <2> QED BY <2>1, <2>2
<1>3. case' \in 0 .. NumCases
  BY <1>0, <1>1, AdapterAssumption DEF NewClient, CasesDone, ControlTyped
<1>4. life' = life + 1 /\ life' \in 1 .. MaxLives /\ pass' = pass
  BY <1>0, <1>1, AdapterAssumption DEF NewClient, ControlTyped
<1>5. Begun'
  <2> DEFINE X == life * NumCases
  <2>1. pass <= X /\ X \in Nat /\ pass \in Nat BY <1>0, PassTyped DEF ControlTyped, Begun
  <2>2. life' - 1 = life BY <1>0, <1>4, AdapterAssumption DEF ControlTyped
  <2>3. case' \in Nat BY <1>3, AdapterAssumption
  <2> HIDE DEF X
  <2>4. \A c \in Nat : pass <= X + c BY <2>1
  <2>5. pass' \in Nat /\ pass' <= X + case' BY <1>4, <2>1, <2>3, <2>4
  <2> QED BY <2>2, <2>5 DEF Begun, X
<1>6. me' = me /\ attempt' \in 1 .. me'.retry.tries
  <2>1. me' = me BY <1>1 DEF NewClient, me
  <2>2. me.retry.tries \in Nat /\ me.retry.tries >= 1 BY <1>0, TriesType DEF ControlTyped
  <2> QED BY <1>1, <2>1, <2>2 DEF NewClient, FirstCall
<1>7. turn' \in 1 .. NumTurns + 1 /\ query' \in 0 .. NumQueries /\ ~Active' /\ pc' = "ready"
      /\ typeErrors' = typeErrors /\ form' \in 1 .. 6 /\ client' = client
  BY <1>1, AdapterAssumption DEF NewClient, FirstCall, Active
<1>8. ControlTyped'
  <2>1. client' \in Clients /\ typeErrors' \in 0 .. MaxTypeErrors BY <1>0, <1>7 DEF ControlTyped
  <2>2. ghosts' \in 0 .. MaxGhosts BY <1>2 DEF HeldTyped
  <2>3. faulted' \in BOOLEAN BY <1>1 DEF NewClient
  <2> QED BY <1>3, <1>4, <1>5, <1>6, <1>7, <2>1, <2>2, <2>3 DEF ControlTyped
<1>9. DataTyped' BY <1>1, <1>2 DEF NewClient, DataTyped, HeldTyped
<1> QED BY <1>8, <1>9 DEF Typed

LEMMA NextTyped == Typed /\ [Next]_vars => Typed'
<1> SUFFICES ASSUME Typed, [Next]_vars PROVE Typed' OBVIOUS
<1>1. ASSUME UNCHANGED <<agentVars, callVars, pending, store, twice, ghosts, acked, answer, faultVars>>,
             unsettled' \subseteq unsettled
      PROVE  Typed'
  <2>1. me' = me /\ (Begun' <=> Begun) BY <1>1 DEF agentVars, me, Begun
  <2>2. ControlTyped' BY <1>1, <2>1 DEF agentVars, callVars, faultVars, Typed, ControlTyped, Active
  <2>3. DataTyped' BY <1>1 DEF Typed, DataTyped
  <2> QED BY <2>2, <2>3 DEF Typed
<1>2. CASE Ingest BY <1>1, <1>2 DEF Ingest
<1>3. CASE UNCHANGED vars BY <1>1, <1>3 DEF vars, storeVars, heldVars
<1> QED BY <1>2, <1>3, AddStepTyped, SearchStepTyped, ResetTyped, NewClientTyped DEF Next, AgentStep

LEMMA SpecTyped == Spec => []Typed
BY InitTyped, NextTyped, PTL DEF Spec

(* For every profile no call is tried more often than the retry loop of its  *)
(* client allows, no form is used that the adapter does not have, and no     *)
(* case, turn or query beyond the last is worked on.                         *)
THEOREM SpecTypeOK == Spec => []TypeOK
BY SpecTyped, TypedImpliesTypeOK, PTL
-----------------------------------------------------------------------------
(* WholeCase: as long as no call failed the first call form is used, which   *)
(* adds to the space it searches, and every turn observed so far is buffered *)
(* or there.                                                                 *)

PassTurn(n) == [case |-> case, pass |-> pass, nr |-> n]

Observed ==
    ~faulted /\ Active =>
        /\ pc \in {"adding", "flushing", "searching"} => form = 1
        /\ turn > 1 => acked # {}
        /\ \A n \in 1 .. turn - 1 : PassTurn(n) \in pending \/ Stored(PassTurn(n))

Whole == Observed /\ WholeCase

LEMMA FirstFormHome ==
    ASSUME ControlOK, NEW withCase \in BOOLEAN
    PROVE  /\ CallSpaces(TRUE, withCase) = {Home}
           /\ form = 1 => AddSpaces = {Home} /\ SearchSpaces = {Home}
<1>1. me.space \in {"user", "object", "shared"}
  BY ProfileType DEF ControlOK, Profiles
<1>2. \A w \in BOOLEAN : CallSpaces(TRUE, w) = {Home} BY <1>1 DEF CallSpaces, UserSpaces, Home
<1>3. ASSUME form = 1 PROVE AddSpaces = {Home} /\ SearchSpaces = {Home}
  <2>1. (form <= 2) = TRUE /\ (form = 3) = FALSE /\ (form <= 4) = TRUE /\ form # 6 BY <1>3
  <2> QED BY <1>2, <2>1 DEF AddSpaces, SearchSpaces
<1> QED BY <1>2, <1>3

(* A failed call ends the claim for its client object.                       *)
LEMMA FaultWhole ==
    ASSUME faulted' = TRUE PROVE Whole'
BY DEF Whole, Observed, WholeCase

LEMMA AddStepWhole ==
    ASSUME Origin, Typed, Whole, AddStep PROVE Whole'
<1>1. CASE \E e \in Failures : \/ AddSwallowed(e) \/ AddRetried(e) \/ AddInNextForm(e)
                               \/ AddGivenUp(e) \/ AddRaises(e)
  <2>1. faulted' = TRUE
    BY <1>1 DEF AddSwallowed, AddRetried, AddInNextForm, AddGivenUp, AddRaises, AddFaults, Fault
  <2> QED BY <2>1, FaultWhole
<1>2. CASE BufferTurn \/ StartAdd \/ AddReturns \/ AddRefused
  <2>1. /\ UNCHANGED <<client, case, pass, query, answer, faulted>>
        /\ Active /\ pc \in {"observing", "adding"} /\ turn \in Nat
    BY <1>2 DEF BufferTurn, StartAdd, AddReturns, AddRefused, faultVars, Active, Typed, ControlTyped
  <2>2. WholeCase' BY <2>1 DEF Whole, WholeCase
  <2>3. Home' = Home /\ \A n : PassTurn(n)' = PassTurn(n) BY <2>1 DEF Home, me, PassTurn
  <2>4. ASSUME ~faulted PROVE Observed'
    <3>0. /\ turn > 1 => acked # {}
          /\ \A n \in 1 .. turn - 1 : PassTurn(n) \in pending \/ Stored(PassTurn(n))
          /\ pc = "adding" => form = 1
      BY <2>1, <2>4 DEF Whole, Observed
    <3>1. CASE BufferTurn
      <4>1. /\ pending' = pending \cup {PassTurn(turn)} /\ store' = store
            /\ acked' = acked \cup {Turn} /\ turn' = turn + 1 /\ form' = 1
        BY <3>1 DEF BufferTurn, Written, FirstCall, heldVars, Turn, PassTurn
      <4>2. ASSUME NEW n \in 1 .. turn' - 1 PROVE PassTurn(n) \in pending' \/ Stored(PassTurn(n))'
        <5>1. n = turn \/ n \in 1 .. turn - 1 BY <2>1, <4>1, <4>2
        <5> QED BY <2>3, <3>0, <4>1, <5>1 DEF Stored
      <4> QED BY <2>3, <4>1, <4>2 DEF Observed
    <3>2. CASE StartAdd
      <4>1. UNCHANGED <<pending, store, acked, turn>> /\ form' = 1
        BY <3>2 DEF StartAdd, FirstCall, storeVars, heldVars
      <4> QED BY <2>3, <3>0, <4>1 DEF Observed, Stored
    <3>3. CASE AddReturns
      <4>1. AddSpaces = {Home} BY <3>0, <3>3, FirstFormHome DEF AddReturns, Origin
      <4>2. /\ Put(NewEntries({Home})) /\ pending' = pending
            /\ acked' = acked \cup {Turn} /\ turn' = turn + 1 /\ form' = 1
        BY <3>3, <4>1 DEF AddReturns, Written, FirstCall
      <4>3. ASSUME NEW n, n = turn PROVE Stored(PassTurn(n))'
        <5>1. [space |-> Home, turn |-> PassTurn(n)] \in NewEntries({Home})
          BY <4>3 DEF NewEntries, Turn, PassTurn
        <5> QED BY <2>3, <4>2, <5>1 DEF Put, Stored
      <4>4. store \subseteq store' BY <4>2 DEF Put
      <4>5. ASSUME NEW n \in 1 .. turn' - 1 PROVE PassTurn(n) \in pending' \/ Stored(PassTurn(n))'
        <5>1. n = turn \/ n \in 1 .. turn - 1 BY <2>1, <4>2, <4>5
        <5> QED BY <2>3, <3>0, <4>2, <4>3, <4>4, <5>1 DEF Stored
      <4> QED BY <2>3, <4>2, <4>5 DEF Observed
    <3>4. CASE AddRefused
      <4>1. AddSpaces = {Home} BY <3>0, <3>4, FirstFormHome DEF AddRefused, Origin
      <4> QED BY <3>4, <4>1 DEF AddRefused
    <3> QED BY <1>2, <3>1, <3>2, <3>3, <3>4
  <2>5. Observed' BY <2>1, <2>4 DEF Observed
  <2> QED BY <2>2, <2>5 DEF Whole
<1> QED BY <1>1, <1>2 DEF AddStep

(* A search without failures finds the whole pass.                           *)
LEMMA SearchFindsWhole ==
    ASSUME Origin, Typed, Ledger, Whole, ~faulted, pc = "searching", NEW t \in Turns,
           t.case = case, t.pass = pass
    PROVE  t \in Found(Home)
<1>1. Active /\ turn \in Nat /\ NumTurns \in Nat \ {0}
  BY AdapterAssumption DEF Active, Typed, ControlTyped
<1>2. turn > NumTurns /\ pending = {} /\ (acked # {} => unsettled = {}) BY DEF Ledger, Progress
<1>3. unsettled = {} BY <1>1, <1>2 DEF Whole, Observed
<1>4. t.nr \in 1 .. turn - 1 /\ t = PassTurn(t.nr)
  <2>1. t \in [case : Cases, pass : 1 .. MaxLives * NumCases, nr : 1 .. NumTurns] BY DEF Turns
  <2>2. t.nr \in 1 .. NumTurns /\ t = [case |-> t.case, pass |-> t.pass, nr |-> t.nr] BY <2>1
  <2> QED BY <1>1, <1>2, <2>2 DEF PassTurn
<1>5. Stored(t) BY <1>1, <1>2, <1>4 DEF Whole, Observed
<1> QED BY <1>3, <1>5 DEF Stored, Found

LEMMA SearchStepWhole ==
    ASSUME Origin, Typed, Ledger, Whole, SearchStep PROVE Whole'
<1>1. CASE \E e \in Failures : \/ FlushLost(e) \/ FlushRaises(e) \/ SearchSwallowed(e) \/ SearchRetried(e)
                               \/ SearchInNextForm(e) \/ SearchGivenUp(e) \/ SearchRaises(e)
  <2>1. faulted' = TRUE
    BY <1>1 DEF FlushLost, FlushRaises, SearchSwallowed, SearchRetried, SearchInNextForm,
                SearchGivenUp, SearchRaises, SearchFaults, Fault
  <2> QED BY <2>1, FaultWhole
<1>2. CASE StartSearch \/ FlushReturns \/ SearchReturns \/ SearchRefused
  <2>0. pc \in {"observing", "flushing", "searching"} /\ Active
        /\ UNCHANGED <<client, case, pass, turn, acked, faulted>>
    BY <1>2 DEF StartSearch, FlushReturns, SearchReturns, SearchRefused, QueryRaises, QueryDone, faultVars,
                Active
  <2>1. Home' = Home /\ \A n : PassTurn(n)' = PassTurn(n) BY <2>0 DEF Home, me, PassTurn
  <2>2. ASSUME ~faulted PROVE Whole'
    <3>0. /\ turn > 1 => acked # {}
          /\ \A n \in 1 .. turn - 1 : PassTurn(n) \in pending \/ Stored(PassTurn(n))
          /\ pc \in {"flushing", "searching"} => form = 1
      BY <2>0, <2>2 DEF Whole, Observed
    <3>1. CASE StartSearch
      <4>1. UNCHANGED <<pending, store, query, answer>> /\ form' = 1 BY <3>1 DEF StartSearch, FirstCall
      <4>2. Observed' BY <2>0, <2>1, <3>0, <4>1 DEF Observed, Stored
      <4> QED BY <2>0, <4>1, <4>2 DEF Whole, WholeCase
    <3>2. CASE FlushReturns
      <4>1. Put(FlushEntries) /\ UNCHANGED <<query, answer, form>> /\ pc = "flushing"
        BY <3>2 DEF FlushReturns, callVars
      <4>2. store \subseteq store' /\ FlushEntries \subseteq store' BY <4>1 DEF Put
      <4>3. \A t \in pending : [space |-> Home, turn |-> t] \in FlushEntries
        BY FirstFormHome DEF FlushEntries, Origin
      <4>4. \A n \in 1 .. turn - 1 : Stored(PassTurn(n))' BY <2>1, <3>0, <4>2, <4>3 DEF Stored
      <4>5. Observed' BY <2>0, <2>1, <3>0, <4>1, <4>4 DEF Observed
      <4> QED BY <2>0, <4>1, <4>5 DEF Whole, WholeCase
    <3>3. CASE SearchReturns
      <4>1. SearchSpaces = {Home} BY <3>0, <3>3, FirstFormHome DEF SearchReturns, Origin
      <4>2. answer' = Found(Home) /\ form' = 1 /\ UNCHANGED <<pending, store>> /\ pc = "searching"
        BY <3>3, <4>1 DEF SearchReturns, QueryDone, FirstCall, storeVars, heldVars
      <4>3. \A t \in Turns : t.case = case /\ t.pass = pass => t \in Found(Home)
        BY <2>2, <4>2, SearchFindsWhole
      <4>4. WholeCase' BY <2>0, <4>2, <4>3 DEF WholeCase
      <4>5. Observed' BY <2>0, <2>1, <3>0, <4>2 DEF Observed, Stored
      <4> QED BY <4>4, <4>5 DEF Whole
    <3>4. CASE SearchRefused
      <4>1. SearchSpaces = {Home} BY <3>0, <3>4, FirstFormHome DEF SearchRefused, Origin
      <4> QED BY <3>4, <4>1 DEF SearchRefused
    <3> QED BY <1>2, <3>1, <3>2, <3>3, <3>4
  <2>3. ASSUME faulted PROVE Whole'
    BY <2>0, <2>3 DEF Whole, Observed, WholeCase
  <2> QED BY <2>2, <2>3
<1> QED BY <1>1, <1>2 DEF SearchStep

LEMMA FreshWhole ==
    ASSUME Typed, Whole, ResetCase \/ (\E e \in Failures : ResetRaises(e)) \/ Restart \/ KilledInAdd
    PROVE  Whole'
<1>1. query' = 0 /\ turn' = 1 /\ pc' \in {"ready", "observing", "failed"}
  BY DEF ResetCase, ResetRaises, StartCase, Restart, KilledInAdd, NewClient
<1>2. WholeCase' BY <1>1 DEF WholeCase
<1>3. 1 .. turn' - 1 = {} /\ ~(turn' > 1) BY <1>1
<1>4. Observed' BY <1>1, <1>3 DEF Observed
<1> QED BY <1>2, <1>4 DEF Whole

LEMMA InitWhole == Init => Whole
BY DEF Init, Whole, Observed, WholeCase, Active

LEMMA NextWhole == Origin /\ Typed /\ Ledger /\ Whole /\ [Next]_vars => Whole'
<1> SUFFICES ASSUME Origin, Typed, Ledger, Whole, [Next]_vars PROVE Whole' OBVIOUS
<1>1. ASSUME UNCHANGED <<agentVars, form, pending, store, acked, answer, faulted>> PROVE Whole'
  BY <1>1 DEF agentVars, Whole, Observed, WholeCase, PassTurn, Stored, Home, me, Active
<1>2. CASE Ingest \/ UNCHANGED vars
  BY <1>1, <1>2 DEF Ingest, vars, callVars, storeVars, heldVars, faultVars
<1> QED BY <1>2, AddStepWhole, SearchStepWhole, FreshWhole DEF Next, AgentStep

(* Without a failed call every client, whatever it buffers, defers or keys,  *)
(* and whatever earlier client objects left behind, answers from the whole   *)
(* case.                                                                     *)
THEOREM SpecWholeCase == Spec => []WholeCase
<1>1. Init => Origin /\ Typed /\ Ledger /\ Whole BY InitOrigin, InitTyped, InitLedger, InitWhole
<1>2. Origin /\ Typed /\ Ledger /\ Whole /\ [Next]_vars => (Origin /\ Typed /\ Ledger /\ Whole)'
  BY NextOrigin, NextTyped, NextLedger, NextWhole
<1>3. Whole => WholeCase BY DEF Whole
<1> QED BY <1>1, <1>2, <1>3, PTL DEF Spec
=============================================================================
