----------------------------- MODULE MemoryAdapter -----------------------------
(***************************************************************************)
(* ExternalMemoryAgent (amb/benchmark/integrations/base.py) driving one    *)
(* provider client through the cases of a run: reset, one add per observed *)
(* turn, then the queries, with provider calls that fail before or after   *)
(* they took effect, the retry loop of the client around a call, the       *)
(* adapter's next call form after a TypeError, and attempts that end and   *)
(* are started again with a new client object.                             *)
(*                                                                         *)
(* A search answers with everything its name space holds: what a provider  *)
(* ranks lower is there to be found.                                       *)
(* Simplification: no TypeError is raised by reset.                        *)
(***************************************************************************)
EXTENDS ProviderClients

CONSTANTS
    Clients,       \* the provider clients a run may use
    Profile,       \* their profiles (ClientProfile, or any other)
    NumCases,      \* cases of the run, in order
    NumTurns,      \* turns observed in a case
    NumQueries,    \* queries of a case
    MaxLives,      \* bound: client objects (attempts, invocations) of a run
    MaxGhosts,     \* bound: calls of the run that take effect although they fail
    MaxTypeErrors  \* bound: calls of the run whose first form raises TypeError

Cases == 1 .. NumCases

Spaces == {<<"user", c>> : c \in Cases} \cup {<<"default", 0>>, <<"shared", 0>>}
              \cup {<<"object", n>> : n \in 0 .. MaxLives * NumCases}

\* a turn knows its case and the pass over the case (the reset) that observed it
Turns   == [case : Cases, pass : 1 .. MaxLives * NumCases, nr : 1 .. NumTurns]
Entries == [space : Spaces, turn : Turns]

Operations == {"reset", "add", "search"}

Profiles == {p \in [space : {"user", "object", "shared"}, unscoped : {"refuse", "own", "last", "default"},
                     reset : {"keep", "new", "wipe"}, durable : BOOLEAN, atomic : BOOLEAN,
                     fatal : BOOLEAN, retry : [tries : 1 .. MaxTries, on : SUBSET Failures],
                     mute : SUBSET Operations, calls : SUBSET Operations,
                     buffer : {"none", "keep", "drop"}, settles : BOOLEAN] :
                /\ (p.space = "object") <=> (p.reset = "new")
                /\ p.settles => p.buffer = "none"}

ASSUME AdapterAssumption ==
    /\ NumCases \in Nat \ {0} /\ NumTurns \in Nat \ {0} /\ NumQueries \in Nat \ {0}
    /\ MaxLives \in Nat \ {0} /\ MaxGhosts \in Nat /\ MaxTypeErrors \in Nat
    /\ \A c \in Clients : Profile[c] \in Profiles

VARIABLES
    client,     \* the provider client of the run
    life,       \* client objects created so far
    pc,         \* what the agent is doing
    case,       \* case under way, 0 before the first
    pass,       \* resets so far: the pass over a case that is under way
    turn,       \* next turn of the case
    query,      \* queries of the case that were answered or recorded as failed
    form,       \* call form in use
    attempt,    \* attempts of the retry loop for this form, the current one included
    pending,    \* turns the client object buffers
    store,      \* what the provider holds
    twice,      \* entries it holds more than once
    unsettled,  \* entries accepted and not searchable yet
    acked,      \* turns of the pass the agent counts as written
    answer,     \* turns the last search could find
    ghosts,     \* calls that took effect although they failed
    typeErrors, \* calls whose first form raised TypeError
    faulted     \* some call of this client object failed

agentVars == <<client, life, pc, case, pass, turn, query>>
callVars  == <<form, attempt>>
heldVars == <<store, twice, unsettled, ghosts>>
storeVars == <<pending, heldVars>>
faultVars == <<faulted, typeErrors>>
vars == <<agentVars, callVars, storeVars, acked, answer, faultVars>>

me   == Profile[client]
Turn == [case |-> case, pass |-> pass, nr |-> turn]

-----------------------------------------------------------------------------
(* Name spaces.                                                               *)

\* add: forms 1 and 2 pass user_id, 3 only metadata, 4 and 5 only the content;
\* search: forms 1 to 4 pass user_id, 5 is no call of any client, 6 only the query
UserSpaces(scoped, withCase) ==
    IF scoped \/ me.unscoped = "own" \/ (me.unscoped = "default" /\ withCase)
    THEN {<<"user", case>>}
    ELSE CASE me.unscoped = "refuse"  -> {}
           [] me.unscoped = "last"    -> {<<"user", case>>, <<"default", 0>>}
           [] me.unscoped = "default" -> {<<"default", 0>>}

\* mutant: a workspace is built once per client object, not per reset
CallSpacesPerObject(scoped, withCase) ==
    CASE me.space = "user"   -> UserSpaces(scoped, withCase)
      [] me.space = "object" -> {<<"object", life>>}
      [] me.space = "shared" -> {<<"shared", 0>>}

CallSpaces(scoped, withCase) ==
    CASE me.space = "user"   -> UserSpaces(scoped, withCase)
      [] me.space = "object" -> {<<"object", pass>>}
      [] me.space = "shared" -> {<<"shared", 0>>}

AddSpaces == CallSpaces(form <= 2, form = 3)

SearchSpaces == IF form = 6 /\ me.space = "user" /\ me.unscoped = "default"
                THEN {}
                ELSE CallSpaces(form <= 4, FALSE)

\* what a reset for case c leaves
Kept(entries, c) ==
    IF me.reset = "wipe" THEN {e \in entries : e.space \notin {<<"user", c>>, <<"shared", 0>>}} ELSE entries

-----------------------------------------------------------------------------
(* Effects on the store.                                                      *)

Put(entries) ==
    /\ store' = store \cup entries
    /\ twice' = twice \cup (entries \cap store)
    /\ unsettled' = IF me.settles THEN unsettled \cup entries ELSE unsettled

\* a call that fails may have taken effect all the same
PutUnseen(entries) == ghosts < MaxGhosts /\ ghosts' = ghosts + 1 /\ Put(entries)

PutOrNot(entries) == (~me.atomic /\ PutUnseen(entries)) \/ UNCHANGED heldVars

Fault(e) ==
    /\ e = WrongType /\ form = 1 => typeErrors < MaxTypeErrors
    /\ typeErrors' = IF e = WrongType /\ form = 1 THEN typeErrors + 1 ELSE typeErrors
    /\ faulted' = TRUE

\* mutant: one attempt too many
MayRetryOnceMore(e) == e \in me.retry.on /\ attempt <= me.retry.tries

MayRetry(e)  == e \in me.retry.on /\ attempt < me.retry.tries
Raises(op, e) == ~MayRetry(e) /\ op \notin me.mute

\* _call_first goes on with the next form after a TypeError, and after no other
TriesNextForm(e) == e = WrongType /\ ~me.fatal

FirstCall   == form' = 1 /\ attempt' = 1
SameForm    == form' = form /\ attempt' = attempt + 1
OtherForm(f) == form' = f /\ attempt' = 1

-----------------------------------------------------------------------------
(* Reset.                                                                     *)

Init ==
    /\ client \in Clients
    /\ life = 1 /\ pc = "ready" /\ case = 0 /\ pass = 0 /\ turn = 1 /\ query = 0
    /\ form = 1 /\ attempt = 1
    /\ pending = {} /\ store = {} /\ twice = {} /\ unsettled = {} /\ ghosts = 0
    /\ acked = {} /\ answer = {}
    /\ faulted = FALSE /\ typeErrors = 0

StartCase ==
    /\ pc = "ready" /\ case < NumCases
    /\ case' = case + 1 /\ pass' = pass + 1 /\ turn' = 1 /\ query' = 0
    /\ pending' = {} /\ acked' = {} /\ answer' = {}
    /\ UNCHANGED <<client, life, callVars>>

ResetCase ==
    /\ StartCase
    /\ pc' = "observing"
    /\ store' = Kept(store, case + 1)
    /\ twice' = Kept(twice, case + 1)
    /\ unsettled' = Kept(unsettled, case + 1)
    /\ UNCHANGED <<ghosts, faultVars>>

ResetRaises(e) ==
    /\ "reset" \in me.calls /\ Raises("reset", e) /\ ~TriesNextForm(e)
    /\ StartCase
    /\ Fault(e)
    /\ pc' = "failed"
    /\ UNCHANGED heldVars

-----------------------------------------------------------------------------
(* Observe.                                                                   *)

Written ==
    /\ acked' = acked \cup {Turn}
    /\ turn' = turn + 1
    /\ pc' = "observing"
    /\ FirstCall

NewEntries(spaces) == [space : spaces, turn : {Turn}]

BufferTurn ==
    /\ pc = "observing" /\ turn <= NumTurns /\ me.buffer # "none"
    /\ pending' = pending \cup {Turn}
    /\ Written
    /\ UNCHANGED <<client, life, case, pass, query, heldVars, answer, faultVars>>

StartAdd ==
    /\ pc = "observing" /\ turn <= NumTurns /\ me.buffer = "none"
    /\ pc' = "adding"
    /\ FirstCall
    /\ UNCHANGED <<client, life, case, pass, turn, query, storeVars, acked, answer, faultVars>>

AddReturns ==
    /\ pc = "adding"
    /\ \E s \in AddSpaces : Put(NewEntries({s}))
    /\ Written
    /\ UNCHANGED <<client, life, case, pass, query, pending, ghosts, answer, faultVars>>

\* what every failed add has in common
AddFaults(e) ==
    /\ pc = "adding" /\ "add" \in me.calls
    /\ \E s \in AddSpaces : PutOrNot(NewEntries({s}))
    /\ Fault(e)
    /\ UNCHANGED <<client, life, case, pass, query, pending, answer>>

AddSwallowed(e) ==
    /\ AddFaults(e) /\ ~MayRetry(e) /\ "add" \in me.mute
    /\ Written

AddRetried(e) ==
    /\ AddFaults(e) /\ MayRetry(e)
    /\ SameForm
    /\ UNCHANGED <<pc, turn, acked>>

AddInNextForm(e) ==
    /\ AddFaults(e) /\ Raises("add", e) /\ TriesNextForm(e) /\ form < 5
    /\ OtherForm(form + 1)
    /\ UNCHANGED <<pc, turn, acked>>

\* mutant: a turn no form could write counts as written
AddGivenUpCounted(e) ==
    /\ AddFaults(e) /\ Raises("add", e) /\ TriesNextForm(e) /\ form = 5
    /\ Written

\* _NO_RESULT: the turn is not counted as written, and nothing is raised
AddGivenUp(e) ==
    /\ AddFaults(e) /\ Raises("add", e) /\ TriesNextForm(e) /\ form = 5
    /\ turn' = turn + 1
    /\ pc' = "observing"
    /\ FirstCall
    /\ UNCHANGED acked

AddRaises(e) ==
    /\ AddFaults(e) /\ Raises("add", e) /\ ~TriesNextForm(e)
    /\ pc' = "failed"
    /\ FirstCall
    /\ UNCHANGED <<turn, acked>>

AddRefused ==
    /\ pc = "adding" /\ AddSpaces = {}
    /\ pc' = "failed"
    /\ FirstCall
    /\ UNCHANGED <<client, life, case, pass, turn, query, storeVars, acked, answer, faultVars>>

-----------------------------------------------------------------------------
(* Answer.                                                                    *)

\* mutant: nothing is waited for
SearchAtOnce ==
    /\ pc = "observing" /\ turn > NumTurns
    /\ pc' = IF pending = {} THEN "searching" ELSE "flushing"
    /\ FirstCall
    /\ UNCHANGED <<client, life, case, pass, turn, query, storeVars, acked, answer, faultVars>>

\* a service that ingests later is waited for once something was acknowledged
StartSearch ==
    /\ pc = "observing" /\ turn > NumTurns
    /\ unsettled' = IF me.settles /\ acked # {} THEN {} ELSE unsettled
    /\ pc' = IF pending = {} THEN "searching" ELSE "flushing"
    /\ FirstCall
    /\ UNCHANGED <<client, life, case, pass, turn, query, pending, store, twice, ghosts, acked, answer, faultVars>>

QueryDone(found) ==
    /\ answer' = found
    /\ query' = query + 1
    /\ pc' = IF query + 1 = NumQueries THEN "ready" ELSE "observing"
    /\ FirstCall
    /\ UNCHANGED <<client, life, case, pass, turn, acked>>

\* mutant: a query whose failure was recorded is asked again
QueryAskedAgain ==
    /\ ~me.fatal
    /\ answer' = {} /\ pc' = "observing"
    /\ FirstCall
    /\ UNCHANGED <<client, life, case, pass, turn, query, acked>>

\* the exception ends the attempt, unless failure_predictions records it for the query
QueryRaises ==
    \/ ~me.fatal /\ QueryDone({})
    \/ pc' = "failed" /\ FirstCall /\ UNCHANGED <<client, life, case, pass, turn, query, acked, answer>>

FlushEntries == [space : CallSpaces(TRUE, TRUE), turn : pending]

\* mutant: a buffer that was written is kept for the next search
FlushReturnsKeepingBuffer ==
    /\ pc = "flushing"
    /\ Put(FlushEntries)
    /\ pc' = "searching"
    /\ UNCHANGED <<client, life, case, pass, turn, query, callVars, pending, ghosts, acked, answer, faultVars>>

FlushReturns ==
    /\ pc = "flushing"
    /\ Put(FlushEntries)
    /\ pending' = {}
    /\ pc' = "searching"
    /\ UNCHANGED <<client, life, case, pass, turn, query, callVars, ghosts, acked, answer, faultVars>>

FlushLost(e) ==
    /\ pc = "flushing" /\ me.buffer = "drop"
    /\ PutOrNot(FlushEntries)
    /\ Fault(e)
    /\ pending' = {}
    /\ pc' = "searching"
    /\ UNCHANGED <<client, life, case, pass, turn, query, callVars, acked, answer>>

FlushRaises(e) ==
    /\ pc = "flushing" /\ me.buffer = "keep" /\ ~TriesNextForm(e)
    /\ PutOrNot(FlushEntries)
    /\ Fault(e)
    /\ QueryRaises
    /\ UNCHANGED pending

Found(space) == {e.turn : e \in {x \in store \ unsettled : x.space = space}}

SearchReturns ==
    /\ pc = "searching"
    /\ \E s \in SearchSpaces : QueryDone(Found(s))
    /\ UNCHANGED <<storeVars, faultVars>>

SearchFaults(e) ==
    /\ pc = "searching" /\ "search" \in me.calls
    /\ Fault(e)
    /\ UNCHANGED storeVars

SearchSwallowed(e) ==
    /\ SearchFaults(e) /\ ~MayRetry(e) /\ "search" \in me.mute
    /\ QueryDone({})

SearchRetried(e) ==
    /\ SearchFaults(e) /\ MayRetry(e)
    /\ SameForm
    /\ UNCHANGED <<agentVars, acked, answer>>

\* form 5 passes a second positional argument, which every client refuses
SearchInNextForm(e) ==
    /\ SearchFaults(e) /\ Raises("search", e) /\ TriesNextForm(e) /\ form < 6
    /\ OtherForm(IF form = 4 THEN 6 ELSE form + 1)
    /\ UNCHANGED <<agentVars, acked, answer>>

SearchGivenUp(e) ==
    /\ SearchFaults(e) /\ Raises("search", e) /\ TriesNextForm(e) /\ form = 6
    /\ QueryDone({})

SearchRaises(e) ==
    /\ SearchFaults(e) /\ Raises("search", e) /\ ~TriesNextForm(e)
    /\ QueryRaises

SearchRefused ==
    /\ pc = "searching" /\ SearchSpaces = {}
    /\ QueryRaises
    /\ UNCHANGED <<storeVars, faultVars>>

-----------------------------------------------------------------------------
(* A new attempt or invocation builds a new client object, after a failure or *)
(* wherever the process was killed, and starts over or at the first case that *)
(* has no result.                                                             *)

CasesDone == IF pc = "ready" THEN case ELSE case - 1

NewClient ==
    /\ life < MaxLives
    /\ life' = life + 1
    /\ pc' = "ready"
    /\ case' \in {0, CasesDone}
    /\ turn' = 1 /\ query' = 0
    /\ FirstCall
    /\ pending' = {} /\ acked' = {} /\ answer' = {}
    /\ faulted' = FALSE
    /\ UNCHANGED <<client, pass, typeErrors>>

\* mutant: the storage of the last client object is opened again
RestartOnOldStorage == NewClient /\ UNCHANGED heldVars

Restart ==
    /\ NewClient
    /\ IF me.durable THEN UNCHANGED heldVars
                     ELSE store' = {} /\ twice' = {} /\ unsettled' = {} /\ UNCHANGED ghosts

\* killed while an add was under way that the provider still carries out
KilledInAdd ==
    /\ pc = "adding" /\ me.durable
    /\ \E s \in AddSpaces : PutUnseen(NewEntries({s}))
    /\ NewClient

\* the service makes an accepted entry searchable
Ingest ==
    /\ \E e \in unsettled : unsettled' = unsettled \ {e}
    /\ UNCHANGED <<agentVars, callVars, pending, store, twice, ghosts, acked, answer, faultVars>>

AddStep ==
    \/ BufferTurn \/ StartAdd \/ AddReturns \/ AddRefused
    \/ \E e \in Failures : \/ AddSwallowed(e) \/ AddRetried(e) \/ AddInNextForm(e)
                            \/ AddGivenUp(e) \/ AddRaises(e)

SearchStep ==
    \/ StartSearch \/ FlushReturns \/ SearchReturns \/ SearchRefused
    \/ \E e \in Failures : \/ FlushLost(e) \/ FlushRaises(e)
                            \/ SearchSwallowed(e) \/ SearchRetried(e) \/ SearchInNextForm(e)
                            \/ SearchGivenUp(e) \/ SearchRaises(e)

AgentStep == ResetCase \/ (\E e \in Failures : ResetRaises(e)) \/ AddStep \/ SearchStep

Next == AgentStep \/ Restart \/ KilledInAdd \/ Ingest

Spec == Init /\ [][Next]_vars

(* A provider call returns or raises, and the agent goes on; nobody has to    *)
(* start a failed run again.                                                  *)
FairSpec == Spec /\ WF_vars(AgentStep)

-----------------------------------------------------------------------------
(* Types: in particular no attempt beyond the retry limit of the client, and  *)
(* no call form the adapter does not have.                                    *)
TypeOK ==
    /\ client \in Clients
    /\ life \in 1 .. MaxLives
    /\ pc \in {"ready", "observing", "adding", "flushing", "searching", "failed"}
    /\ case \in 0 .. NumCases
    /\ pass \in 0 .. life * NumCases
    /\ turn \in 1 .. NumTurns + 1
    /\ query \in 0 .. NumQueries
    /\ form \in 1 .. 6
    /\ attempt \in 1 .. me.retry.tries
    /\ pending \subseteq Turns /\ acked \subseteq Turns /\ answer \subseteq Turns
    /\ store \subseteq Entries /\ twice \subseteq store /\ unsettled \subseteq store
    /\ ghosts \in 0 .. MaxGhosts /\ typeErrors \in 0 .. MaxTypeErrors /\ faulted \in BOOLEAN

(* A client whose calls cannot reach a name space of another case.  Memobase  *)
(* is not one: without user_id it may use a default user ("last").            *)
Isolating(p) == \/ p.space = "user" /\ p.unscoped # "last"
                \/ p.space = "object"
                \/ p.space = "shared" /\ p.reset = "wipe"

(* Whatever fails, is retried in another form or runs again, an isolating     *)
(* client finds only turns of the case it is asked about.                     *)
CaseIsolation == Isolating(me) => \A t \in answer : t.case = case

(* A client that also starts from empty storage finds only what this pass     *)
(* over the case observed, also after a killed or failed attempt.             *)
FreshPass ==
    Isolating(me) /\ (me.reset # "keep" \/ ~me.durable) => \A t \in answer : t.pass = pass

(* A client that swallows no failed add and never writes beyond the space it  *)
(* searches answers with nothing or with every turn the agent counts as       *)
(* written: an answer never misses some of them.                              *)
Lossless(p) ==
    "add" \notin p.mute /\ p.buffer # "drop" /\ (p.space = "user" => p.unscoped \in {"own", "refuse"})

NothingLost == Lossless(me) => answer = {} \/ acked \subseteq answer

(* Without a failed call every client, whatever it buffers or defers, answers *)
(* from the whole case.                                                       *)
WholeCase ==
    query > 0 /\ ~faulted => {t \in Turns : t.case = case /\ t.pass = pass} \subseteq answer

(* A provider holds a turn a second time only because a failed call had taken *)
(* effect: what the adapter does by itself, retries, other forms, one flush   *)
(* for many searches and restarts, adds no copy.  Every such call is good for *)
(* one copy at most, unless it wrote a buffer.                                *)
CopiesExplained ==
    /\ ghosts = 0 => twice = {}
    /\ me.buffer = "none" => Cardinality(twice) <= ghosts

(* Every client object ends: the run is over, or the attempt failed.  The     *)
(* retry loops, the forms and the two inside each other are bounded.          *)
Ends == <>[](pc = "failed" \/ (pc = "ready" /\ case = NumCases))
=============================================================================
