------------------------------ MODULE TraceResume ------------------------------
(***************************************************************************)
(* The run-release-agent command with --resume and framework traces        *)
(* (cmd_run_release_agent of interfaces/commands/evaluation.py).  Two files *)
(* are checkpointed at different moments: a trace row is appended before    *)
(* its prediction is recorded and flushed every flushEvery rows, a          *)
(* prediction is flushed at once.  The next invocation has to find the part *)
(* of the trace file it can keep.  The loop over the cases is the one of    *)
(* ReleaseRun; here a prediction is reduced to its query id, and the two    *)
(* writes of an answer are two steps.                                       *)
(***************************************************************************)
EXTENDS Integers, Sequences, SequencesExt, FiniteSetsExt

CONSTANTS
    NumCases, NumQueries,
    LastQuery,    \* the last query of each case, LastQuery[0] = 0
    Scopes,       \* sets of cases --case-ids-file and --domains may select
    FlushChoices, \* values of AMB_FRAMEWORK_TRACE_CHECKPOINT_EVERY, at least 1
    MaxRuns       \* bound: invocations in a behaviour

Cases   == 1..NumCases
Queries == 1..NumQueries

ASSUME TraceResumeAssumption ==
    /\ NumCases \in Nat \ {0} /\ NumQueries \in Nat \ {0}
    /\ LastQuery \in [0..NumCases -> 0..NumQueries]
    /\ LastQuery[0] = 0 /\ LastQuery[NumCases] = NumQueries
    /\ \A c, d \in 0..NumCases : c < d => LastQuery[c] < LastQuery[d]
    /\ Scopes # {} /\ Scopes \subseteq (SUBSET Cases) \ {{}}
    /\ FlushChoices # {} /\ FlushChoices \subseteq Nat \ {0}
    /\ MaxRuns \in Nat \ {0}

VARIABLES
    predFile,   \* the predictions file: its state and the query ids it lists
    traceFile,  \* the framework trace file, likewise
    pc,
    scope,      \* the selected cases
    flushEvery, \* the flush interval, the same for all invocations
    run,        \* number of the invocation
    held,       \* the keys of prediction_by_query
    traces,     \* framework_traces, as query ids
    emit,       \* emit_resume_traces
    case,       \* the case the loop is at, 0 before the first
    query       \* the last query of that case whose trace row was made

options == <<scope, flushEvery, run>>
vars == <<predFile, traceFile, pc, scope, flushEvery, run, held, traces, emit,
          case, query>>

Stopped == {"idle", "succeeded", "raised", "refused", "rejected", "crashed"}
Running == {"preload", "load", "case", "reemit", "query", "record", "save",
            "savingPredictions", "validate", "savingTraces"}

-----------------------------------------------------------------------------
QueriesOf(c) == (LastQuery[c - 1] + 1)..LastQuery[c]

QueriesIn(cases) == UNION {QueriesOf(c) : c \in cases}

\* the elements of a set of queries in release order
InOrder(S) ==
    CHOOSE s \in [1..Cardinality(S) -> S] :
        \A i, j \in 1..Cardinality(S) : i < j => s[i] < s[j]

QueryOrder == InOrder(QueriesIn(scope))

\* how many queries of the selection there are up to the end of each case
Boundaries == {Len(InOrder(QueriesIn({d \in scope : d <= c}))) : c \in scope}

AtMost(n) == Max({b \in Boundaries : b <= n} \cup {0})

CommonPrefix(s, t) ==
    Max({n \in 0..Min({Len(s), Len(t)}) : SubSeq(s, 1, n) = SubSeq(t, 1, n)})

\* mutant: keep every row the two files agree on
SafeCountAnyRow(ids, rows) == CommonPrefix(ids, rows)

\* mutant: keep the complete cases even if a complete case lacks a row
SafeCountShort(ids, rows) == AtMost(CommonPrefix(ids, rows))

\* The trace rows a resumed run may preload: those of the complete cases, and
\* only if no complete case lacks one.  ids is a prefix of QueryOrder.
SafeCount(ids, rows) ==
    LET safe == AtMost(CommonPrefix(ids, rows))
    IN  IF safe = AtMost(Len(ids)) THEN safe ELSE 0

Absent  == [state |-> "absent", ids |-> <<>>]
Torn    == [state |-> "torn",   ids |-> <<>>]
Holding(ids) == [state |-> "whole", ids |-> ids]

\* mutant: rows are flushed by the final save only
NoFlush(rows) == UNCHANGED traceFile

\* _record_framework_trace: append, and flush every FlushEvery rows
Flush(rows) ==
    traceFile' = IF Len(rows) % flushEvery = 0 THEN Holding(rows) ELSE traceFile

\* mutant: the end of a case is noticed one query late
PastLastQuery == query' > LastQuery[case]

\* the query just handled is the last of its case
AtLastQuery == query' = LastQuery[case]

Stop(outcome) ==
    /\ pc' = outcome
    /\ held' = {} /\ traces' = <<>> /\ emit' = TRUE /\ case' = 0 /\ query' = 0
    /\ UNCHANGED options

NextCase(c) == c \in scope /\ case < c /\ \A d \in scope : case < d => c <= d

-----------------------------------------------------------------------------
Init ==
    /\ predFile = Absent /\ traceFile = Absent
    /\ pc = "idle" /\ scope \in Scopes /\ flushEvery \in FlushChoices /\ run = 0
    /\ held = {} /\ traces = <<>> /\ emit = TRUE /\ case = 0 /\ query = 0

StartRun(s) ==
    /\ pc \in Stopped /\ run < MaxRuns
    /\ pc' = "preload" /\ scope' = s /\ run' = run + 1
    /\ UNCHANGED <<predFile, traceFile, flushEvery, held, traces, emit, case, query>>

NothingToPreload ==
    /\ pc = "preload"
    /\ \/ predFile.state = "absent"
       \/ predFile.state = "whole" /\ predFile.ids = <<>> /\ traceFile.state = "absent"
    /\ pc' = "load"
    /\ UNCHANGED <<predFile, traceFile, options, held, traces, emit, case, query>>

\* predictions without a trace file, or not a prefix of the selected order
RefuseResume ==
    /\ pc = "preload" /\ predFile.state = "whole"
    /\ \/ predFile.ids # <<>> /\ traceFile.state = "absent"
       \/ traceFile.state = "whole" /\ ~IsPrefix(predFile.ids, QueryOrder)
    /\ Stop("refused")
    /\ UNCHANGED <<predFile, traceFile>>

\* either file cannot be parsed
UnreadableFile ==
    /\ pc = "preload"
    /\ \/ predFile.state = "torn"
       \/ predFile.state = "whole" /\ traceFile.state = "torn"
    /\ Stop("raised")
    /\ UNCHANGED <<predFile, traceFile>>

Preload ==
    /\ pc = "preload" /\ predFile.state = "whole" /\ traceFile.state = "whole"
    /\ IsPrefix(predFile.ids, QueryOrder)
    /\ LET n == SafeCount(predFile.ids, traceFile.ids) IN
         /\ traces' = SubSeq(traceFile.ids, 1, n)
         /\ emit' = (n = 0)
         /\ traceFile' = IF n = Len(traceFile.ids) THEN traceFile ELSE Holding(traces')
    /\ pc' = "load"
    /\ UNCHANGED <<predFile, options, held, case, query>>

LoadCheckpoint ==
    /\ pc = "load"
    /\ held' = ToSet(predFile.ids)
    /\ pc' = "case"
    /\ UNCHANGED <<predFile, traceFile, options, traces, emit, case, query>>

SkipCase(c) ==
    /\ pc = "case" /\ NextCase(c) /\ QueriesOf(c) \subseteq held
    /\ case' = c /\ query' = LastQuery[c - 1]
    /\ pc' = IF emit THEN "reemit" ELSE "case"
    /\ UNCHANGED <<predFile, traceFile, options, held, traces, emit>>

ReemitRow ==
    /\ pc = "reemit"
    /\ query' = query + 1
    /\ traces' = Append(traces, query')
    /\ Flush(traces')
    /\ pc' = IF AtLastQuery THEN "case" ELSE "reemit"
    /\ UNCHANGED <<predFile, options, held, emit, case>>

BeginCase(c) ==
    /\ pc = "case" /\ NextCase(c) /\ ~(QueriesOf(c) \subseteq held)
    /\ held' = held \ QueriesOf(c)
    /\ case' = c /\ query' = LastQuery[c - 1]
    /\ pc' = "query"
    /\ UNCHANGED <<predFile, traceFile, options, traces, emit>>

\* answer_or_act returned: its trace row comes first ...
TraceAnswer ==
    /\ pc = "query"
    /\ query' = query + 1
    /\ traces' = Append(traces, query')
    /\ Flush(traces')
    /\ pc' = "record"
    /\ UNCHANGED <<predFile, options, held, emit, case>>

\* ... then its prediction, checkpointed with all that were seen before it
RecordAnswer ==
    /\ pc = "record"
    /\ held' = held \cup {query}
    /\ predFile' = Holding(InOrder(held' \cap QueriesIn({c \in scope : c <= case})))
    /\ UNCHANGED <<traceFile, options, traces, emit, case, query>>
    /\ pc' = IF AtLastQuery THEN "case" ELSE "query"

\* the agent raises, or its traced answer is refused by _prediction_from_response
AgentRaises ==
    /\ pc \in {"query", "record"}
    /\ Stop("raised")
    /\ UNCHANGED <<predFile, traceFile>>

FinishLoop ==
    /\ pc = "case" /\ \A c \in scope : c <= case
    /\ pc' = "save"
    /\ UNCHANGED <<predFile, traceFile, options, held, traces, emit, case, query>>

\* write_json empties the file before it writes it
OpenPredictions ==
    /\ pc = "save" /\ pc' = "savingPredictions" /\ predFile' = Torn
    /\ UNCHANGED <<traceFile, options, held, traces, emit, case, query>>

WritePredictions ==
    /\ pc = "savingPredictions" /\ pc' = "validate"
    /\ predFile' = Holding(InOrder(held \cap QueriesIn(scope)))
    /\ UNCHANGED <<traceFile, options, held, traces, emit, case, query>>

\* the artifact validation finds the wrong number of rows, or an agent's trace
\* in a row that breaks the contracts; the predictions are saved by then
RejectTraces ==
    /\ pc = "validate"
    /\ Stop("rejected")
    /\ UNCHANGED <<predFile, traceFile>>

OpenTraces ==
    /\ pc = "validate" /\ Len(traces) = Len(QueryOrder)
    /\ pc' = "savingTraces" /\ traceFile' = Torn
    /\ UNCHANGED <<predFile, options, held, traces, emit, case, query>>

WriteTraces ==
    /\ pc = "savingTraces" /\ traceFile' = Holding(traces)
    /\ Stop("succeeded")
    /\ UNCHANGED predFile

Crash ==
    /\ pc \in Running
    /\ Stop("crashed")
    /\ UNCHANGED <<predFile, traceFile>>

Next ==
    \/ \E s \in Scopes : StartRun(s)
    \/ NothingToPreload \/ RefuseResume \/ UnreadableFile \/ Preload
    \/ LoadCheckpoint
    \/ \E c \in Cases : SkipCase(c) \/ BeginCase(c)
    \/ ReemitRow \/ TraceAnswer \/ RecordAnswer \/ AgentRaises
    \/ FinishLoop \/ OpenPredictions \/ WritePredictions
    \/ RejectTraces \/ OpenTraces \/ WriteTraces
    \/ Crash

Spec == Init /\ [][Next]_vars

-----------------------------------------------------------------------------
File == [state : {"absent", "whole", "torn"}, ids : Seq(Queries)]

TypeOK ==
    /\ predFile \in File /\ traceFile \in File
    /\ pc \in Stopped \cup Running /\ scope \in Scopes
    /\ flushEvery \in FlushChoices /\ run \in 0..MaxRuns
    /\ held \subseteq Queries /\ traces \in Seq(Queries) /\ emit \in BOOLEAN
    /\ case \in 0..NumCases /\ query \in 0..NumQueries

StrictlyAscending(s) == \A i, j \in 1..Len(s) : i < j => s[i] < s[j]

\* However the two files were left by the runs before, no query gets a second
\* trace row, in memory or on disk, and the rows stay in release order.
NoDuplicateRows == StrictlyAscending(traces) /\ StrictlyAscending(traceFile.ids)

\* A run that gets to its end has a trace row for every prediction it returns:
\* preloaded, re-emitted and new rows add up, so its traces are never rejected.
RowsMatchResult ==
    pc \in {"save", "savingPredictions", "validate", "savingTraces"} =>
        traces = QueryOrder /\ ToSet(QueryOrder) \subseteq held

\* With every row flushed, the trace file holds the rows of every case that is
\* complete in the predictions file, so no later run has to rebuild one from
\* the predictions, which keep less than the trace did.
CompleteCasesTraced ==
    flushEvery = 1 /\ predFile.state = "whole" /\ traceFile.state # "torn" =>
        \A c \in Cases : QueriesOf(c) \subseteq ToSet(predFile.ids) =>
                           QueriesOf(c) \subseteq ToSet(traceFile.ids)

=============================================================================
