------------------------------ MODULE ReleaseRun ------------------------------
(***************************************************************************)
(* One release-split experiment: the loop of run_release_split_agent over  *)
(* the cases of a split, the fresh-agent retries around it, the prediction *)
(* checkpoint both share, and the save and packaging that follow           *)
(* (release/evaluation_artifacts/evaluation.py, evaluation/core/runner.py).*)
(* A behaviour is a series of invocations of the experiment on one output  *)
(* directory.  An invocation is a process: it can crash after any step,    *)
(* and then only the files (file*, live) are left for the next one.        *)
(*                                                                         *)
(* The selection of cases and failure_predictions are parameters of        *)
(* run_release_split_agent_with_retries; the experiment that saves and     *)
(* packages its result leaves them at "all" and FALSE.  The single-attempt *)
(* command run-release-agent takes both, saves the same way and refuses    *)
(* traces the same way: it is MaxAttempts = 1.                             *)
(*                                                                         *)
(* Queries are numbered in release order, so a list of predictions in      *)
(* query order is a map from queries to predictions.  A prediction is      *)
(* reduced to who produced it and how it went.                             *)
(***************************************************************************)
EXTENDS Integers, Sequences, FiniteSets

CONSTANTS
    NumCases,       \* number of cases of the split
    NumQueries,     \* number of queries of the split
    LastQuery,      \* the last query of each case, 0 for "case 0": the queries are
                    \* numbered in release order, which keeps a case together
    ShardOf,        \* the benchmark artifact (shard) each case is stored in
    Systems,        \* system ids an invocation may be given
    Scopes,         \* sets of cases an invocation may select
    ResumeChoices,  \* the values of the resume option that are used
    FailureChoices, \* the values of failure_predictions that are used
    TraceChoices,   \* whether framework traces are collected
    MaxAttempts,    \* max_run_attempts
    MaxRuns,        \* bound: invocations in a behaviour
    MaxErrors,      \* bound: agent faults in a behaviour
    NoPrediction    \* stands for "no prediction under this query id"

Cases    == 1..NumCases
Queries  == 1..NumQueries
Runs     == 1..MaxRuns
Attempts == 1..MaxAttempts

Prediction == [system : Systems, run : Runs, attempt : Attempts,
               status : {"answered", "failed", "invalid"}]
PredictionMap == [Queries -> Prediction \cup {NoPrediction}]

Options == [system : Systems, scope : Scopes, resume : ResumeChoices,
            failures : FailureChoices, traced : TraceChoices]

ASSUME ReleaseRunAssumption ==
    /\ NumCases \in Nat \ {0}
    /\ NumQueries \in Nat \ {0}
    /\ LastQuery \in [0..NumCases -> 0..NumQueries]
    /\ LastQuery[0] = 0 /\ LastQuery[NumCases] = NumQueries
    /\ \A c, d \in 0..NumCases : c < d => LastQuery[c] <= LastQuery[d]
    /\ ShardOf \in [Cases -> Nat]
    /\ \A c, d \in Cases : c < d => ShardOf[c] <= ShardOf[d]
    /\ Systems # {}
    /\ Scopes # {} /\ Scopes \subseteq (SUBSET Cases) \ {{}}
    /\ ResumeChoices # {} /\ ResumeChoices \subseteq BOOLEAN
    /\ FailureChoices # {} /\ FailureChoices \subseteq BOOLEAN
    /\ TraceChoices # {} /\ TraceChoices \subseteq BOOLEAN
    /\ MaxAttempts \in Nat \ {0}
    /\ MaxRuns \in Nat \ {0}
    /\ MaxErrors \in Nat
    /\ NoPrediction \notin Prediction

VARIABLES
    \* what a crash leaves behind
    fileState,  \* predictions.json: "absent", "whole", or "torn" (cannot be parsed)
    fileSystem, \* the system_id in its header
    file,       \* its predictions
    live,       \* run_state.json, reduced to its counters
    \* the running process
    pc,         \* where the invocation is
    opts,       \* its options
    run,        \* which invocation it is
    attempt,    \* the attempt of run_release_split_agent_with_retries
    preds,      \* prediction_by_query
    case,       \* the last case taken up by the loop, 0 before the first
    query,      \* the last query answered in that case, 0 before the first
    completed,  \* completed_cases
    traces,     \* framework_traces, as the sequence of their query ids
    \* the environment
    errors      \* agent faults so far

durable == <<fileState, fileSystem, file, live>>
vars == <<fileState, fileSystem, file, live, pc, opts, run, attempt, preds,
          case, query, completed, traces, errors>>

Stopped == {"idle", "succeeded", "raised", "rejected", "crashed"}
Running == {"load", "case", "observe", "query", "answered", "ended", "shard",
            "save", "saving", "package"}

-----------------------------------------------------------------------------
Empty == [q \in Queries |-> NoPrediction]

QueriesOf(c) == (LastQuery[c - 1] + 1)..LastQuery[c]

\* query_order: the ids of the cases the loop has taken up
Seen == UNION {QueriesOf(c) : c \in {d \in opts.scope : d <= case}}

\* prediction_by_query in query_order: what a checkpoint holds, and what the
\* loop returns when it has seen every case
Ordered(p) == [q \in Queries |-> IF q \in Seen THEN p[q] ELSE NoPrediction]

Count(p) == Cardinality({q \in Queries : p[q] # NoPrediction})

\* mutant: a case with any prediction counts as complete
CaseStarted(p, c) == \E q \in QueriesOf(c) : p[q] # NoPrediction

CaseComplete(p, c) ==
    /\ QueriesOf(c) # {}
    /\ \A q \in QueriesOf(c) : p[q] # NoPrediction

\* the experiment passes a checkpoint path when it resumes or may retry
Checkpointing == opts.resume \/ MaxAttempts > 1

\* mutant: only a retry loads the checkpoint
RetryResuming == attempt > 1

\* active_resume_path is None on a first attempt without resume
Resuming == opts.resume \/ attempt > 1

\* mutant: the system_id in the header is not compared
LoadableByAnySystem == fileState = "whole"

Loadable == fileState = "whole" /\ fileSystem = opts.system

\* mutant: the cases are taken in any ascending order
SomeLaterCase(c) == c \in opts.scope /\ case < c

NextCase(c) ==
    /\ c \in opts.scope /\ case < c
    /\ \A d \in opts.scope : case < d => c <= d

\* mutant: a partial case keeps what it had
DropNothing(p, c) == p

DropCase(p, c) ==
    [q \in Queries |-> IF q \in QueriesOf(c) THEN NoPrediction ELSE p[q]]

LastOfShard(c) == \A d \in opts.scope : c < d => ShardOf[d] # ShardOf[c]

AfterCase(c) == IF LastOfShard(c) THEN "shard" ELSE "case"

\* mutant: a checkpoint leaves on disk what the loop has not reached
MergedCheckpoint(p) ==
    IF Checkpointing
    THEN /\ fileState' = "whole"
         /\ fileSystem' = opts.system
         /\ file' = [q \in Queries |->
                       IF q \in Seen \/ fileSystem # opts.system THEN Ordered(p)[q] ELSE file[q]]
    ELSE UNCHANGED <<fileState, fileSystem, file>>

Checkpoint(p) ==
    IF Checkpointing
    THEN /\ fileState' = "whole"
         /\ fileSystem' = opts.system
         /\ file' = Ordered(p)
    ELSE UNCHANGED <<fileState, fileSystem, file>>

WriteLive(status, cases, p) ==
    live' = [status |-> status, completed |-> cases, predictions |-> Count(p)]

\* mutant: run_state.json is written first
ReportThenKeep(first, cases, p) ==
    IF first
    THEN WriteLive("running", cases, p) /\ UNCHANGED <<fileState, fileSystem, file>>
    ELSE Checkpoint(p) /\ UNCHANGED live

\* An answer, and the end of a case, write two files one after the other: the
\* checkpoint first, then run_state.json.  The process can die in between.
KeepThenReport(first, cases, p) ==
    IF first
    THEN Checkpoint(p) /\ UNCHANGED live
    ELSE WriteLive("running", cases, p) /\ UNCHANGED <<fileState, fileSystem, file>>

Trace(q) == traces' = IF opts.traced THEN Append(traces, q) ELSE traces

\* mutant: a skipped case leaves no trace rows
NoRows(c) == <<>>

\* the trace rows of a skipped case, re-emitted from its predictions
SkippedRows(c) ==
    [i \in 1..(LastQuery[c] - LastQuery[c - 1]) |-> LastQuery[c - 1] + i]

\* The process ends: nothing it held in memory survives.
Stop(outcome) ==
    /\ pc' = outcome
    /\ attempt' = 1 /\ preds' = Empty /\ case' = 0 /\ query' = 0
    /\ completed' = 0 /\ traces' = <<>>
    /\ UNCHANGED <<opts, run>>

\* mutants: one attempt too many, one too few
RetryOnceMore == attempt <= MaxAttempts
RetryOnceLess == attempt < MaxAttempts - 1

MayRetry == attempt < MaxAttempts

\* mutant: the attempt counter stays
SameAttempt == attempt

NextAttempt == attempt + 1

\* An exception leaves run_release_split_agent.  The next attempt gets a fresh
\* agent and fresh locals; framework_traces belongs to the caller and is kept.
AttemptFails(rows) ==
    IF MayRetry
    THEN /\ pc' = "load" /\ attempt' = NextAttempt
         /\ preds' = Empty /\ case' = 0 /\ query' = 0 /\ completed' = 0
         /\ traces' = rows
         /\ UNCHANGED <<opts, run>>
    ELSE Stop("raised")

-----------------------------------------------------------------------------
Init ==
    /\ fileState = "absent" /\ fileSystem = (CHOOSE s \in Systems : TRUE) /\ file = Empty
    /\ live = [status |-> "none", completed |-> 0, predictions |-> 0]
    /\ pc = "idle" /\ opts = (CHOOSE o \in Options : TRUE) /\ run = 0 /\ attempt = 1
    /\ preds = Empty /\ case = 0 /\ query = 0 /\ completed = 0 /\ traces = <<>>
    /\ errors = 0

StartRun(o) ==
    /\ pc \in Stopped /\ run < MaxRuns
    /\ pc' = "load" /\ opts' = o /\ run' = run + 1
    /\ UNCHANGED <<durable, attempt, preds, case, query, completed, traces, errors>>

LoadCheckpoint ==
    /\ pc = "load"
    /\ IF ~Resuming \/ fileState = "absent"
       THEN /\ pc' = "case"
            /\ UNCHANGED <<opts, run, attempt, preds, case, query, completed, traces>>
       ELSE IF Loadable
       THEN /\ pc' = "case" /\ preds' = file
            /\ UNCHANGED <<opts, run, attempt, case, query, completed, traces>>
       ELSE AttemptFails(traces)
    /\ UNCHANGED <<durable, errors>>

\* A case whose queries all have predictions is not run again; its trace rows
\* are re-emitted from the predictions.
SkipCase(c) ==
    /\ pc = "case" /\ NextCase(c) /\ CaseComplete(preds, c)
    /\ traces' = IF opts.traced THEN traces \o SkippedRows(c) ELSE traces
    /\ WriteLive("running", completed + 1, preds)
    /\ completed' = completed + 1 /\ case' = c /\ pc' = AfterCase(c)
    /\ UNCHANGED <<fileState, fileSystem, file, opts, run, attempt, preds, query, errors>>

\* Any other case is run from its start: what it had is dropped first.
BeginCase(c) ==
    /\ pc = "case" /\ NextCase(c) /\ ~CaseComplete(preds, c)
    /\ preds' = DropCase(preds, c)
    /\ WriteLive("running", completed, preds')
    /\ case' = c /\ query' = LastQuery[c - 1] /\ pc' = "observe"
    /\ UNCHANGED <<fileState, fileSystem, file, opts, run, attempt, completed, traces, errors>>

ObserveSessions ==
    /\ pc = "observe" /\ pc' = "query"
    /\ UNCHANGED <<durable, opts, run, attempt, preds, case, query, completed, traces, errors>>

\* the factory cannot build an agent, or reset or observe raises: no prediction
\* stands for these, whatever failure_predictions says
SetupRaises ==
    /\ pc \in {"load", "observe"}
    /\ errors < MaxErrors /\ errors' = errors + 1
    /\ AttemptFails(traces)
    /\ UNCHANGED durable

\* The trace is emitted, then prediction_callback keeps the prediction, ...
Answer(q, status) ==
    /\ pc = "query" /\ q = query + 1 /\ q <= LastQuery[case]
    /\ Trace(q)
    /\ preds' = [preds EXCEPT ![q] = [system |-> opts.system, run |-> run,
                                      attempt |-> attempt, status |-> status]]
    /\ KeepThenReport(TRUE, completed, preds')
    /\ query' = q /\ pc' = "answered"
    /\ UNCHANGED <<opts, run, attempt, case, completed>>

\* ... then state_callback reports that the query is finished.
ReportAnswer ==
    /\ pc = "answered" /\ pc' = "query"
    /\ KeepThenReport(FALSE, completed, preds)
    /\ UNCHANGED <<opts, run, attempt, preds, case, query, completed, traces, errors>>

AnswerQuery(q) == Answer(q, "answered") /\ UNCHANGED errors

\* failure_predictions turns an exception of answer_or_act into a prediction
RecordFailure(q) ==
    /\ opts.failures /\ errors < MaxErrors /\ errors' = errors + 1
    /\ Answer(q, "failed")

\* a well-formed answer that only the shard validation will refuse
AnswerInvalid(q) ==
    /\ errors < MaxErrors /\ errors' = errors + 1
    /\ Answer(q, "invalid")

AnswerRaises(q) ==
    /\ pc = "query" /\ q = query + 1 /\ q <= LastQuery[case] /\ ~opts.failures
    /\ errors < MaxErrors /\ errors' = errors + 1
    /\ AttemptFails(traces)
    /\ UNCHANGED durable

\* _prediction_from_response refuses the answer, after its trace was emitted
\* and outside the try that failure_predictions guards
AnswerMalformed(q) ==
    /\ pc = "query" /\ q = query + 1 /\ q <= LastQuery[case]
    /\ errors < MaxErrors /\ errors' = errors + 1
    /\ AttemptFails(IF opts.traced THEN Append(traces, q) ELSE traces)
    /\ UNCHANGED durable

\* The last query is answered: the predictions are kept once more, ...
EndCase ==
    /\ pc = "query" /\ query = LastQuery[case]
    /\ pc' = "ended"
    /\ KeepThenReport(TRUE, completed + 1, preds)
    /\ UNCHANGED <<opts, run, attempt, preds, case, query, completed, traces, errors>>

\* ... then the case is reported, and counted, as completed.
ReportCase ==
    /\ pc = "ended"
    /\ KeepThenReport(FALSE, completed + 1, preds)
    /\ completed' = completed + 1 /\ pc' = AfterCase(case)
    /\ UNCHANGED <<opts, run, attempt, preds, case, query, traces, errors>>

\* the queries of the shard that the current case ends
ShardQueries == UNION {QueriesOf(c) : c \in {d \in opts.scope : ShardOf[d] = ShardOf[case]}}

ShardValid ==
    \A q \in ShardQueries : preds[q] # NoPrediction => preds[q].status # "invalid"

ValidateShard ==
    /\ pc = "shard"
    /\ IF ShardValid
       THEN /\ pc' = "case"
            /\ UNCHANGED <<opts, run, attempt, preds, case, query, completed, traces>>
       ELSE AttemptFails(traces)
    /\ UNCHANGED <<durable, errors>>

FinishLoop ==
    /\ pc = "case" /\ \A c \in opts.scope : c <= case
    /\ WriteLive("completed", completed, preds)
    /\ pc' = "save"
    /\ UNCHANGED <<fileState, fileSystem, file, opts, run, attempt, preds, case,
                   query, completed, traces, errors>>

\* write_json opens predictions.json for writing, which empties it, ...
OpenPredictions ==
    /\ pc = "save" /\ pc' = "saving"
    /\ fileState' = "torn" /\ file' = Empty
    /\ UNCHANGED <<fileSystem, live, opts, run, attempt, preds, case, query,
                   completed, traces, errors>>

\* ... then writes the returned predictions into it
WritePredictions ==
    /\ pc = "saving" /\ pc' = "package"
    /\ fileState' = "whole" /\ fileSystem' = opts.system /\ file' = Ordered(preds)
    /\ UNCHANGED <<live, opts, run, attempt, preds, case, query, completed, traces, errors>>

\* _write_framework_trace_artifact raises on any other number of trace rows
TracesMatch == ~opts.traced \/ Len(traces) = Count(Ordered(preds))

Package ==
    /\ pc = "package"
    /\ Stop(IF TracesMatch THEN "succeeded" ELSE "rejected")
    /\ UNCHANGED <<durable, errors>>

Crash ==
    /\ pc \in Running
    /\ Stop("crashed")
    /\ UNCHANGED <<durable, errors>>

-----------------------------------------------------------------------------
AgentFault ==
    \/ SetupRaises
    \/ \E q \in Queries : RecordFailure(q)
    \/ \E q \in Queries : AnswerInvalid(q)
    \/ \E q \in Queries : AnswerRaises(q)
    \/ \E q \in Queries : AnswerMalformed(q)

\* what the process does by itself
Step ==
    \/ LoadCheckpoint
    \/ \E c \in Cases : SkipCase(c)
    \/ \E c \in Cases : BeginCase(c)
    \/ ObserveSessions
    \/ \E q \in Queries : AnswerQuery(q)
    \/ ReportAnswer
    \/ EndCase
    \/ ReportCase
    \/ ValidateShard
    \/ FinishLoop
    \/ OpenPredictions
    \/ WritePredictions
    \/ Package

Next ==
    \/ \E o \in Options : StartRun(o)
    \/ Step
    \/ AgentFault
    \/ Crash

Spec == Init /\ [][Next]_vars

\* A process that is not killed goes on running, and the agent calls it makes
\* return or raise.
FairSpec == Spec /\ WF_vars(Step)

-----------------------------------------------------------------------------
TypeOK ==
    /\ fileState \in {"absent", "whole", "torn"}
    /\ fileSystem \in Systems
    /\ file \in PredictionMap
    /\ live \in [status : {"none", "running", "completed"},
                 completed : 0..NumCases, predictions : 0..NumQueries]
    /\ pc \in Stopped \cup Running
    /\ opts \in Options
    /\ run \in 0..MaxRuns
    /\ attempt \in Attempts
    /\ preds \in PredictionMap
    /\ case \in 0..NumCases
    /\ query \in 0..NumQueries
    /\ completed \in 0..NumCases
    /\ traces \in Seq(Queries)
    /\ errors \in 0..MaxErrors

\* the process is inside the case it has taken up
InCase == pc \in {"observe", "query", "answered", "ended"}

Source(p) == <<p.system, p.run, p.attempt>>

\* The predictions of one case that are on disk together were all made by one
\* agent in one pass over the case, however runs were interrupted, retried and
\* resumed: a partial case is dropped before it is run again.
CaseCoherence ==
    \A c \in Cases : \A q, r \in QueriesOf(c) :
        file[q] # NoPrediction /\ file[r] # NoPrediction => Source(file[q]) = Source(file[r])

\* A predictions file holds answers of the system it is labelled with only,
\* although every invocation may name another system on the same path.
SystemIsolation ==
    \A q \in Queries : file[q] # NoPrediction => file[q].system = fileSystem

\* What the loop returns answers every query of every selected case, and no
\* answer that shard validation refuses gets that far.
ResultComplete ==
    pc \in {"save", "saving", "package"} =>
        \A c \in opts.scope : \A q \in QueriesOf(c) :
            preds[q] # NoPrediction /\ preds[q].status # "invalid"

\* Until a retry, every query the loop has answered or skipped has exactly one
\* trace row and the rows are in release order.
TraceLedger ==
    opts.traced /\ attempt = 1 /\ pc \in Running =>
        /\ \A i, j \in 1..Len(traces) : i < j => traces[i] < traces[j]
        /\ {traces[i] : i \in 1..Len(traces)} =
              {q \in Seen : InCase => q <= query}

\* An answer the shard validation refuses is on disk before it is validated.
Poisoned == \E q \in Queries : file[q] # NoPrediction /\ file[q].status = "invalid"

\* Every invocation that is not killed ends.
Termination == (pc \in Running) ~> (pc \in Stopped)

\* Packaging will refuse the run, because it has not one trace row for each
\* prediction.  A retry past finished cases leads here: the rows of the failed
\* attempt stay in the list and those of the cases it skips are emitted again.
RefusedRetry == pc = "package" /\ attempt > 1 /\ ~TracesMatch

\* With fewer faults than attempts an invocation gets through, unless what it
\* resumes from is unreadable, another system's or holds a refused answer.  An
\* invocation that collects traces may be refused at the end all the same, but
\* only after a retry.
RetriesAbsorbFaults ==
    (pc = "load" /\ (fileState = "absent" \/ Loadable))
        ~> (pc \in {"succeeded", "crashed"} \/ Poisoned \/ RefusedRetry)

\* Without resume, the result of an invocation never mixes answers of its first
\* attempt with answers of an earlier invocation on the same path: the first
\* checkpoint takes the old ones off the disk before a retry can load them.
\* (An invocation whose first attempt fails before its first answer may well
\* return old answers: its retry resumes "from checkpoints when available".)
FirstAttemptOwnsResult ==
    pc \in Running /\ ~opts.resume =>
        \A q, r \in Queries :
            /\ preds[q] # NoPrediction /\ preds[q].run = run /\ preds[q].attempt = 1
            /\ preds[r] # NoPrediction
            => preds[r].run = run

=============================================================================
