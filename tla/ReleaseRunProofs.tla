--------------------------- MODULE ReleaseRunProofs ---------------------------
(***************************************************************************)
(* Proofs about ReleaseRun, for any split, any set of systems and scopes,  *)
(* and any bounds.                                                         *)
(***************************************************************************)
EXTENDS ResumableRun, FiniteSetTheorems, SequenceTheorems, TLAPS

(* The completed-case counter stays in range because it never runs ahead of  *)
(* the loop, and lags by one while a case is being run.                      *)
CompletedBound ==
    /\ completed <= case
    /\ InCase => completed < case

(* A process has an invocation number, which its predictions carry.          *)
Numbered == pc \in Running => run > 0

TypeInv == TypeOK /\ CompletedBound /\ Numbered

(* What the environment and the disk leave to the process variables.         *)
ProcessOK ==
    /\ pc \in Stopped \cup Running
    /\ opts \in Options
    /\ run \in 0..MaxRuns
    /\ attempt \in Attempts
    /\ preds \in PredictionMap
    /\ case \in 0..NumCases
    /\ query \in 0..NumQueries
    /\ completed \in 0..NumCases
    /\ traces \in Seq(Queries)

DurableOK ==
    /\ fileState \in {"absent", "whole", "torn"}
    /\ fileSystem \in Systems
    /\ file \in PredictionMap
    /\ live \in [status : {"none", "running", "completed"},
                 completed : 0..NumCases, predictions : 0..NumQueries]

-----------------------------------------------------------------------------
(* A count of predictions is at most the number of queries.                  *)
LEMMA CountType == ASSUME NEW p PROVE Count(p) \in 0..NumQueries
<1> DEFINE S == {q \in Queries : p[q] # NoPrediction}
<1>1. NumQueries \in Nat BY ReleaseRunAssumption
<1>2. IsFiniteSet(Queries) /\ Cardinality(Queries) = NumQueries
  BY <1>1, FS_Interval DEF Queries
<1>3. S \subseteq Queries OBVIOUS
<1>4. IsFiniteSet(S) /\ Cardinality(S) <= NumQueries
  BY <1>2, <1>3, FS_Subset
<1>5. Cardinality(S) \in Nat BY <1>4, FS_CardinalityType
<1> QED BY <1>1, <1>4, <1>5 DEF Count

(* The rows re-emitted for a skipped case are query ids.                     *)
LEMMA RowsType == ASSUME NEW c \in Cases PROVE SkippedRows(c) \in Seq(Queries)
<1>1. NumCases \in Nat /\ NumQueries \in Nat BY ReleaseRunAssumption
<1>2. c \in 0..NumCases /\ c - 1 \in 0..NumCases /\ c - 1 < c
  BY <1>1 DEF Cases
<1>3. LastQuery[c] \in 0..NumQueries /\ LastQuery[c - 1] \in 0..NumQueries
  BY <1>2, ReleaseRunAssumption
<1>4. LastQuery[c - 1] <= LastQuery[c] BY <1>2, ReleaseRunAssumption
<1> DEFINE n == LastQuery[c] - LastQuery[c - 1]
<1>5. n \in Nat BY <1>3, <1>4
<1>6. \A i \in 1..n : LastQuery[c - 1] + i \in Queries
  BY <1>1, <1>3, <1>4 DEF Queries
<1>7. SkippedRows(c) \in [1..n -> Queries] BY <1>6 DEF SkippedRows
<1> QED BY <1>5, <1>7

(* Restricting, clearing or extending a map of predictions gives such a map. *)
LEMMA MapType ==
    ASSUME NEW p \in PredictionMap
    PROVE  /\ Empty \in PredictionMap
           /\ Ordered(p) \in PredictionMap
           /\ \A c \in Cases : DropCase(p, c) \in PredictionMap
           /\ \A q \in Queries, x \in Prediction : [p EXCEPT ![q] = x] \in PredictionMap
BY DEF PredictionMap, Empty, Ordered, DropCase

(* A process that ends, or goes on to its next attempt, is in a typed state. *)
LEMMA StopType ==
    ASSUME TypeInv, NEW outcome \in Stopped, Stop(outcome)
    PROVE  ProcessOK' /\ CompletedBound' /\ Numbered'
<1>1. NumCases \in Nat /\ NumQueries \in Nat /\ MaxAttempts \in Nat \ {0}
  BY ReleaseRunAssumption
<1>2. Empty \in PredictionMap BY DEF PredictionMap, Empty
<1>3. outcome \notin {"observe", "query", "answered", "ended"} BY DEF Stopped
<1>4. 1 \in Attempts BY <1>1 DEF Attempts
<1> QED BY <1>1, <1>2, <1>3, <1>4 DEF Stop, TypeInv, TypeOK, ProcessOK, CompletedBound, InCase, Numbered, Stopped, Running

LEMMA FailType ==
    ASSUME TypeInv, pc \in Running, NEW rows \in Seq(Queries), AttemptFails(rows)
    PROVE  ProcessOK' /\ CompletedBound' /\ Numbered'
<1>1. NumCases \in Nat /\ NumQueries \in Nat /\ MaxAttempts \in Nat \ {0}
  BY ReleaseRunAssumption
<1>2. Empty \in PredictionMap BY DEF PredictionMap, Empty
<1>3. CASE MayRetry
  <2>1. attempt + 1 \in Attempts BY <1>1, <1>3 DEF MayRetry, TypeInv, TypeOK, Attempts
  <2>2. pc' = "load" /\ attempt' = attempt + 1
    BY <1>3 DEF AttemptFails, NextAttempt
  <2>3. run > 0
    BY DEF TypeInv, Numbered
  <2> QED
    BY <1>1, <1>2, <1>3, <2>1, <2>2, <2>3
    DEF AttemptFails, TypeInv, TypeOK, ProcessOK, CompletedBound, InCase, Numbered, Running
<1>4. CASE ~MayRetry
  <2>1. Stop("raised") BY <1>4 DEF AttemptFails
  <2> QED BY <2>1, StopType DEF Stopped
<1> QED BY <1>3, <1>4

(* Answering a query, whatever the answer is worth.                          *)
LEMMA AnswerType ==
    ASSUME TypeInv, NEW q \in Queries, NEW status \in {"answered", "failed", "invalid"},
           Answer(q, status)
    PROVE  ProcessOK' /\ DurableOK' /\ CompletedBound' /\ Numbered'
<1> DEFINE x == [system |-> opts.system, run |-> run, attempt |-> attempt, status |-> status]
<1>1. NumCases \in Nat /\ NumQueries \in Nat /\ MaxRuns \in Nat BY ReleaseRunAssumption
<1>2. opts.system \in Systems /\ pc \in Running /\ run > 0
  BY DEF TypeInv, TypeOK, Options, Answer, Numbered, Running
<1>3. x \in Prediction BY <1>1, <1>2 DEF TypeInv, TypeOK, Prediction, Runs
<1>4. preds' \in PredictionMap
  BY <1>3, MapType DEF Answer, TypeInv, TypeOK
<1>5. traces' \in Seq(Queries)
  BY DEF Answer, Trace, TypeInv, TypeOK
<1>6. query' \in 0..NumQueries BY <1>1 DEF Answer, Queries
<1>7. ProcessOK' /\ CompletedBound' /\ Numbered'
  BY <1>2, <1>4, <1>5, <1>6
  DEF Answer, ProcessOK, CompletedBound, InCase, Numbered, TypeInv, TypeOK, Running
<1>8. live' \in [status : {"none", "running", "completed"},
                 completed : 0..NumCases, predictions : 0..NumQueries]
  BY DEF Answer, KeepThenReport, TypeInv, TypeOK
<1>9. fileState' \in {"absent", "whole", "torn"} /\ fileSystem' \in Systems
      /\ file' \in PredictionMap
  <2>1. Ordered(preds') \in PredictionMap BY <1>4, MapType
  <2> QED BY <1>2, <2>1 DEF Answer, KeepThenReport, Checkpoint, TypeInv, TypeOK
<1> QED BY <1>7, <1>8, <1>9 DEF DurableOK

-----------------------------------------------------------------------------
LEMMA InitType == Init => TypeInv
<1> SUFFICES ASSUME Init PROVE TypeInv OBVIOUS
<1>1. /\ NumCases \in Nat \ {0} /\ NumQueries \in Nat \ {0} /\ MaxAttempts \in Nat \ {0}
      /\ MaxRuns \in Nat \ {0} /\ MaxErrors \in Nat /\ Systems # {}
  BY ReleaseRunAssumption
<1>2. (CHOOSE s \in Systems : TRUE) \in Systems BY <1>1
<1>3. Options # {}
  <2>1. PICK s \in Systems, sc \in Scopes, r \in ResumeChoices,
             f \in FailureChoices, t \in TraceChoices : TRUE
    BY ReleaseRunAssumption
  <2>2. [system |-> s, scope |-> sc, resume |-> r, failures |-> f, traced |-> t] \in Options
    BY DEF Options
  <2> QED BY <2>2
<1>4. (CHOOSE o \in Options : TRUE) \in Options BY <1>3
<1>5. Empty \in PredictionMap BY DEF PredictionMap, Empty
<1> QED BY <1>1, <1>2, <1>4, <1>5
        DEF Init, TypeInv, TypeOK, CompletedBound, InCase, Numbered, Stopped, Running, Attempts

LEMMA TypeStep == TypeInv /\ [Next]_vars => TypeInv'
<1> SUFFICES ASSUME TypeInv, [Next]_vars PROVE TypeInv' OBVIOUS
<1> USE DEF TypeInv
<1>0. NumCases \in Nat /\ NumQueries \in Nat /\ MaxErrors \in Nat /\ MaxRuns \in Nat
  BY ReleaseRunAssumption
<1>t. ProcessOK' /\ DurableOK' /\ errors' \in 0..MaxErrors /\ CompletedBound' /\ Numbered'
      => TypeInv'
  BY DEF ProcessOK, DurableOK, TypeOK
<1>d. UNCHANGED durable => DurableOK' BY DEF durable, DurableOK, TypeOK
<1>e. errors < MaxErrors /\ errors' = errors + 1 => errors' \in 0..MaxErrors
  BY <1>0 DEF TypeOK
<1>1. ASSUME NEW o \in Options, StartRun(o) PROVE TypeInv'
  BY <1>0, <1>1 DEF StartRun, durable, TypeOK, CompletedBound, InCase, Numbered, Stopped, Running
<1>2. CASE LoadCheckpoint
  <2>1. DurableOK' /\ errors' \in 0..MaxErrors
    BY <1>2, <1>d DEF LoadCheckpoint, TypeOK
  <2>2. CASE pc' = "case" /\ UNCHANGED <<opts, run, attempt, case, query, completed, traces>>
             /\ preds' \in {preds, file}
    BY <1>2, <1>t, <2>1, <2>2
    DEF LoadCheckpoint, ProcessOK, TypeOK, CompletedBound, InCase, Numbered, Running
  <2>3. CASE AttemptFails(traces)
    BY <1>2, <1>t, <2>1, <2>3, FailType DEF LoadCheckpoint, TypeOK, Running
  <2> QED BY <1>2, <2>2, <2>3 DEF LoadCheckpoint
<1>3. ASSUME NEW c \in Cases, SkipCase(c) PROVE TypeInv'
  <2>1. traces' \in Seq(Queries)
    BY <1>3, RowsType DEF SkipCase, TypeOK
  <2>2. case' = c /\ c \in 0..NumCases /\ case < c
    BY <1>0, <1>3 DEF SkipCase, NextCase, Cases
  <2>3. completed' = completed + 1 /\ completed' \in 0..NumCases /\ completed' <= c
    BY <1>0, <1>3, <2>2 DEF SkipCase, TypeOK, CompletedBound
  <2>4. pc' \in {"shard", "case"} BY <1>3 DEF SkipCase, AfterCase
  <2>5. live' \in [status : {"none", "running", "completed"},
                   completed : 0..NumCases, predictions : 0..NumQueries]
    BY <1>3, <2>3, CountType DEF SkipCase, WriteLive
  <2> QED BY <1>0, <1>3, <2>1, <2>2, <2>3, <2>4, <2>5
          DEF SkipCase, TypeOK, CompletedBound, InCase, Numbered, Running
<1>4. ASSUME NEW c \in Cases, BeginCase(c) PROVE TypeInv'
  <2>1. preds' \in PredictionMap
    BY <1>4, MapType DEF BeginCase, TypeOK
  <2>2. case' = c /\ c \in 0..NumCases /\ case < c /\ c - 1 \in 0..NumCases
    BY <1>0, <1>4 DEF BeginCase, NextCase, Cases
  <2>3. query' \in 0..NumQueries
    BY <1>4, <2>2, ReleaseRunAssumption DEF BeginCase
  <2>4. live' \in [status : {"none", "running", "completed"},
                   completed : 0..NumCases, predictions : 0..NumQueries]
    BY <1>4, CountType DEF BeginCase, WriteLive, TypeOK
  <2> QED BY <1>0, <1>4, <2>1, <2>2, <2>3, <2>4
          DEF BeginCase, TypeOK, CompletedBound, InCase, Numbered, Running
<1>5. CASE ObserveSessions
  BY <1>5 DEF ObserveSessions, durable, TypeOK, CompletedBound, InCase, Numbered, Running
<1>6. CASE SetupRaises
  <2>1. pc \in Running /\ traces \in Seq(Queries) BY <1>6 DEF SetupRaises, Running, TypeOK
  <2> QED BY <1>6, <1>d, <1>e, <1>t, <2>1, FailType DEF SetupRaises
<1>7. ASSUME NEW q \in Queries, AnswerQuery(q) PROVE TypeInv'
  BY <1>7, <1>t, AnswerType DEF AnswerQuery, TypeOK
<1>8. ASSUME NEW q \in Queries, RecordFailure(q) PROVE TypeInv'
  BY <1>8, <1>t, <1>e, AnswerType DEF RecordFailure
<1>9. ASSUME NEW q \in Queries, AnswerInvalid(q) PROVE TypeInv'
  BY <1>9, <1>t, <1>e, AnswerType DEF AnswerInvalid
<1>10. ASSUME NEW q \in Queries, AnswerRaises(q) PROVE TypeInv'
  <2>1. pc \in Running /\ traces \in Seq(Queries) BY <1>10 DEF AnswerRaises, Running, TypeOK
  <2> QED BY <1>10, <1>d, <1>e, <1>t, <2>1, FailType DEF AnswerRaises
<1>11. ASSUME NEW q \in Queries, AnswerMalformed(q) PROVE TypeInv'
  <2>1. pc \in Running /\ (IF opts.traced THEN Append(traces, q) ELSE traces) \in Seq(Queries)
    BY <1>11 DEF AnswerMalformed, Running, TypeOK
  <2> QED BY <1>11, <1>d, <1>e, <1>t, <2>1, FailType DEF AnswerMalformed
<1>12. CASE EndCase
  <2>1. fileState' \in {"absent", "whole", "torn"} /\ fileSystem' \in Systems
        /\ file' \in PredictionMap
    BY <1>12, MapType DEF EndCase, KeepThenReport, Checkpoint, TypeOK, Options
  <2> QED BY <1>12, <2>1
          DEF EndCase, KeepThenReport, TypeOK, CompletedBound, InCase, Numbered, Running
<1>20. CASE ReportAnswer
  <2>1. live' \in [status : {"none", "running", "completed"},
                   completed : 0..NumCases, predictions : 0..NumQueries]
    BY <1>20, CountType DEF ReportAnswer, KeepThenReport, WriteLive, TypeOK
  <2> QED BY <1>20, <2>1
          DEF ReportAnswer, KeepThenReport, TypeOK, CompletedBound, InCase, Numbered, Running
<1>21. CASE ReportCase
  <2>1. completed' = completed + 1 /\ completed' \in 0..NumCases /\ completed' <= case
    BY <1>0, <1>21 DEF ReportCase, TypeOK, CompletedBound, InCase
  <2>2. pc' \in {"shard", "case"} BY <1>21 DEF ReportCase, AfterCase
  <2>3. live' \in [status : {"none", "running", "completed"},
                   completed : 0..NumCases, predictions : 0..NumQueries]
    BY <1>21, <2>1, CountType DEF ReportCase, KeepThenReport, WriteLive
  <2> QED BY <1>21, <2>1, <2>2, <2>3
          DEF ReportCase, KeepThenReport, TypeOK, CompletedBound, InCase, Numbered, Running
<1>13. CASE ValidateShard
  <2>1. DurableOK' /\ errors' \in 0..MaxErrors
    BY <1>13, <1>d DEF ValidateShard, TypeOK
  <2>2. CASE pc' = "case" /\ UNCHANGED <<opts, run, attempt, preds, case, query, completed, traces>>
    BY <1>13, <1>t, <2>1, <2>2
    DEF ValidateShard, ProcessOK, TypeOK, CompletedBound, InCase, Numbered, Running
  <2>3. CASE AttemptFails(traces)
    BY <1>13, <1>t, <2>1, <2>3, FailType DEF ValidateShard, TypeOK, Running
  <2> QED BY <1>13, <2>2, <2>3 DEF ValidateShard
<1>14. CASE FinishLoop
  <2>1. live' \in [status : {"none", "running", "completed"},
                   completed : 0..NumCases, predictions : 0..NumQueries]
    BY <1>14, CountType DEF FinishLoop, WriteLive, TypeOK
  <2> QED BY <1>14, <2>1 DEF FinishLoop, TypeOK, CompletedBound, InCase, Numbered, Running
<1>15. CASE OpenPredictions
  BY <1>15, MapType DEF OpenPredictions, TypeOK, CompletedBound, InCase, Numbered, Running
<1>16. CASE WritePredictions
  BY <1>16, MapType DEF WritePredictions, TypeOK, CompletedBound, InCase, Numbered, Running, Options
<1>17. CASE Package
  <2>1. \E outcome \in Stopped : Stop(outcome) BY <1>17 DEF Package, Stopped
  <2> QED BY <1>17, <1>d, <1>t, <2>1, StopType DEF Package, TypeOK
<1>18. CASE Crash
  <2>1. Stop("crashed") BY <1>18 DEF Crash
  <2> QED BY <1>18, <1>d, <1>t, <2>1, StopType DEF Crash, TypeOK, Stopped
<1>19. CASE UNCHANGED vars
  BY <1>19 DEF vars, TypeOK, CompletedBound, InCase, Numbered
<1> QED
  BY <1>1, <1>2, <1>3, <1>4, <1>5, <1>6, <1>7, <1>8, <1>9, <1>10, <1>11, <1>12,
     <1>13, <1>14, <1>15, <1>16, <1>17, <1>18, <1>19, <1>20, <1>21
  DEF Next, Step, AgentFault

(* Every variable keeps its type: in particular the attempt number never     *)
(* exceeds max_run_attempts and no counter of run_state.json overruns.       *)
THEOREM TypeCorrect == Spec => []TypeOK
<1>1. TypeInv => TypeOK BY DEF TypeInv
<1> QED BY InitType, TypeStep, <1>1, PTL DEF Spec

-----------------------------------------------------------------------------
(* The layout of the split.                                                  *)

LEMMA CaseBounds ==
    ASSUME NEW c \in Cases
    PROVE  /\ c \in Int /\ c - 1 \in 0..NumCases /\ c \in 0..NumCases
           /\ LastQuery[c] \in 0..NumQueries /\ LastQuery[c - 1] \in 0..NumQueries
           /\ QueriesOf(c) \subseteq Queries
<1>1. NumCases \in Nat /\ NumQueries \in Nat BY ReleaseRunAssumption
<1>2. c \in Int /\ c \in 0..NumCases /\ c - 1 \in 0..NumCases BY <1>1 DEF Cases
<1>3. LastQuery[c] \in 0..NumQueries /\ LastQuery[c - 1] \in 0..NumQueries
  BY <1>2, ReleaseRunAssumption
<1> QED BY <1>1, <1>2, <1>3 DEF QueriesOf, Queries

(* No query is in two cases.                                                 *)
LEMMA CasesDisjoint ==
    ASSUME NEW c \in Cases, NEW d \in Cases, NEW q \in QueriesOf(c), q \in QueriesOf(d)
    PROVE  c = d
<1> SUFFICES ASSUME NEW x \in Cases, NEW y \in Cases, x < y,
                    q \in QueriesOf(x), q \in QueriesOf(y)
             PROVE  FALSE
  <2>1. c \in Int /\ d \in Int BY CaseBounds
  <2> QED BY <2>1
<1>1. x \in 0..NumCases /\ y - 1 \in 0..NumCases /\ x <= y - 1
  BY CaseBounds
<1>2. LastQuery[x] <= LastQuery[y - 1]
  <2>1. CASE x = y - 1 BY <2>1, CaseBounds
  <2>2. CASE x < y - 1 BY <1>1, <2>2, ReleaseRunAssumption
  <2> QED BY <1>1, <2>1, <2>2, CaseBounds
<1>3. q <= LastQuery[x] /\ LastQuery[y - 1] + 1 <= q BY DEF QueriesOf
<1>4. q \in Int /\ LastQuery[x] \in Int /\ LastQuery[y - 1] \in Int
  BY CaseBounds DEF QueriesOf
<1> QED BY <1>2, <1>3, <1>4

-----------------------------------------------------------------------------
(* Who made the predictions.  CaseCoherence speaks of the disk only; it is   *)
(* inductive together with the same fact about memory, with whose answers    *)
(* the running case holds, and with where the loop is in that case.          *)

Coherent(p) ==
    \A c \in Cases : \A q, r \in QueriesOf(c) :
        p[q] # NoPrediction /\ p[r] # NoPrediction => Source(p[q]) = Source(p[r])

OwnedBy(p, s) == \A q \in Queries : p[q] # NoPrediction => p[q].system = s

SourceInv ==
    /\ Coherent(file) /\ Coherent(preds)
    /\ OwnedBy(file, fileSystem) /\ OwnedBy(preds, opts.system)
    /\ pc \in Stopped \cup {"load"} => preds = Empty
    /\ InCase =>
         /\ case \in Cases
         /\ LastQuery[case - 1] <= query
         /\ \A q \in QueriesOf(case) :
              preds[q] # NoPrediction => Source(preds[q]) = <<opts.system, run, attempt>>

LEMMA OrderedSource ==
    ASSUME NEW p \in PredictionMap, NEW s, Coherent(p), OwnedBy(p, s)
    PROVE  Coherent(Ordered(p)) /\ OwnedBy(Ordered(p), s)
<1>1. \A q \in Queries : Ordered(p)[q] # NoPrediction => Ordered(p)[q] = p[q]
  BY DEF Ordered
<1>2. \A c \in Cases : QueriesOf(c) \subseteq Queries BY CaseBounds
<1>3. OwnedBy(Ordered(p), s) BY <1>1 DEF OwnedBy
<1>4. Coherent(Ordered(p))
  <2> SUFFICES ASSUME NEW c \in Cases, NEW q \in QueriesOf(c), NEW r \in QueriesOf(c),
                      Ordered(p)[q] # NoPrediction, Ordered(p)[r] # NoPrediction
               PROVE  Source(Ordered(p)[q]) = Source(Ordered(p)[r])
    BY DEF Coherent
  <2>1. Ordered(p)[q] = p[q] /\ Ordered(p)[r] = p[r] BY <1>1, <1>2
  <2>2. p[q] # NoPrediction /\ p[r] # NoPrediction BY <2>1
  <2>3. Source(p[q]) = Source(p[r]) BY <2>2 DEF Coherent
  <2> QED BY <2>1, <2>3
<1> QED BY <1>3, <1>4

LEMMA EmptySource == Coherent(Empty) /\ \A s : OwnedBy(Empty, s)
<1>1. \A q \in Queries : Empty[q] = NoPrediction BY DEF Empty
<1>2. \A c \in Cases : QueriesOf(c) \subseteq Queries BY CaseBounds
<1> QED BY <1>1, <1>2 DEF Coherent, OwnedBy

(* The end of a process or of an attempt leaves the disk as it is.           *)
LEMMA StopSource ==
    ASSUME SourceInv, NEW outcome \in Stopped, Stop(outcome), UNCHANGED durable
    PROVE  SourceInv'
<1>1. ~InCase' BY DEF Stop, Stopped, InCase
<1>2. Coherent(preds') /\ OwnedBy(preds', opts.system') BY EmptySource DEF Stop
<1>3. file' = file /\ fileSystem' = fileSystem BY DEF durable
<1> QED BY <1>1, <1>2, <1>3 DEF Stop, SourceInv, InCase, Coherent, OwnedBy, Empty, QueriesOf

LEMMA FailSource ==
    ASSUME SourceInv, NEW rows, AttemptFails(rows), UNCHANGED durable
    PROVE  SourceInv'
<1>1. CASE MayRetry
  <2>1. pc' = "load" /\ preds' = Empty BY <1>1 DEF AttemptFails
  <2>2. Coherent(preds') /\ OwnedBy(preds', opts.system') BY <2>1, EmptySource
  <2>3. file' = file /\ fileSystem' = fileSystem BY DEF durable
  <2> QED BY <2>1, <2>2, <2>3 DEF SourceInv, InCase, Coherent, OwnedBy, Empty, QueriesOf
<1>2. CASE ~MayRetry
  <2>1. Stop("raised") BY <1>2 DEF AttemptFails
  <2> QED BY <2>1, StopSource DEF Stopped
<1> QED BY <1>1, <1>2

(* An answer is made by the agent that made the case's other answers: what   *)
(* an earlier agent left of the case is gone, and other cases are untouched. *)
LEMMA AnswerSource ==
    ASSUME TypeInv, SourceInv, NEW q \in Queries,
           NEW status \in {"answered", "failed", "invalid"}, Answer(q, status)
    PROVE  SourceInv'
<1> DEFINE x == [system |-> opts.system, run |-> run, attempt |-> attempt, status |-> status]
           me == <<opts.system, run, attempt>>
<1>1. /\ pc = "query" /\ case \in Cases /\ LastQuery[case - 1] <= query
      /\ \A r \in QueriesOf(case) : preds[r] # NoPrediction => Source(preds[r]) = me
  BY DEF Answer, SourceInv, InCase
<1>2. preds' = [preds EXCEPT ![q] = x] /\ preds \in PredictionMap
  BY DEF Answer, TypeInv, TypeOK
<1>3. /\ pc' = "answered" /\ case' = case /\ opts' = opts /\ run' = run /\ attempt' = attempt
      /\ query' = q
  BY DEF Answer
<1>4. /\ preds'[q] = x
      /\ \A r \in Queries : r # q => preds'[r] = preds[r]
  BY <1>2 DEF PredictionMap
<1>5. Source(x) = me BY DEF Source
<1>6. q \in QueriesOf(case) /\ LastQuery[case - 1] <= q
  <2>1. q = query + 1 /\ q <= LastQuery[case] BY DEF Answer
  <2>2. query \in Int /\ LastQuery[case - 1] \in Int /\ LastQuery[case] \in Int
    BY <1>1, CaseBounds DEF TypeInv, TypeOK
  <2> QED BY <1>1, <2>1, <2>2 DEF QueriesOf
<1>7. \A c \in Cases : QueriesOf(c) \subseteq Queries BY CaseBounds
<1>8. \A r \in QueriesOf(case) : preds'[r] # NoPrediction => Source(preds'[r]) = me
  BY <1>1, <1>4, <1>5, <1>7
<1>9. Coherent(preds')
  <2> SUFFICES ASSUME NEW c \in Cases, NEW r \in QueriesOf(c), NEW t \in QueriesOf(c),
                      preds'[r] # NoPrediction, preds'[t] # NoPrediction
               PROVE  Source(preds'[r]) = Source(preds'[t])
    BY DEF Coherent
  <2>1. CASE c = case BY <1>8, <2>1
  <2>2. CASE c # case
    <3>1. r # q /\ t # q BY <1>1, <1>6, <2>2, CasesDisjoint
    <3>2. preds'[r] = preds[r] /\ preds'[t] = preds[t] BY <1>4, <1>7, <3>1
    <3> QED BY <3>2 DEF SourceInv, Coherent
  <2> QED BY <2>1, <2>2
<1>10. OwnedBy(preds', opts.system)
  BY <1>4 DEF SourceInv, OwnedBy
<1>11. preds' \in PredictionMap BY AnswerType DEF ProcessOK
<1>12. Coherent(file') /\ OwnedBy(file', fileSystem')
  <2>1. CASE Checkpointing
    <3>1. file' = Ordered(preds') /\ fileSystem' = opts.system
      BY <2>1 DEF Answer, KeepThenReport, Checkpoint
    <3> QED BY <1>9, <1>10, <1>11, <3>1, OrderedSource
  <2>2. CASE ~Checkpointing
    BY <2>2 DEF Answer, KeepThenReport, Checkpoint, SourceInv
  <2> QED BY <2>1, <2>2
<1>13. pc' \notin Stopped \cup {"load"} BY <1>1, <1>3 DEF Stopped
<1> QED
  BY <1>1, <1>3, <1>6, <1>8, <1>9, <1>10, <1>12, <1>13 DEF SourceInv, InCase, QueriesOf

LEMMA InitSource == Init => SourceInv
<1> SUFFICES ASSUME Init PROVE SourceInv OBVIOUS
<1> QED BY EmptySource DEF Init, SourceInv, InCase

(* A step that keeps predictions, disk and options, and does not enter a case.*)
LEMMA QuietSource ==
    ASSUME SourceInv, ~InCase', pc' \notin Stopped \cup {"load"},
           UNCHANGED <<file, fileSystem, preds, opts>>
    PROVE  SourceInv'
BY DEF SourceInv, InCase, Coherent, OwnedBy, QueriesOf

LEMMA SourceStep == TypeInv /\ SourceInv /\ [Next]_vars => SourceInv'
<1> SUFFICES ASSUME TypeInv, SourceInv, [Next]_vars PROVE SourceInv' OBVIOUS
<1>1. ASSUME NEW o \in Options, StartRun(o) PROVE SourceInv'
  <2>1. preds' = Empty /\ pc' = "load" /\ file' = file /\ fileSystem' = fileSystem
    BY <1>1 DEF StartRun, durable, SourceInv
  <2>2. Coherent(preds') /\ OwnedBy(preds', opts'.system) BY <2>1, EmptySource
  <2> QED BY <2>1, <2>2 DEF SourceInv, InCase, Coherent, OwnedBy, Empty, QueriesOf
<1>2. CASE LoadCheckpoint
  <2>1. CASE pc' = "case" /\ UNCHANGED <<opts, preds>>
    BY <1>2, <2>1, QuietSource DEF LoadCheckpoint, durable, Stopped, InCase
  <2>2. CASE Loadable /\ pc' = "case" /\ preds' = file /\ UNCHANGED opts
    <3>1. fileSystem = opts.system /\ file' = file /\ fileSystem' = fileSystem
      BY <1>2, <2>2 DEF LoadCheckpoint, Loadable, durable
    <3> QED BY <2>2, <3>1 DEF SourceInv, InCase, Stopped, Coherent, OwnedBy, QueriesOf
  <2>3. CASE AttemptFails(traces)
    BY <1>2, <2>3, FailSource DEF LoadCheckpoint
  <2> QED BY <1>2, <2>1, <2>2, <2>3 DEF LoadCheckpoint
<1>3. ASSUME NEW c \in Cases, SkipCase(c) PROVE SourceInv'
  BY <1>3, QuietSource DEF SkipCase, AfterCase, Stopped, InCase
<1>4. ASSUME NEW c \in Cases, BeginCase(c) PROVE SourceInv'
  <2>1. /\ preds' = DropCase(preds, c) /\ case' = c /\ query' = LastQuery[c - 1]
        /\ pc' = "observe" /\ UNCHANGED <<file, fileSystem, opts, run, attempt>>
    BY <1>4 DEF BeginCase
  <2>2. \A q \in Queries : preds'[q] # NoPrediction =>
          q \notin QueriesOf(c) /\ preds'[q] = preds[q]
    BY <2>1 DEF DropCase
  <2>3. \A d \in Cases : QueriesOf(d) \subseteq Queries BY CaseBounds
  <2>4. \A q \in QueriesOf(c) : preds'[q] = NoPrediction BY <2>2, <2>3
  <2>5. OwnedBy(preds', opts.system) BY <2>2 DEF SourceInv, OwnedBy
  <2>6. Coherent(preds')
    <3> SUFFICES ASSUME NEW d \in Cases, NEW q \in QueriesOf(d), NEW r \in QueriesOf(d),
                        preds'[q] # NoPrediction, preds'[r] # NoPrediction
                 PROVE  Source(preds'[q]) = Source(preds'[r])
      BY DEF Coherent
    <3>1. preds'[q] = preds[q] /\ preds'[r] = preds[r] BY <2>2, <2>3
    <3> QED BY <3>1 DEF SourceInv, Coherent
  <2>7. LastQuery[c - 1] <= query'
    BY <2>1, CaseBounds
  <2> QED BY <2>1, <2>4, <2>5, <2>6, <2>7
          DEF SourceInv, InCase, Stopped, Coherent, OwnedBy, QueriesOf
<1>5. CASE ObserveSessions
  BY <1>5 DEF ObserveSessions, durable, SourceInv, InCase, Stopped, Coherent, OwnedBy, QueriesOf
<1>6. CASE SetupRaises BY <1>6, FailSource DEF SetupRaises
<1>7. ASSUME NEW q \in Queries, AnswerQuery(q) PROVE SourceInv'
  BY <1>7, AnswerSource DEF AnswerQuery
<1>8. ASSUME NEW q \in Queries, RecordFailure(q) PROVE SourceInv'
  BY <1>8, AnswerSource DEF RecordFailure
<1>9. ASSUME NEW q \in Queries, AnswerInvalid(q) PROVE SourceInv'
  BY <1>9, AnswerSource DEF AnswerInvalid
<1>10. ASSUME NEW q \in Queries, AnswerRaises(q) PROVE SourceInv'
  BY <1>10, FailSource DEF AnswerRaises
<1>11. ASSUME NEW q \in Queries, AnswerMalformed(q) PROVE SourceInv'
  BY <1>11, FailSource DEF AnswerMalformed
<1>12. CASE EndCase
  <2>1. /\ pc = "query" /\ pc' = "ended"
        /\ UNCHANGED <<preds, opts, run, attempt, case, query>>
    BY <1>12 DEF EndCase
  <2>2. Coherent(file') /\ OwnedBy(file', fileSystem')
    <3>1. CASE Checkpointing
      <4>1. file' = Ordered(preds) /\ fileSystem' = opts.system
        BY <1>12, <3>1 DEF EndCase, KeepThenReport, Checkpoint
      <4> QED BY <4>1, OrderedSource DEF SourceInv, TypeInv, TypeOK
    <3>2. CASE ~Checkpointing
      BY <1>12, <3>2 DEF EndCase, KeepThenReport, Checkpoint, SourceInv
    <3> QED BY <3>1, <3>2
  <2> QED BY <2>1, <2>2 DEF SourceInv, InCase, Stopped, Coherent, OwnedBy, QueriesOf
<1>20. CASE ReportAnswer
  BY <1>20
  DEF ReportAnswer, KeepThenReport, SourceInv, InCase, Stopped, Coherent, OwnedBy, QueriesOf
<1>21. CASE ReportCase
  BY <1>21, QuietSource DEF ReportCase, KeepThenReport, AfterCase, Stopped, InCase
<1>13. CASE ValidateShard
  <2>1. CASE pc' = "case" /\ UNCHANGED <<opts, preds>>
    BY <1>13, <2>1, QuietSource DEF ValidateShard, durable, Stopped, InCase
  <2>2. CASE AttemptFails(traces)
    BY <1>13, <2>2, FailSource DEF ValidateShard
  <2> QED BY <1>13, <2>1, <2>2 DEF ValidateShard
<1>14. CASE FinishLoop
  BY <1>14, QuietSource DEF FinishLoop, Stopped, InCase
<1>15. CASE OpenPredictions
  <2>1. Coherent(file') /\ OwnedBy(file', fileSystem')
    BY <1>15, EmptySource DEF OpenPredictions
  <2> QED BY <1>15, <2>1
          DEF OpenPredictions, SourceInv, InCase, Stopped, Coherent, OwnedBy, QueriesOf
<1>16. CASE WritePredictions
  <2>1. file' = Ordered(preds) /\ fileSystem' = opts.system
    BY <1>16 DEF WritePredictions
  <2>2. Coherent(file') /\ OwnedBy(file', fileSystem')
    BY <2>1, OrderedSource DEF SourceInv, TypeInv, TypeOK
  <2> QED BY <1>16, <2>2
          DEF WritePredictions, SourceInv, InCase, Stopped, Coherent, OwnedBy, QueriesOf
<1>17. CASE Package
  <2>1. \E outcome \in Stopped : Stop(outcome) BY <1>17 DEF Package, Stopped
  <2> QED BY <1>17, <2>1, StopSource DEF Package
<1>18. CASE Crash BY <1>18, StopSource DEF Crash, Stopped
<1>19. CASE UNCHANGED vars
  BY <1>19 DEF vars, SourceInv, InCase, Coherent, OwnedBy, QueriesOf
<1> QED
  BY <1>1, <1>2, <1>3, <1>4, <1>5, <1>6, <1>7, <1>8, <1>9, <1>10, <1>11, <1>12,
     <1>13, <1>14, <1>15, <1>16, <1>17, <1>18, <1>19, <1>20, <1>21
  DEF Next, Step, AgentFault

(* A predictions file that was written, killed, retried and resumed any      *)
(* number of times reads as if each of its cases had been answered in one    *)
(* pass by one agent.                                                        *)
THEOREM DiskCoherent == Spec => []CaseCoherence
<1>1. SourceInv => CaseCoherence BY DEF SourceInv, Coherent, CaseCoherence
<1> QED BY InitType, TypeStep, InitSource, SourceStep, <1>1, PTL DEF Spec

(* No other system's answers are among those of the system in its header,    *)
(* whatever systems were run on the same path.                               *)
THEOREM DiskIsolated == Spec => []SystemIsolation
<1>1. SourceInv => SystemIsolation BY DEF SourceInv, OwnedBy, SystemIsolation
<1> QED BY InitType, TypeStep, InitSource, SourceStep, <1>1, PTL DEF Spec

-----------------------------------------------------------------------------
(* Whose answers a run without resume returns.  The induction follows them   *)
(* through the file, from which a retry loads them.                          *)

(* An answer of the first attempt is among answers of this invocation only.  *)
Unmixed(p) ==
    \A q, r \in Queries :
        /\ p[q] # NoPrediction /\ p[q].run = run /\ p[q].attempt = 1
        /\ p[r] # NoPrediction
        => p[r].run = run

OwnRun(p) == \A q \in Queries : p[q] # NoPrediction => p[q].run = run

UpToNow(p) == \A q \in Queries : p[q] # NoPrediction => p[q].run <= run

OwnInv ==
    /\ UpToNow(file) /\ UpToNow(preds)
    /\ pc \in Running /\ ~opts.resume =>
         Unmixed(file) /\ Unmixed(preds) /\ (attempt = 1 => OwnRun(preds))

(* What a checkpoint keeps, or the start of a case leaves, of a map.         *)
Part(r, p) == \A q \in Queries : r[q] # NoPrediction => r[q] = p[q]

LEMMA Parts ==
    ASSUME NEW p
    PROVE  Part(p, p) /\ Part(Empty, p) /\ Part(Ordered(p), p)
           /\ \A c : Part(DropCase(p, c), p)
BY DEF Part, Empty, Ordered, DropCase

(* A step of an invocation that makes no answer: what it writes comes from   *)
(* memory or the disk, and a first attempt without resume takes nothing from *)
(* the disk.                                                                 *)
LEMMA OwnIntro ==
    ASSUME OwnInv, run' = run, opts' = opts, pc' \in Running => pc \in Running,
           Part(file', file) \/ Part(file', preds),
           Part(preds', file) \/ Part(preds', preds),
           pc' \in Running /\ ~opts.resume /\ attempt' = 1 =>
               (attempt = 1 /\ Part(preds', preds)) \/ preds' = Empty
    PROVE  OwnInv'
<1>1. UpToNow(file)' BY DEF OwnInv, UpToNow, Part
<1>2. UpToNow(preds)' BY DEF OwnInv, UpToNow, Part
<1>3. ASSUME pc' \in Running, ~opts'.resume
      PROVE  Unmixed(file)' /\ Unmixed(preds)' /\ (attempt' = 1 => OwnRun(preds)')
  <2>1. Unmixed(file) /\ Unmixed(preds) /\ (attempt = 1 => OwnRun(preds)) BY <1>3 DEF OwnInv
  <2>2. Unmixed(file)' BY <2>1 DEF Unmixed, Part
  <2>3. Unmixed(preds)' BY <2>1 DEF Unmixed, Part
  <2>4. attempt' = 1 => OwnRun(preds)' BY <1>3, <2>1 DEF OwnRun, Part, Empty
  <2> QED BY <2>2, <2>3, <2>4
<1> QED BY <1>1, <1>2, <1>3 DEF OwnInv

LEMMA StopOwn ==
    ASSUME OwnInv, NEW outcome \in Stopped, Stop(outcome), file' = file
    PROVE  OwnInv'
<1>1. pc' \notin Running /\ preds' = Empty /\ run' = run /\ opts' = opts
  BY DEF Stop, Stopped, Running
<1> QED BY <1>1, Parts, OwnIntro

LEMMA FailOwn ==
    ASSUME OwnInv, pc \in Running, NEW rows, AttemptFails(rows), file' = file
    PROVE  OwnInv'
<1>1. CASE MayRetry
  <2>1. preds' = Empty /\ run' = run /\ opts' = opts BY <1>1 DEF AttemptFails
  <2> QED BY <2>1, Parts, OwnIntro
<1>2. CASE ~MayRetry
  BY <1>2, StopOwn DEF AttemptFails, Stopped
<1> QED BY <1>1, <1>2

(* A new answer is one of this invocation.                                   *)
LEMMA AnswerOwn ==
    ASSUME TypeInv, OwnInv, NEW q \in Queries,
           NEW status \in {"answered", "failed", "invalid"}, Answer(q, status)
    PROVE  OwnInv'
<1> DEFINE new == [system |-> opts.system, run |-> run, attempt |-> attempt, status |-> status]
<1>1. pc \in Running /\ UNCHANGED <<run, opts, attempt>> BY DEF Answer, Running
<1>2. preds' = [preds EXCEPT ![q] = new] BY DEF Answer
<1>3. \A r \in Queries : preds'[r] = preds[r] \/ preds'[r] = new
  BY <1>2 DEF TypeInv, TypeOK, PredictionMap
<1>4. new.run = run /\ new.attempt = attempt /\ run \in Int BY DEF TypeInv, TypeOK
<1>5. UpToNow(preds') BY <1>3, <1>4 DEF OwnInv, UpToNow
<1>6. Part(file', file) \/ Part(file', preds')
  BY Parts DEF Answer, KeepThenReport, Checkpoint
<1>7. UpToNow(file') BY <1>5, <1>6 DEF OwnInv, UpToNow, Part
<1>8. ASSUME ~opts.resume
      PROVE  Unmixed(file') /\ Unmixed(preds') /\ (attempt = 1 => OwnRun(preds'))
  <2>1. Unmixed(file) /\ Unmixed(preds) /\ (attempt = 1 => OwnRun(preds))
    BY <1>1, <1>8 DEF OwnInv
  <2>2. attempt = 1 => OwnRun(preds') BY <1>3, <1>4, <2>1 DEF OwnRun
  <2>3. Unmixed(preds')
    <3>1. CASE attempt = 1 BY <2>2, <3>1 DEF OwnRun, Unmixed
    <3>2. CASE attempt # 1 BY <1>3, <1>4, <2>1, <3>2 DEF Unmixed
    <3> QED BY <3>1, <3>2
  <2>4. Unmixed(file') BY <1>6, <2>1, <2>3 DEF Unmixed, Part
  <2> QED BY <2>2, <2>3, <2>4
<1> QED BY <1>1, <1>5, <1>7, <1>8 DEF OwnInv, UpToNow, Unmixed, OwnRun

LEMMA InitOwn == Init => OwnInv
BY DEF Init, OwnInv, UpToNow, Empty, Running

(* A step that makes no answer and keeps memory or part of it.               *)
LEMMA QuietOwn ==
    ASSUME OwnInv, pc \in Running, UNCHANGED <<run, opts, attempt>>, Part(preds', preds),
           Part(file', file) \/ Part(file', preds)
    PROVE  OwnInv'
BY OwnIntro

LEMMA OwnStep == TypeInv /\ SourceInv /\ OwnInv /\ [Next]_vars => OwnInv'
<1> SUFFICES ASSUME TypeInv, SourceInv, OwnInv, [Next]_vars PROVE OwnInv' OBVIOUS
<1> USE DEF Running
<1>1. ASSUME NEW o \in Options, StartRun(o) PROVE OwnInv'
  <2>1. preds' = Empty /\ file' = file /\ run' = run + 1 /\ run \in Int
    BY <1>1 DEF StartRun, durable, SourceInv, TypeInv, TypeOK
  <2>2. \A q \in Queries : file[q] # NoPrediction => file[q].run \in Int /\ file[q].run <= run
    BY DEF OwnInv, UpToNow, TypeInv, TypeOK, PredictionMap, Prediction, Runs
  <2>3. UpToNow(file') /\ UpToNow(preds') BY <2>1, <2>2 DEF UpToNow, Empty
  <2>4. UpToNow(file)' /\ UpToNow(preds)' BY <2>1, <2>2 DEF UpToNow, Empty
  <2>5. Unmixed(file)' BY <2>1, <2>2 DEF Unmixed
  <2>6. Unmixed(preds)' /\ OwnRun(preds)' BY <2>1 DEF Unmixed, OwnRun, Empty
  <2> QED BY <2>4, <2>5, <2>6 DEF OwnInv
<1>2. CASE LoadCheckpoint
  <2>1. CASE UNCHANGED <<run, opts, attempt, preds>>
    BY <1>2, <2>1, Parts, QuietOwn DEF LoadCheckpoint, durable
  <2>2. CASE Resuming /\ preds' = file /\ UNCHANGED <<run, opts, attempt>>
    BY <1>2, <2>2, Parts, OwnIntro DEF LoadCheckpoint, durable, Resuming
  <2>3. CASE AttemptFails(traces)
    BY <1>2, <2>3, FailOwn DEF LoadCheckpoint, durable
  <2> QED BY <1>2, <2>1, <2>2, <2>3 DEF LoadCheckpoint
<1>3. ASSUME NEW c \in Cases, SkipCase(c) PROVE OwnInv'
  BY <1>3, Parts, QuietOwn DEF SkipCase
<1>4. ASSUME NEW c \in Cases, BeginCase(c) PROVE OwnInv'
  BY <1>4, Parts, QuietOwn DEF BeginCase
<1>5. CASE ObserveSessions BY <1>5, Parts, QuietOwn DEF ObserveSessions, durable
<1>6. CASE SetupRaises BY <1>6, FailOwn DEF SetupRaises, durable
<1>7. ASSUME NEW q \in Queries,
             AnswerQuery(q) \/ RecordFailure(q) \/ AnswerInvalid(q)
      PROVE  OwnInv'
  BY <1>7, AnswerOwn DEF AnswerQuery, RecordFailure, AnswerInvalid
<1>8. ASSUME NEW q \in Queries, AnswerRaises(q) \/ AnswerMalformed(q) PROVE OwnInv'
  BY <1>8, FailOwn DEF AnswerRaises, AnswerMalformed, durable
<1>9. CASE ReportAnswer BY <1>9, Parts, QuietOwn DEF ReportAnswer, KeepThenReport
<1>10. CASE EndCase BY <1>10, Parts, QuietOwn DEF EndCase, KeepThenReport, Checkpoint
<1>11. CASE ReportCase BY <1>11, Parts, QuietOwn DEF ReportCase, KeepThenReport
<1>12. CASE ValidateShard
  <2>1. CASE UNCHANGED <<run, opts, attempt, preds>>
    BY <1>12, <2>1, Parts, QuietOwn DEF ValidateShard, durable
  <2>2. CASE AttemptFails(traces)
    BY <1>12, <2>2, FailOwn DEF ValidateShard, durable
  <2> QED BY <1>12, <2>1, <2>2 DEF ValidateShard
<1>13. CASE FinishLoop BY <1>13, Parts, QuietOwn DEF FinishLoop
<1>14. CASE OpenPredictions BY <1>14, Parts, QuietOwn DEF OpenPredictions
<1>15. CASE WritePredictions BY <1>15, Parts, QuietOwn DEF WritePredictions
<1>16. CASE Package
  <2>1. \E outcome \in Stopped : Stop(outcome) BY <1>16 DEF Package, Stopped
  <2> QED BY <1>16, <2>1, StopOwn DEF Package, durable
<1>17. CASE Crash BY <1>17, StopOwn DEF Crash, Stopped, durable
<1>18. CASE UNCHANGED vars
  BY <1>18 DEF vars, OwnInv, UpToNow, Unmixed, OwnRun
<1> QED
  BY <1>1, <1>2, <1>3, <1>4, <1>5, <1>6, <1>7, <1>8, <1>9, <1>10, <1>11, <1>12,
     <1>13, <1>14, <1>15, <1>16, <1>17, <1>18
  DEF Next, Step, AgentFault

(* An answer of an invocation's own first attempt is never returned together *)
(* with answers an earlier invocation left in the file.                      *)
THEOREM FreshResultIsOwn == Spec => []FirstAttemptOwnsResult
<1>1. OwnInv => FirstAttemptOwnsResult BY DEF OwnInv, Unmixed, FirstAttemptOwnsResult
<1>2. Init => TypeInv /\ SourceInv /\ OwnInv BY InitType, InitSource, InitOwn
<1>3. TypeInv /\ SourceInv /\ OwnInv /\ [Next]_vars => (TypeInv /\ SourceInv /\ OwnInv)'
  BY TypeStep, SourceStep, OwnStep
<1> QED BY <1>1, <1>2, <1>3, PTL DEF Spec

-----------------------------------------------------------------------------
(* What the loop has done so far.  ResultComplete speaks of its end; the     *)
(* induction needs what holds after each case, inside one, and that a refused*)
(* answer can only be in the shard that is not validated yet.                *)

Answered(c) == \A q \in QueriesOf(c) : preds[q] # NoPrediction

Valid(c) == \A q \in QueriesOf(c) : preds[q] # NoPrediction => preds[q].status # "invalid"

Saving == pc \in {"save", "saving", "package"}

LoopInv ==
    /\ InCase \/ pc = "shard" => case \in opts.scope
    /\ pc = "ended" => query = LastQuery[case]
    /\ pc \in Running => case = 0 \/ case \in opts.scope
    /\ pc \in Stopped \cup {"load"} => case = 0
    /\ pc \in Running =>
         \A c \in opts.scope : c < case \/ (c = case /\ ~InCase) => Answered(c)
    /\ InCase => \A q \in QueriesOf(case) : q <= query => preds[q] # NoPrediction
    /\ Saving => \A c \in opts.scope : c <= case

ShardInv ==
    /\ pc \in Running =>
         \A c \in opts.scope : c <= case =>
           \/ Valid(c)
           \/ /\ case # 0 /\ ShardOf[c] = ShardOf[case]
              /\ ~(pc = "case" /\ LastOfShard(case))
              /\ ~Saving

LEMMA ScopeCases == ASSUME TypeInv PROVE opts.scope \subseteq Cases
BY ReleaseRunAssumption DEF TypeInv, TypeOK, Options

LEMMA ShardOrder ==
    ASSUME NEW c \in Cases, NEW d \in Cases, c <= d
    PROVE  ShardOf[c] \in Nat /\ ShardOf[d] \in Nat /\ ShardOf[c] <= ShardOf[d]
<1>1. ShardOf[c] \in Nat /\ ShardOf[d] \in Nat BY ReleaseRunAssumption
<1>2. c \in Int /\ d \in Int BY CaseBounds
<1>3. CASE c = d BY <1>1, <1>3
<1>4. CASE c < d BY <1>1, <1>4, ReleaseRunAssumption
<1> QED BY <1>1, <1>2, <1>3, <1>4

(* Nothing is claimed of a process that has just lost its memory.            *)
LEMMA FreshLoop ==
    ASSUME TypeInv, pc' \in Stopped \cup {"load"},
           case' = 0, preds' = Empty, opts'.scope \subseteq Cases
    PROVE  LoopInv' /\ ShardInv'
<1>1. \A c \in opts'.scope : c \in Int /\ 1 <= c BY ReleaseRunAssumption DEF Cases
<1>2. pc' \notin {"observe", "query", "answered", "ended", "shard", "save", "saving", "package"}
  BY DEF Stopped
<1> QED BY <1>1, <1>2 DEF LoopInv, ShardInv, InCase, Saving

LEMMA FailLoop ==
    ASSUME TypeInv, NEW rows, AttemptFails(rows)
    PROVE  LoopInv' /\ ShardInv'
<1>1. /\ pc' \in Stopped \cup {"load"} /\ case' = 0 /\ preds' = Empty /\ opts' = opts
  BY DEF AttemptFails, Stop, Stopped
<1> QED BY <1>1, FreshLoop, ScopeCases

LEMMA StopLoop ==
    ASSUME TypeInv, NEW outcome \in Stopped, Stop(outcome)
    PROVE  LoopInv' /\ ShardInv'
BY FreshLoop, ScopeCases DEF Stop

(* Going on to the next case: every selected case before it is behind.       *)
LEMMA NextCaseBehind ==
    ASSUME TypeInv, NEW c \in Cases, NextCase(c), NEW d \in opts.scope
    PROVE  d < c <=> d <= case
<1>1. d \in Int /\ c \in Int /\ case \in Int
  BY ScopeCases, CaseBounds DEF TypeInv, TypeOK
<1> QED BY <1>1 DEF NextCase

(* A shard that is not validated yet is the one the next case is in.         *)
LEMMA NextCaseShard ==
    ASSUME TypeInv, LoopInv, ShardInv, pc = "case",
           NEW c \in Cases, NextCase(c), NEW d \in opts.scope, d < c
    PROVE  Valid(d) \/ ShardOf[d] = ShardOf[c]
<1>1. opts.scope \subseteq Cases /\ pc \in Running BY ScopeCases DEF Running
<1>2. d <= case BY NextCaseBehind
<1> SUFFICES ASSUME ~Valid(d) PROVE ShardOf[d] = ShardOf[c] OBVIOUS
<1>3. case # 0 /\ ShardOf[d] = ShardOf[case] /\ ~LastOfShard(case)
  BY <1>1, <1>2 DEF ShardInv
<1>4. case \in Cases BY <1>1, <1>3 DEF LoopInv
<1>5. PICK e \in opts.scope : case < e /\ ShardOf[e] = ShardOf[case]
  BY <1>3 DEF LastOfShard
<1>6. case < c /\ c <= e BY <1>5 DEF NextCase
<1>7. c \in Int /\ e \in Int /\ case \in Int BY <1>1, <1>4, CaseBounds
<1>8. ShardOf[case] <= ShardOf[c] /\ ShardOf[c] <= ShardOf[e]
      /\ ShardOf[case] \in Nat /\ ShardOf[c] \in Nat
  BY <1>1, <1>4, <1>6, <1>7, ShardOrder
<1> QED BY <1>3, <1>5, <1>8

LEMMA AnswerLoop ==
    ASSUME TypeInv, SourceInv, LoopInv, ShardInv, NEW q \in Queries,
           NEW status \in {"answered", "failed", "invalid"}, Answer(q, status)
    PROVE  LoopInv' /\ ShardInv'
<1> DEFINE x == [system |-> opts.system, run |-> run, attempt |-> attempt, status |-> status]
<1>1. /\ pc = "query" /\ pc' = "answered" /\ case' = case /\ opts' = opts /\ query' = q
      /\ q = query + 1 /\ InCase /\ InCase' /\ pc \in Running
  BY DEF Answer, InCase, Running
<1>2. preds' = [preds EXCEPT ![q] = x] /\ preds \in PredictionMap
  BY DEF Answer, TypeInv, TypeOK
<1>3. x # NoPrediction
  <2>1. run \in Runs /\ opts.system \in Systems /\ attempt \in Attempts
    BY <1>1, ReleaseRunAssumption DEF TypeInv, TypeOK, Numbered, Runs, Options
  <2>2. x \in Prediction BY <2>1 DEF Prediction
  <2> QED BY <2>2, ReleaseRunAssumption
<1>4. preds'[q] = x /\ \A r \in Queries : r # q => preds'[r] = preds[r]
  BY <1>2 DEF PredictionMap
<1>5. case \in Cases /\ case \in opts.scope /\ opts.scope \subseteq Cases
  BY <1>1, ScopeCases DEF LoopInv, SourceInv
<1>6. q \in QueriesOf(case)
  <2>1. q <= LastQuery[case] /\ LastQuery[case - 1] <= query
    BY <1>1 DEF Answer, SourceInv
  <2>2. query \in Int /\ LastQuery[case - 1] \in Int /\ LastQuery[case] \in Int
    BY <1>5, CaseBounds DEF TypeInv, TypeOK
  <2> QED BY <1>1, <2>1, <2>2 DEF QueriesOf
<1>7. \A d \in Cases : d # case => \A r \in QueriesOf(d) : r \in Queries /\ preds'[r] = preds[r]
  <2> SUFFICES ASSUME NEW d \in Cases, NEW r \in QueriesOf(d), d # case
               PROVE  r \in Queries /\ preds'[r] = preds[r]
    OBVIOUS
  <2>1. r \in Queries BY CaseBounds
  <2>2. r # q BY <1>5, <1>6, CasesDisjoint
  <2> QED BY <1>4, <2>1, <2>2
<1>8. \A c \in opts.scope : c < case => Answered(c)'
  BY <1>1, <1>5, <1>7 DEF LoopInv, Answered, QueriesOf, Cases
<1>9. \A r \in QueriesOf(case) : r <= q => preds'[r] # NoPrediction
  <2> SUFFICES ASSUME NEW r \in QueriesOf(case), r <= q PROVE preds'[r] # NoPrediction
    OBVIOUS
  <2>1. r \in Queries /\ r \in Int /\ query \in Int
    BY <1>5, CaseBounds DEF QueriesOf, TypeInv, TypeOK
  <2>2. CASE r = q BY <1>3, <1>4, <2>2
  <2>3. CASE r # q
    <3>1. r <= query BY <1>1, <2>1, <2>3
    <3> QED BY <1>1, <1>4, <2>1, <2>3, <3>1 DEF LoopInv
  <2> QED BY <2>2, <2>3
<1>10. LoopInv'
  BY <1>1, <1>5, <1>8, <1>9 DEF LoopInv, InCase, Saving, QueriesOf, Stopped, Running
<1>11. ShardInv'
  <2> SUFFICES ASSUME NEW c \in opts.scope, c <= case
               PROVE  Valid(c)' \/ (case # 0 /\ ShardOf[c] = ShardOf[case])
    BY <1>1 DEF ShardInv, Saving
  <2>1. case # 0 BY <1>5 DEF Cases
  <2>2. CASE c = case BY <2>1, <2>2
  <2>3. CASE c # case /\ ~(ShardOf[c] = ShardOf[case])
    <3>1. Valid(c) BY <1>1, <2>3 DEF ShardInv
    <3>2. Valid(c)' BY <1>5, <1>7, <2>3, <3>1 DEF Valid, QueriesOf
    <3> QED BY <3>2
  <2> QED BY <2>1, <2>2, <2>3
<1> QED BY <1>10, <1>11

LEMMA InitLoop == Init => LoopInv /\ ShardInv
BY DEF Init, LoopInv, ShardInv, InCase, Saving, Stopped, Running

(* Steps that keep the loop where it is.                                     *)
LEMMA SameLoop ==
    ASSUME LoopInv, ShardInv, UNCHANGED <<opts, preds, case>>, pc \in Running,
           \/ pc' = pc /\ query' = query
           \/ pc \in {"save", "saving"} /\ pc' \in {"saving", "package"}
           \/ InCase /\ pc' \in {"query", "ended"} /\ query' = query
              /\ (pc' = "ended" => query = LastQuery[case])
    PROVE  LoopInv' /\ ShardInv'
<1>1. LoopInv'
  BY DEF LoopInv, Answered, InCase, Saving, QueriesOf, Stopped, Running
<1>2. ShardInv'
  BY DEF ShardInv, Valid, Saving, QueriesOf, LastOfShard, Running
<1> QED BY <1>1, <1>2

LEMMA LoadLoop ==
    ASSUME TypeInv, UNCHANGED opts, case' = 0, pc' = "case"
    PROVE  LoopInv' /\ ShardInv'
<1>1. \A c \in opts'.scope : c \in Int /\ 1 <= c
  BY ScopeCases, ReleaseRunAssumption DEF Cases
<1> QED BY <1>1 DEF LoopInv, ShardInv, InCase, Saving

LEMMA SkipLoop ==
    ASSUME TypeInv, LoopInv, ShardInv, NEW c \in Cases, SkipCase(c)
    PROVE  LoopInv' /\ ShardInv'
<1>1. /\ pc = "case" /\ NextCase(c) /\ CaseComplete(preds, c)
      /\ case' = c /\ pc' = AfterCase(c) /\ UNCHANGED <<opts, preds>>
  BY DEF SkipCase
<1>2. c \in opts.scope /\ pc' \in {"shard", "case"} /\ (pc' = "case" => ~LastOfShard(c))
  BY <1>1 DEF NextCase, AfterCase
<1>3. pc \in Running /\ ~InCase /\ ~InCase' /\ ~Saving'
  BY <1>1, <1>2 DEF Running, InCase, Saving
<1>4. \A d \in opts.scope : /\ d \in Int /\ c \in Int /\ case \in Int
                            /\ (d < c <=> d <= case)
  BY <1>1, ScopeCases, CaseBounds, NextCaseBehind DEF TypeInv, TypeOK
<1>5. \A d \in opts.scope : d <= c => Answered(d)
  <2> SUFFICES ASSUME NEW d \in opts.scope, d <= c PROVE Answered(d) OBVIOUS
  <2>1. CASE d = c BY <1>1, <2>1 DEF CaseComplete, Answered
  <2>2. CASE d # c BY <1>3, <1>4, <2>2 DEF LoopInv
  <2> QED BY <2>1, <2>2
<1>6. LoopInv'
  BY <1>1, <1>2, <1>3, <1>4, <1>5 DEF LoopInv, Answered, QueriesOf, Stopped
<1>7. ShardInv'
  <2> SUFFICES ASSUME NEW d \in opts.scope, d <= c
               PROVE  \/ Valid(d)
                      \/ /\ c # 0 /\ ShardOf[d] = ShardOf[c]
                         /\ ~(pc' = "case" /\ LastOfShard(c))
    BY <1>1, <1>3 DEF ShardInv, Valid, QueriesOf, LastOfShard
  <2>1. c # 0 BY DEF Cases
  <2>2. CASE d = c BY <1>2, <2>1, <2>2
  <2>3. CASE d # c
    <3>1. d < c BY <1>4, <2>3
    <3> QED BY <1>1, <1>2, <2>1, <3>1, NextCaseShard
  <2> QED BY <2>2, <2>3
<1> QED BY <1>6, <1>7

LEMMA BeginLoop ==
    ASSUME TypeInv, LoopInv, ShardInv, NEW c \in Cases, BeginCase(c)
    PROVE  LoopInv' /\ ShardInv'
<1>1. /\ pc = "case" /\ NextCase(c) /\ preds' = DropCase(preds, c) /\ query' = LastQuery[c - 1]
      /\ case' = c /\ pc' = "observe" /\ UNCHANGED opts
  BY DEF BeginCase
<1>2. c \in opts.scope /\ pc \in Running /\ ~InCase /\ InCase' /\ ~Saving' /\ opts.scope \subseteq Cases
  BY <1>1, ScopeCases DEF NextCase, Running, InCase, Saving
<1>3. \A d \in opts.scope : /\ d \in Int /\ c \in Int /\ case \in Int
                            /\ (d < c <=> d <= case)
  BY <1>1, ScopeCases, CaseBounds, NextCaseBehind DEF TypeInv, TypeOK
<1>4. \A d \in opts.scope : d # c => \A q \in QueriesOf(d) : preds'[q] = preds[q]
  <2> SUFFICES ASSUME NEW d \in opts.scope, d # c, NEW q \in QueriesOf(d)
               PROVE  preds'[q] = preds[q]
    OBVIOUS
  <2>1. q \in Queries /\ q \notin QueriesOf(c) BY <1>2, CaseBounds, CasesDisjoint
  <2> QED BY <1>1, <2>1 DEF DropCase
<1>5. \A q \in QueriesOf(c) : preds'[q] = NoPrediction /\ ~(q <= query')
  <2> SUFFICES ASSUME NEW q \in QueriesOf(c) PROVE preds'[q] = NoPrediction /\ ~(q <= query')
    OBVIOUS
  <2>1. q \in Queries BY CaseBounds
  <2>2. LastQuery[c - 1] \in Int /\ q \in Int /\ LastQuery[c - 1] + 1 <= q
    BY CaseBounds DEF QueriesOf
  <2> QED BY <1>1, <2>1, <2>2 DEF DropCase
<1>6. \A d \in opts.scope : d < c => Answered(d)'
  BY <1>2, <1>3, <1>4 DEF LoopInv, Answered, QueriesOf
<1>7. LoopInv'
  BY <1>1, <1>2, <1>5, <1>6 DEF LoopInv, QueriesOf, Stopped
<1>8. ShardInv'
  <2> SUFFICES ASSUME NEW d \in opts.scope, d <= c
               PROVE  Valid(d)' \/ (c # 0 /\ ShardOf[d] = ShardOf[c])
    BY <1>1, <1>2 DEF ShardInv
  <2>1. CASE d = c BY <2>1 DEF Cases
  <2>2. CASE d # c
    <3>1. d < c BY <1>3, <2>2
    <3>2. CASE Valid(d) BY <1>4, <2>2, <3>2 DEF Valid, QueriesOf
    <3>3. CASE ShardOf[d] = ShardOf[c] BY <3>3 DEF Cases
    <3> QED BY <1>1, <3>1, <3>2, <3>3, NextCaseShard
  <2> QED BY <2>1, <2>2
<1> QED BY <1>7, <1>8

LEMMA ReportCaseLoop ==
    ASSUME TypeInv, SourceInv, LoopInv, ShardInv, ReportCase
    PROVE  LoopInv' /\ ShardInv'
<1>1. /\ pc = "ended" /\ query = LastQuery[case] /\ pc' = AfterCase(case)
      /\ UNCHANGED <<opts, preds, case, query>>
  BY DEF ReportCase, LoopInv
<1>2. pc' \in {"shard", "case"} /\ (pc' = "case" => ~LastOfShard(case))
  BY <1>1 DEF AfterCase
<1>3. /\ InCase /\ ~InCase' /\ ~Saving' /\ pc \in Running
      /\ case \in opts.scope /\ case \in Cases
  BY <1>1, <1>2, ScopeCases DEF InCase, Saving, Running, LoopInv
<1>4. Answered(case)
  <2>1. \A q \in QueriesOf(case) : q <= query BY <1>1 DEF QueriesOf
  <2> QED BY <1>3, <2>1 DEF LoopInv, Answered
<1>5. LoopInv'
  BY <1>1, <1>2, <1>3, <1>4 DEF LoopInv, Answered, QueriesOf, Stopped
<1>6. ShardInv'
  BY <1>1, <1>2, <1>3 DEF ShardInv, Valid, QueriesOf, LastOfShard
<1> QED BY <1>5, <1>6

LEMMA ShardLoop ==
    ASSUME TypeInv, LoopInv, ShardInv, ValidateShard
    PROVE  LoopInv' /\ ShardInv'
<1>1. CASE ~ShardValid BY <1>1, FailLoop DEF ValidateShard
<1>2. CASE ShardValid
  <2>1. pc = "shard" /\ pc' = "case" /\ UNCHANGED <<opts, preds, case, query>>
    BY <1>2 DEF ValidateShard
  <2>2. pc \in Running /\ ~InCase /\ ~InCase' /\ ~Saving'
    BY <2>1 DEF Running, InCase, Saving
  <2>3. \A c \in opts.scope : c <= case => Valid(c)
    <3> SUFFICES ASSUME NEW c \in opts.scope, c <= case, ~Valid(c) PROVE FALSE
      OBVIOUS
    <3>1. ShardOf[c] = ShardOf[case] BY <2>2 DEF ShardInv
    <3>2. QueriesOf(c) \subseteq ShardQueries BY <3>1 DEF ShardQueries
    <3> QED BY <1>2, <3>2 DEF ShardValid, Valid
  <2>4. ShardInv' BY <2>1, <2>3 DEF ShardInv, Valid, QueriesOf
  <2>5. LoopInv' BY <2>1, <2>2 DEF LoopInv, Answered, QueriesOf, Running, Stopped
  <2> QED BY <2>4, <2>5
<1> QED BY <1>1, <1>2

LEMMA FinishLoopLoop ==
    ASSUME TypeInv, LoopInv, ShardInv, FinishLoop
    PROVE  LoopInv' /\ ShardInv'
<1>1. /\ pc = "case" /\ pc' = "save" /\ UNCHANGED <<opts, preds, case, query>>
      /\ \A c \in opts.scope : c <= case
  BY DEF FinishLoop
<1>2. pc \in Running /\ ~InCase /\ ~InCase' /\ Saving'
  BY <1>1 DEF Running, InCase, Saving
<1>3. LastOfShard(case)
  BY <1>1, ScopeCases, CaseBounds DEF LastOfShard, TypeInv, TypeOK
<1>4. \A c \in opts.scope : Valid(c) BY <1>1, <1>2, <1>3 DEF ShardInv
<1>5. ShardInv' BY <1>1, <1>4 DEF ShardInv, Valid, QueriesOf
<1>6. LoopInv' BY <1>1, <1>2 DEF LoopInv, Answered, QueriesOf, Running, Stopped
<1> QED BY <1>5, <1>6

LEMMA LoopStep ==
    TypeInv /\ SourceInv /\ LoopInv /\ ShardInv /\ [Next]_vars => LoopInv' /\ ShardInv'
<1> SUFFICES ASSUME TypeInv, SourceInv, LoopInv, ShardInv, [Next]_vars
             PROVE  LoopInv' /\ ShardInv'
  OBVIOUS
<1>1. ASSUME NEW o \in Options, StartRun(o) PROVE LoopInv' /\ ShardInv'
  <2>1. o.scope \subseteq Cases BY ReleaseRunAssumption DEF Options
  <2>2. preds' = Empty /\ pc' = "load" /\ opts' = o BY <1>1 DEF StartRun, SourceInv
  <2>3. \A c \in opts'.scope : c \in Cases BY <2>1, <2>2
  <2>4. \A c : Valid(c)' \/ ~(c \in Cases)
    <3> SUFFICES ASSUME NEW c \in Cases PROVE Valid(c)' OBVIOUS
    <3>1. QueriesOf(c) \subseteq Queries BY CaseBounds
    <3> QED BY <2>2, <3>1 DEF Valid, Empty, QueriesOf
  <2>5. case = 0 /\ case' = 0 BY <1>1 DEF StartRun, LoopInv
  <2>6. \A c \in Cases : ~(c < 0) /\ ~(c = 0) BY ReleaseRunAssumption DEF Cases
  <2> QED BY <2>2, <2>3, <2>5, <2>6, <2>4 DEF LoopInv, ShardInv, InCase, Saving
<1>2. CASE LoadCheckpoint
  <2>1. CASE AttemptFails(traces) BY <2>1, FailLoop
  <2>2. CASE pc' = "case" /\ UNCHANGED <<opts, case>>
    BY <1>2, <2>2, LoadLoop DEF LoadCheckpoint, LoopInv
  <2> QED BY <1>2, <2>1, <2>2 DEF LoadCheckpoint
<1>3. ASSUME NEW c \in Cases, SkipCase(c) PROVE LoopInv' /\ ShardInv'
  BY <1>3, SkipLoop
<1>4. ASSUME NEW c \in Cases, BeginCase(c) PROVE LoopInv' /\ ShardInv'
  BY <1>4, BeginLoop
<1>5. CASE ObserveSessions BY <1>5, SameLoop DEF ObserveSessions, InCase, Running
<1>6. CASE SetupRaises BY <1>6, FailLoop DEF SetupRaises
<1>7. ASSUME NEW q \in Queries, AnswerQuery(q) PROVE LoopInv' /\ ShardInv'
  BY <1>7, AnswerLoop DEF AnswerQuery
<1>8. ASSUME NEW q \in Queries, RecordFailure(q) PROVE LoopInv' /\ ShardInv'
  BY <1>8, AnswerLoop DEF RecordFailure
<1>9. ASSUME NEW q \in Queries, AnswerInvalid(q) PROVE LoopInv' /\ ShardInv'
  BY <1>9, AnswerLoop DEF AnswerInvalid
<1>10. ASSUME NEW q \in Queries, AnswerRaises(q) PROVE LoopInv' /\ ShardInv'
  BY <1>10, FailLoop DEF AnswerRaises
<1>11. ASSUME NEW q \in Queries, AnswerMalformed(q) PROVE LoopInv' /\ ShardInv'
  BY <1>11, FailLoop DEF AnswerMalformed
<1>12. CASE EndCase BY <1>12, SameLoop DEF EndCase, InCase, Running
<1>20. CASE ReportAnswer BY <1>20, SameLoop DEF ReportAnswer, InCase, Running
<1>21. CASE ReportCase BY <1>21, ReportCaseLoop
<1>13. CASE ValidateShard BY <1>13, ShardLoop
<1>14. CASE FinishLoop BY <1>14, FinishLoopLoop
<1>15. CASE OpenPredictions BY <1>15, SameLoop DEF OpenPredictions, Running
<1>16. CASE WritePredictions BY <1>16, SameLoop DEF WritePredictions, Running
<1>17. CASE Package
  <2>1. \E outcome \in Stopped : Stop(outcome) BY <1>17 DEF Package, Stopped
  <2> QED BY <2>1, StopLoop
<1>18. CASE Crash BY <1>18, StopLoop DEF Crash, Stopped
<1>19. CASE UNCHANGED vars
  BY <1>19 DEF vars, LoopInv, ShardInv, Answered, Valid, InCase, Saving, QueriesOf, LastOfShard
<1> QED
  BY <1>1, <1>2, <1>3, <1>4, <1>5, <1>6, <1>7, <1>8, <1>9, <1>10, <1>11, <1>12,
     <1>13, <1>14, <1>15, <1>16, <1>17, <1>18, <1>19, <1>20, <1>21
  DEF Next, Step, AgentFault

(* Whatever was resumed, skipped or retried, what is returned, saved and     *)
(* packaged answers every query of every selected case, and shard validation *)
(* has seen all of it.                                                       *)
THEOREM CompleteResult == Spec => []ResultComplete
<1>1. TypeInv /\ LoopInv /\ ShardInv => ResultComplete
  <2> SUFFICES ASSUME TypeInv, LoopInv, ShardInv, Saving,
                      NEW c \in opts.scope, NEW q \in QueriesOf(c)
               PROVE  preds[q] # NoPrediction /\ preds[q].status # "invalid"
    BY DEF ResultComplete, Saving
  <2>1. pc \in Running /\ ~InCase /\ c <= case BY DEF Saving, Running, InCase, LoopInv
  <2>2. c \in Int /\ case \in Int BY ScopeCases, CaseBounds DEF TypeInv, TypeOK
  <2>3. Answered(c) BY <2>1, <2>2 DEF LoopInv
  <2>4. Valid(c) BY <2>1 DEF ShardInv
  <2> QED BY <2>3, <2>4 DEF Answered, Valid
<1> QED BY InitType, TypeStep, InitSource, SourceStep, InitLoop, LoopStep, <1>1, PTL DEF Spec

-----------------------------------------------------------------------------
(* The trace rows.                                                           *)

Ascending(s) == \A i, j \in 1..Len(s) : i < j => s[i] < s[j]

Elements(s) == {s[i] : i \in 1..Len(s)}

LEMMA ConcatAscending ==
    ASSUME NEW s \in Seq(Queries), NEW t \in Seq(Queries), Ascending(s), Ascending(t),
           \A x \in Elements(s), y \in Elements(t) : x < y
    PROVE  Ascending(s \o t) /\ Elements(s \o t) = Elements(s) \cup Elements(t)
<1> DEFINE u == s \o t
<1>1. Len(s) \in Nat /\ Len(t) \in Nat BY LenProperties
<1>2. /\ Len(u) = Len(s) + Len(t)
      /\ \A i \in 1..Len(u) : u[i] = IF i <= Len(s) THEN s[i] ELSE t[i - Len(s)]
  BY ConcatProperties
<1> HIDE DEF u
<1>3. \A i \in 1..Len(u) :
        \/ i \in 1..Len(s) /\ u[i] = s[i]
        \/ i \notin 1..Len(s) /\ i - Len(s) \in 1..Len(t) /\ u[i] = t[i - Len(s)]
  BY <1>1, <1>2
<1>4. Ascending(u)
  <2> SUFFICES ASSUME NEW i \in 1..Len(u), NEW j \in 1..Len(u), i < j PROVE u[i] < u[j]
    BY DEF Ascending
  <2>1. CASE j \in 1..Len(s)
    <3>1. i \in 1..Len(s) BY <1>1, <1>2, <2>1
    <3> QED BY <1>3, <2>1, <3>1 DEF Ascending
  <2>2. CASE i \in 1..Len(s) /\ j \notin 1..Len(s)
    BY <1>3, <2>2 DEF Elements
  <2>3. CASE i \notin 1..Len(s) /\ j \notin 1..Len(s)
    <3>1. i - Len(s) < j - Len(s) BY <1>1, <1>2
    <3>2. i - Len(s) \in 1..Len(t) /\ j - Len(s) \in 1..Len(t) BY <1>3, <2>3
    <3>3. t[i - Len(s)] < t[j - Len(s)] BY <3>1, <3>2 DEF Ascending
    <3>4. u[i] = t[i - Len(s)] /\ u[j] = t[j - Len(s)] BY <1>3, <2>3
    <3> QED BY <3>3, <3>4
  <2> QED BY <2>1, <2>2, <2>3
<1>5. Elements(u) = Elements(s) \cup Elements(t)
  <2>1. Elements(u) \subseteq Elements(s) \cup Elements(t) BY <1>3 DEF Elements
  <2>2. \A i \in 1..Len(s) : i \in 1..Len(u) /\ u[i] = s[i] BY <1>1, <1>2
  <2>3. ASSUME NEW i \in 1..Len(t) PROVE i + Len(s) \in 1..Len(u) /\ u[i + Len(s)] = t[i]
    <3>1. /\ i + Len(s) \in 1..Len(u) /\ i + Len(s) \notin 1..Len(s)
          /\ (i + Len(s)) - Len(s) = i
      BY <1>1, <1>2
    <3> QED BY <1>3, <3>1
  <2>4. Elements(s) \subseteq Elements(u) BY <2>2 DEF Elements
  <2>5. Elements(t) \subseteq Elements(u)
    <3> SUFFICES ASSUME NEW i \in 1..Len(t) PROVE t[i] \in Elements(u) BY DEF Elements
    <3> QED BY <2>3 DEF Elements
  <2> QED BY <2>1, <2>4, <2>5
<1> QED BY <1>4, <1>5 DEF u

LEMMA AppendAscending ==
    ASSUME NEW s \in Seq(Queries), NEW q \in Queries, Ascending(s),
           \A x \in Elements(s) : x < q
    PROVE  Ascending(Append(s, q)) /\ Elements(Append(s, q)) = Elements(s) \cup {q}
<1>1. <<q>> \in Seq(Queries) /\ Len(<<q>>) = 1 /\ <<q>>[1] = q OBVIOUS
<1>2. Elements(<<q>>) = {q} /\ Ascending(<<q>>) BY <1>1 DEF Elements, Ascending
<1>3. Append(s, q) = s \o <<q>> BY AppendIsConcat
<1>4. \A x \in Elements(s), y \in Elements(<<q>>) : x < y BY <1>2
<1>5. Ascending(s \o <<q>>) /\ Elements(s \o <<q>>) = Elements(s) \cup Elements(<<q>>)
  BY <1>1, <1>2, <1>4, ConcatAscending
<1> QED BY <1>2, <1>3, <1>5

(* The rows of a skipped case are its queries in order.                      *)
LEMMA RowsAscending ==
    ASSUME NEW c \in Cases
    PROVE  Ascending(SkippedRows(c)) /\ Elements(SkippedRows(c)) = QueriesOf(c)
<1> DEFINE a == LastQuery[c - 1]  n == LastQuery[c] - a
<1>1. a \in Nat /\ n \in Nat
  <2>1. c - 1 < c /\ NumQueries \in Nat BY CaseBounds, ReleaseRunAssumption
  <2>2. LastQuery[c - 1] <= LastQuery[c] BY <2>1, CaseBounds, ReleaseRunAssumption
  <2> QED BY <2>1, <2>2, CaseBounds
<1>2. QueriesOf(c) = (a + 1)..(a + n)
  BY <1>1, CaseBounds DEF QueriesOf
<1>3. SkippedRows(c) = [i \in 1..n |-> a + i] BY DEF SkippedRows
<1> HIDE DEF a, n
<1>4. Len(SkippedRows(c)) = n /\ \A i \in 1..n : SkippedRows(c)[i] = a + i
  BY <1>1, <1>3
<1>5. Ascending(SkippedRows(c)) BY <1>1, <1>4 DEF Ascending
<1>6. \A q \in (a + 1)..(a + n) : q - a \in 1..n /\ a + (q - a) = q BY <1>1
<1>7. \A i \in 1..n : a + i \in (a + 1)..(a + n) BY <1>1
<1>8. Elements(SkippedRows(c)) = {a + i : i \in 1..n} BY <1>4 DEF Elements
<1> QED BY <1>2, <1>5, <1>6, <1>7, <1>8

(* What the loop has taken up reaches to the last query of its last case ... *)
LEMMA SeenUpTo ==
    ASSUME TypeInv
    PROVE  \A q \in Seen : q \in Queries /\ q <= LastQuery[case]
<1> SUFFICES ASSUME NEW d \in opts.scope, d <= case, NEW q \in QueriesOf(d)
             PROVE  q \in Queries /\ q <= LastQuery[case]
  BY DEF Seen
<1>1. d \in Cases BY ScopeCases
<1>2. q \in Queries /\ q <= LastQuery[d] BY <1>1, CaseBounds DEF QueriesOf
<1>3. case \in 0..NumCases /\ d \in 0..NumCases BY <1>1, CaseBounds DEF TypeInv, TypeOK
<1>4. LastQuery[d] \in Int /\ LastQuery[case] \in Int BY <1>3, ReleaseRunAssumption
<1>5. LastQuery[d] <= LastQuery[case]
  BY <1>3, <1>4, ReleaseRunAssumption
<1> QED BY <1>2, <1>4, <1>5 DEF Queries

(* ... and the next case adds its own queries, which are larger.             *)
LEMMA SeenNext ==
    ASSUME TypeInv, NEW c \in Cases, NextCase(c), case' = c, opts' = opts
    PROVE  /\ Seen' = Seen \cup QueriesOf(c)
           /\ \A q \in Seen : q \in Queries /\ q <= LastQuery[c - 1]
           /\ \A q \in QueriesOf(c) : q \in Queries /\ LastQuery[c - 1] < q
<1>1. \A d \in opts.scope : d <= c <=> d <= case \/ d = c
  <2> SUFFICES ASSUME NEW d \in opts.scope PROVE d <= c <=> d <= case \/ d = c OBVIOUS
  <2>1. d \in Int /\ c \in Int BY ScopeCases, CaseBounds
  <2> QED BY <2>1, NextCaseBehind
<1>2. Seen' = UNION {QueriesOf(d) : d \in {e \in opts.scope : e <= c}}
  BY DEF Seen, QueriesOf
<1>3. Seen' = Seen \cup QueriesOf(c)
  BY <1>1, <1>2 DEF Seen, NextCase
<1>4. LastQuery[case] <= LastQuery[c - 1]
  <2>1. case \in 0..NumCases /\ c - 1 \in 0..NumCases /\ case < c /\ c \in Int
    BY CaseBounds DEF TypeInv, TypeOK, NextCase
  <2>2. LastQuery[case] \in Int BY <2>1, ReleaseRunAssumption
  <2> QED BY <2>1, <2>2, ReleaseRunAssumption
<1>5. \A q \in Seen : q \in Queries /\ q <= LastQuery[c - 1]
  <2>1. case \in 0..NumCases BY DEF TypeInv, TypeOK
  <2>2. LastQuery[case] \in Int /\ LastQuery[c - 1] \in Int BY <2>1, CaseBounds, ReleaseRunAssumption
  <2> QED BY <1>4, <2>2, SeenUpTo DEF Queries
<1>6. \A q \in QueriesOf(c) : q \in Queries /\ LastQuery[c - 1] < q
  BY CaseBounds DEF QueriesOf
<1> QED BY <1>3, <1>5, <1>6

(* TraceLedger is inductive with what a stopped process leaves: the next one *)
(* starts with its first attempt and without rows.                           *)
TraceInv ==
    /\ pc \in Stopped => attempt = 1 /\ traces = <<>>
    /\ TraceLedger

Done == {q \in Seen : InCase => q <= query}

LEMMA TraceLedgerParts ==
    TraceLedger <=> (opts.traced /\ attempt = 1 /\ pc \in Running =>
                        Ascending(traces) /\ Elements(traces) = Done)
BY DEF TraceLedger, Ascending, Elements, Done, InCase

(* A step that keeps the rows, and what they stand for.                      *)
LEMMA KeepTrace ==
    ASSUME TraceInv, pc \in Running, pc' \in Running,
           UNCHANGED <<opts, attempt, traces>>, Done' = Done
    PROVE  TraceInv'
<1>1. pc' \notin Stopped BY DEF Running, Stopped
<1>2. opts.traced /\ attempt = 1 => Ascending(traces) /\ Elements(traces) = Done
  BY TraceLedgerParts DEF TraceInv
<1>3. TraceLedger'
  BY <1>2 DEF TraceLedger, Ascending, Elements, Done, InCase
<1> QED BY <1>1, <1>3 DEF TraceInv

LEMMA StopTrace ==
    ASSUME NEW outcome \in Stopped, Stop(outcome) PROVE TraceInv'
BY DEF Stop, TraceInv, TraceLedger, Stopped, Running

LEMMA FailTrace ==
    ASSUME TypeInv, NEW rows, AttemptFails(rows) PROVE TraceInv'
<1>1. CASE MayRetry
  <2>1. pc' = "load" /\ attempt' = attempt + 1 /\ attempt \in Nat \ {0}
    BY <1>1, ReleaseRunAssumption DEF AttemptFails, NextAttempt, TypeInv, TypeOK, Attempts
  <2>2. attempt' # 1 BY <2>1
  <2> QED BY <2>1, <2>2 DEF TraceInv, TraceLedger, Stopped
<1>2. CASE ~MayRetry
  BY <1>2, StopTrace DEF AttemptFails, Stopped
<1> QED BY <1>1, <1>2

LEMMA AnswerTrace ==
    ASSUME TypeInv, SourceInv, LoopInv, TraceInv, NEW q \in Queries, NEW status, Answer(q, status)
    PROVE  TraceInv'
<1>1. /\ pc = "query" /\ pc' = "answered" /\ InCase /\ InCase' /\ query' = q /\ q = query + 1
      /\ UNCHANGED <<opts, attempt, case>> /\ q <= LastQuery[case]
      /\ traces' = IF opts.traced THEN Append(traces, q) ELSE traces
  BY DEF Answer, Trace, InCase
<1> SUFFICES ASSUME opts.traced, attempt = 1 PROVE TraceLedger'
  BY <1>1 DEF TraceInv, TraceLedger, Stopped
<1>2. Ascending(traces) /\ Elements(traces) = Done
  BY <1>1, TraceLedgerParts DEF TraceInv, Running
<1>3. case \in Cases /\ case \in opts.scope /\ LastQuery[case - 1] <= query /\ query \in Int
  BY <1>1 DEF LoopInv, SourceInv, TypeInv, TypeOK
<1>4. q \in Seen
  <2>1. q \in QueriesOf(case) BY <1>1, <1>3, CaseBounds DEF QueriesOf
  <2>2. case <= case BY <1>3, CaseBounds
  <2> QED BY <1>3, <2>1, <2>2 DEF Seen
<1>5. \A r \in Seen : r \in Int BY SeenUpTo DEF Queries
<1>6. \A r \in Done : r < q BY <1>1, <1>3, <1>5 DEF Done
<1>7. Seen' = Seen BY <1>1 DEF Seen, QueriesOf
<1>8. Done' = Done \cup {q}
  <2>1. Done = {r \in Seen : r <= query} BY <1>1 DEF Done
  <2>2. Done' = {r \in Seen : r <= q} BY <1>1, <1>7 DEF Done
  <2>3. \A r \in Seen : r <= q <=> r <= query \/ r = q BY <1>1, <1>3, <1>5
  <2> QED BY <1>4, <2>1, <2>2, <2>3
<1>9. Ascending(traces') /\ Elements(traces') = Elements(traces) \cup {q}
  BY <1>1, <1>2, <1>6, AppendAscending DEF TypeInv, TypeOK
<1>10. Ascending(traces)' /\ Elements(traces)' = Done'
  BY <1>2, <1>8, <1>9 DEF Ascending, Elements
<1> QED BY <1>10 DEF TraceLedger, Ascending, Elements, Done, InCase

LEMMA SkipTrace ==
    ASSUME TypeInv, TraceInv, NEW c \in Cases, SkipCase(c)
    PROVE  TraceInv'
<1>1. /\ pc = "case" /\ NextCase(c) /\ case' = c /\ pc' \in {"case", "shard"}
      /\ UNCHANGED <<opts, attempt>> /\ ~InCase /\ ~InCase'
      /\ traces' = IF opts.traced THEN traces \o SkippedRows(c) ELSE traces
  BY DEF SkipCase, AfterCase, InCase
<1> SUFFICES ASSUME opts.traced, attempt = 1 PROVE TraceLedger'
  BY <1>1 DEF TraceInv, TraceLedger, Stopped
<1>2. Ascending(traces) /\ Elements(traces) = Seen
  BY <1>1, TraceLedgerParts DEF TraceInv, Running, Done
<1>3. /\ Seen' = Seen \cup QueriesOf(c)
      /\ \A q \in Seen : q \in Queries /\ q <= LastQuery[c - 1]
      /\ \A q \in QueriesOf(c) : q \in Queries /\ LastQuery[c - 1] < q
  BY <1>1, SeenNext
<1>4. \A x \in Elements(traces), y \in Elements(SkippedRows(c)) : x < y
  BY <1>2, <1>3, RowsAscending, CaseBounds DEF Queries
<1>5. /\ Ascending(traces \o SkippedRows(c))
      /\ Elements(traces \o SkippedRows(c)) = Seen \cup QueriesOf(c)
  BY <1>2, <1>4, RowsAscending, RowsType, ConcatAscending DEF TypeInv, TypeOK
<1>6. Done' = Seen \cup QueriesOf(c) BY <1>1, <1>3 DEF Done
<1>7. Ascending(traces)' /\ Elements(traces)' = Done'
  BY <1>1, <1>5, <1>6 DEF Ascending, Elements
<1> QED BY <1>7 DEF TraceLedger, Ascending, Elements, Done, InCase

LEMMA BeginTrace ==
    ASSUME TypeInv, TraceInv, NEW c \in Cases, BeginCase(c)
    PROVE  TraceInv'
<1>1. /\ pc = "case" /\ NextCase(c) /\ case' = c /\ pc' = "observe" /\ query' = LastQuery[c - 1]
      /\ UNCHANGED <<opts, attempt, traces>> /\ ~InCase /\ InCase'
  BY DEF BeginCase, InCase
<1>2. /\ Seen' = Seen \cup QueriesOf(c)
      /\ \A q \in Seen : q \in Queries /\ q <= LastQuery[c - 1]
      /\ \A q \in QueriesOf(c) : q \in Queries /\ LastQuery[c - 1] < q
  BY <1>1, SeenNext
<1>3. \A q \in QueriesOf(c) : ~(q <= LastQuery[c - 1])
  BY <1>2, CaseBounds DEF Queries
<1>4. Done' = Done BY <1>1, <1>2, <1>3 DEF Done
<1> QED BY <1>1, <1>4, KeepTrace DEF Running

LEMMA ReportCaseTrace ==
    ASSUME TypeInv, LoopInv, TraceInv, ReportCase PROVE TraceInv'
<1>1. /\ pc = "ended" /\ query = LastQuery[case] /\ pc' \in {"case", "shard"}
      /\ UNCHANGED <<opts, attempt, traces, case>> /\ ~InCase'
  BY DEF ReportCase, AfterCase, InCase, LoopInv
<1>2. Seen' = Seen /\ \A q \in Seen : q <= query
  BY <1>1, SeenUpTo DEF Seen, QueriesOf
<1>3. Done' = Done BY <1>1, <1>2 DEF Done
<1> QED BY <1>1, <1>3, KeepTrace DEF Running

(* Steps that do not move the loop.                                          *)
LEMMA StillTrace ==
    ASSUME TraceInv, pc \in Running, pc' \in Running, UNCHANGED <<opts, attempt, traces, case>>,
           InCase' = InCase, InCase => query' = query
    PROVE  TraceInv'
<1>1. Done' = Done BY DEF Done, Seen, QueriesOf
<1> QED BY <1>1, KeepTrace

LEMMA StartTrace ==
    ASSUME TypeInv, LoopInv, TraceInv, NEW o \in Options, StartRun(o) PROVE TraceInv'
<1>1. /\ pc' = "load" /\ attempt' = 1 /\ traces' = <<>> /\ case' = 0 /\ opts' = o
  BY DEF StartRun, TraceInv, LoopInv
<1>2. \A d \in o.scope : ~(d <= 0) BY ReleaseRunAssumption DEF Options, Cases
<1>3. Seen' = {} BY <1>1, <1>2 DEF Seen
<1> QED BY <1>1, <1>3 DEF TraceInv, TraceLedger, Stopped

LEMMA InitTrace == Init => TraceInv
BY DEF Init, TraceInv, TraceLedger, Stopped, Running

LEMMA TraceStep ==
    TypeInv /\ SourceInv /\ LoopInv /\ TraceInv /\ [Next]_vars => TraceInv'
<1> SUFFICES ASSUME TypeInv, SourceInv, LoopInv, TraceInv, [Next]_vars PROVE TraceInv' OBVIOUS
<1>1. ASSUME NEW o \in Options, StartRun(o) PROVE TraceInv' BY <1>1, StartTrace
<1>2. CASE LoadCheckpoint
  <2>1. CASE AttemptFails(traces) BY <2>1, FailTrace
  <2>2. CASE pc' = "case" /\ UNCHANGED <<opts, attempt, traces, case>>
    BY <1>2, <2>2, StillTrace DEF LoadCheckpoint, Running, InCase
  <2> QED BY <1>2, <2>1, <2>2 DEF LoadCheckpoint
<1>3. ASSUME NEW c \in Cases, SkipCase(c) PROVE TraceInv' BY <1>3, SkipTrace
<1>4. ASSUME NEW c \in Cases, BeginCase(c) PROVE TraceInv' BY <1>4, BeginTrace
<1>5. CASE ObserveSessions BY <1>5, StillTrace DEF ObserveSessions, Running, InCase
<1>6. CASE SetupRaises BY <1>6, FailTrace DEF SetupRaises
<1>7. ASSUME NEW q \in Queries, AnswerQuery(q) PROVE TraceInv' BY <1>7, AnswerTrace DEF AnswerQuery
<1>8. ASSUME NEW q \in Queries, RecordFailure(q) PROVE TraceInv'
  BY <1>8, AnswerTrace DEF RecordFailure
<1>9. ASSUME NEW q \in Queries, AnswerInvalid(q) PROVE TraceInv'
  BY <1>9, AnswerTrace DEF AnswerInvalid
<1>10. ASSUME NEW q \in Queries, AnswerRaises(q) PROVE TraceInv' BY <1>10, FailTrace DEF AnswerRaises
<1>11. ASSUME NEW q \in Queries, AnswerMalformed(q) PROVE TraceInv'
  BY <1>11, FailTrace DEF AnswerMalformed
<1>12. CASE EndCase BY <1>12, StillTrace DEF EndCase, Running, InCase
<1>20. CASE ReportAnswer BY <1>20, StillTrace DEF ReportAnswer, Running, InCase
<1>21. CASE ReportCase BY <1>21, ReportCaseTrace
<1>13. CASE ValidateShard
  <2>1. CASE ShardValid BY <1>13, <2>1, StillTrace DEF ValidateShard, Running, InCase
  <2>2. CASE ~ShardValid BY <1>13, <2>2, FailTrace DEF ValidateShard
  <2> QED BY <2>1, <2>2
<1>14. CASE FinishLoop BY <1>14, StillTrace DEF FinishLoop, Running, InCase
<1>15. CASE OpenPredictions BY <1>15, StillTrace DEF OpenPredictions, Running, InCase
<1>16. CASE WritePredictions BY <1>16, StillTrace DEF WritePredictions, Running, InCase
<1>17. CASE Package
  <2>1. \E outcome \in Stopped : Stop(outcome) BY <1>17 DEF Package, Stopped
  <2> QED BY <2>1, StopTrace
<1>18. CASE Crash BY <1>18, StopTrace DEF Crash, Stopped
<1>19. CASE UNCHANGED vars
  BY <1>19 DEF vars, TraceInv, TraceLedger, Seen, QueriesOf, InCase
<1> QED
  BY <1>1, <1>2, <1>3, <1>4, <1>5, <1>6, <1>7, <1>8, <1>9, <1>10, <1>11, <1>12,
     <1>13, <1>14, <1>15, <1>16, <1>17, <1>18, <1>19, <1>20, <1>21
  DEF Next, Step, AgentFault

(* On its first attempt an invocation has exactly one trace row, in release  *)
(* order, for every query it has answered, answered before or skipped.       *)
THEOREM TracesFollowTheLoop == Spec => []TraceLedger
<1>1. TraceInv => TraceLedger BY DEF TraceInv
<1> QED BY InitType, TypeStep, InitSource, SourceStep, InitLoop, LoopStep, InitTrace, TraceStep,
           <1>1, PTL DEF Spec

-----------------------------------------------------------------------------
(* Invocations that select the same cases, each with queries (OneSelection), *)
(* and checkpoint: the disk holds complete cases up to one that may be       *)
(* partial, so does memory, and they agree on every case complete in memory. *)

Full(p, c) == \A q \in QueriesOf(c) : p[q] # NoPrediction

Blank(p, c) == \A q \in QueriesOf(c) : p[q] = NoPrediction

Alike(f, p, c) == \A q \in QueriesOf(c) : f[q] = p[q]

Prefix(S, p) == \A c, d \in S : c < d => Full(p, c) \/ Blank(p, d)

AlwaysCheckpointing == MaxAttempts > 1 \/ ResumeChoices = {TRUE}

InLoop == pc \in Running \ {"load", "saving"}

DiskInv ==
    /\ fileState # "whole" => file = Empty
    /\ \A c \in Cases \ opts.scope : Blank(file, c)
    /\ Prefix(opts.scope, file) /\ Prefix(opts.scope, preds)
    /\ InCase =>
         /\ \A c \in opts.scope : case < c => Blank(preds, c)
         /\ \A q \in QueriesOf(case) : query < q => preds[q] = NoPrediction
    /\ InLoop => \A c \in opts.scope : Full(preds, c) => Alike(file, preds, c)

LEMMA Selected ==
    ASSUME OneSelection, TypeInv
    PROVE  /\ \A o \in Options : o.scope = opts.scope
           /\ \A c \in opts.scope : /\ c \in Cases /\ c \in Int /\ QueriesOf(c) # {}
                                    /\ QueriesOf(c) \subseteq Queries
           /\ opts.scope \in Scopes /\ UNION Scopes = opts.scope
<1>1. opts.scope \in Scopes BY DEF TypeInv, TypeOK, Options
<1>2. UNION Scopes = opts.scope BY <1>1 DEF OneSelection
<1> QED BY <1>1, <1>2, ScopeCases, CaseBounds DEF OneSelection, Options

(* The parts of the invariant of the next state.                             *)
LEMMA DiskIntro ==
    ASSUME opts'.scope = opts.scope,
           fileState' # "whole" => file' = Empty,
           \A c \in Cases \ opts.scope : Blank(file', c),
           Prefix(opts.scope, file'), Prefix(opts.scope, preds'),
           InCase' =>
             /\ \A c \in opts.scope : case' < c => Blank(preds', c)
             /\ \A q \in QueriesOf(case') : query' < q => preds'[q] = NoPrediction,
           pc' \in Running \ {"load", "saving"} =>
             \A c \in opts.scope : Full(preds', c) => Alike(file', preds', c)
    PROVE  DiskInv'
BY DEF DiskInv, InCase, InLoop, Prefix, Full, Blank, Alike, QueriesOf, Running, Empty

LEMMA EmptyDisk ==
    ASSUME OneSelection, TypeInv
    PROVE  /\ \A c \in Cases : Blank(Empty, c)
           /\ \A c \in opts.scope : ~Full(Empty, c)
           /\ Prefix(opts.scope, Empty)
<1>1. \A q \in Queries : Empty[q] = NoPrediction BY DEF Empty
<1>2. \A c \in Cases : Blank(Empty, c) BY <1>1, CaseBounds DEF Blank
<1>3. \A c \in opts.scope : c \in Cases /\ QueriesOf(c) # {} BY Selected
<1> QED BY <1>2, <1>3 DEF Full, Blank, Prefix

(* What a checkpoint writes when nothing is ahead of the loop in memory is   *)
(* all that memory holds of the selection.                                   *)
LEMMA OrderedDisk ==
    ASSUME OneSelection, TypeInv, NEW p, Prefix(opts.scope, p),
           \A c \in opts.scope : case < c => Blank(p, c)
    PROVE  /\ \A c \in Cases \ opts.scope : Blank(Ordered(p), c)
           /\ \A c \in opts.scope : Alike(Ordered(p), p, c)
           /\ Prefix(opts.scope, Ordered(p))
<1>1. \A q \in Queries : Ordered(p)[q] = IF q \in Seen THEN p[q] ELSE NoPrediction
  BY DEF Ordered
<1>2. \A c \in opts.scope : /\ c \in Cases /\ c \in Int /\ case \in Int
                            /\ QueriesOf(c) \subseteq Queries
  BY Selected DEF TypeInv, TypeOK
<1>3. ASSUME NEW c \in Cases \ opts.scope PROVE Blank(Ordered(p), c)
  <2> SUFFICES ASSUME NEW q \in QueriesOf(c) PROVE q \in Queries /\ q \notin Seen
    BY <1>1 DEF Blank
  <2>1. q \in Queries BY CaseBounds
  <2>2. \A d \in opts.scope : q \notin QueriesOf(d) BY <1>2, CasesDisjoint
  <2> QED BY <2>1, <2>2 DEF Seen
<1>4. ASSUME NEW c \in opts.scope PROVE Alike(Ordered(p), p, c)
  <2>1. CASE c <= case
    <3>1. \A q \in QueriesOf(c) : q \in Seen BY <2>1 DEF Seen
    <3> QED BY <1>1, <1>2, <3>1 DEF Alike
  <2>2. CASE case < c
    <3>1. Blank(p, c) BY <2>2
    <3> QED BY <1>1, <1>2, <3>1 DEF Alike, Blank
  <2> QED BY <1>2, <2>1, <2>2
<1>5. Prefix(opts.scope, Ordered(p))
  BY <1>4 DEF Prefix, Full, Blank, Alike
<1> QED BY <1>3, <1>4, <1>5

LEMMA AlwaysResumed == ASSUME TypeInv, ResumeChoices = {TRUE} PROVE opts.resume
<1>1. opts.resume \in ResumeChoices BY DEF TypeInv, TypeOK, Options
<1>2. opts.resume = TRUE BY <1>1
<1> QED BY <1>2

(* A checkpoint inside a case.                                               *)
LEMMA CheckpointDisk ==
    ASSUME OneSelection, AlwaysCheckpointing, TypeInv, Checkpoint(preds'),
           UNCHANGED <<opts, case>>, Prefix(opts.scope, preds'),
           \A c \in opts.scope : case < c => Blank(preds', c),
           InCase' =>
             \A q \in QueriesOf(case') : query' < q => preds'[q] = NoPrediction
    PROVE  /\ DiskInv' /\ fileState' = "whole" /\ file' = Ordered(preds')
           /\ \A c \in opts.scope : Alike(file', preds', c)
<1>1. Checkpointing
  <2>1. CASE MaxAttempts > 1 BY <2>1 DEF Checkpointing
  <2>2. CASE ResumeChoices = {TRUE} BY <2>2, AlwaysResumed DEF Checkpointing
  <2> QED BY <2>1, <2>2 DEF AlwaysCheckpointing
<1>2. fileState' = "whole" /\ file' = Ordered(preds') BY <1>1 DEF Checkpoint
<1>3. /\ \A c \in Cases \ opts.scope : Blank(file', c)
      /\ \A c \in opts.scope : Alike(file', preds', c)
      /\ Prefix(opts.scope, file')
  BY <1>2, OrderedDisk
<1> QED BY <1>2, <1>3, DiskIntro

(* An attempt or a process that ends leaves the disk as it is.               *)
LEMMA EndDisk ==
    ASSUME OneSelection, TypeInv, DiskInv, UNCHANGED durable, opts'.scope = opts.scope,
           preds' = Empty, pc' \in Stopped \cup {"load"}
    PROVE  DiskInv'
<1>1. fileState' = fileState /\ file' = file BY DEF durable
<1>2. ~InCase' /\ pc' \notin Running \ {"load", "saving"}
  BY DEF Stopped, Running, InCase
<1> QED BY <1>1, <1>2, EmptyDisk, DiskIntro DEF DiskInv

LEMMA FailDisk ==
    ASSUME OneSelection, TypeInv, DiskInv, NEW rows, AttemptFails(rows), UNCHANGED durable
    PROVE  DiskInv'
<1>1. preds' = Empty /\ pc' \in Stopped \cup {"load"} /\ opts' = opts
  BY DEF AttemptFails, Stop, Stopped
<1> QED BY <1>1, EndDisk

(* A step that keeps disk and memory and enters no case.                     *)
LEMMA SameDisk ==
    ASSUME DiskInv, InLoop, UNCHANGED <<fileState, file, opts, preds>>,
           ~InCase' \/ (InCase /\ UNCHANGED <<case, query>>)
    PROVE  DiskInv'
BY DiskIntro DEF DiskInv, InCase

-----------------------------------------------------------------------------
(* Where a query can be answered: in the current case, which has nothing     *)
(* after the last answer.                                                    *)
LEMMA AnswerPlace ==
    ASSUME TypeInv, SourceInv, LoopInv, DiskInv, NEW q \in Queries, NEW status, Answer(q, status)
    PROVE  /\ InCase /\ InCase' /\ case \in opts.scope /\ case \in Cases
           /\ q \in QueriesOf(case) /\ preds[q] = NoPrediction /\ q = query + 1 /\ query \in Int
           /\ \A d \in Cases : d # case => Alike(preds', preds, d)
           /\ \A r \in QueriesOf(case) : r # q => preds'[r] = preds[r]
<1>1. /\ pc = "query" /\ pc' = "answered" /\ InCase /\ InCase' /\ q = query + 1
      /\ q <= LastQuery[case]
      /\ \E x : preds' = [preds EXCEPT ![q] = x]
  BY DEF Answer, InCase
<1>2. case \in Cases /\ case \in opts.scope /\ LastQuery[case - 1] <= query /\ query \in Int
  BY <1>1 DEF LoopInv, SourceInv, TypeInv, TypeOK
<1>3. q \in QueriesOf(case) BY <1>1, <1>2, CaseBounds DEF QueriesOf
<1>4. preds[q] = NoPrediction BY <1>1, <1>2, <1>3 DEF DiskInv
<1>5. \A r \in Queries : r # q => preds'[r] = preds[r]
  BY <1>1 DEF TypeInv, TypeOK, PredictionMap
<1>6. \A r \in QueriesOf(case) : r # q => preds'[r] = preds[r] BY <1>2, <1>5, CaseBounds
<1>7. ASSUME NEW d \in Cases, d # case PROVE Alike(preds', preds, d)
  <2>1. QueriesOf(d) \subseteq Queries /\ q \notin QueriesOf(d)
    BY <1>2, <1>3, <1>7, CaseBounds, CasesDisjoint
  <2> QED BY <1>5, <2>1 DEF Alike
<1> QED BY <1>1, <1>2, <1>3, <1>4, <1>6, <1>7

LEMMA AnswerDisk ==
    ASSUME OneSelection, AlwaysCheckpointing, TypeInv, SourceInv, LoopInv, DiskInv,
           NEW q \in Queries, NEW status, Answer(q, status)
    PROVE  /\ DiskInv' /\ fileState' = "whole" /\ file' = Ordered(preds')
           /\ \A c \in opts.scope : Alike(file', preds', c)
<1>1. /\ InCase /\ InCase' /\ case \in opts.scope /\ case \in Cases
      /\ q \in QueriesOf(case) /\ q = query + 1 /\ query \in Int
      /\ \A d \in Cases : d # case => Alike(preds', preds, d)
      /\ \A r \in QueriesOf(case) : r # q => preds'[r] = preds[r]
  BY AnswerPlace
<1>2. \A d \in opts.scope : d \in Cases /\ d \in Int /\ case \in Int BY <1>1, Selected
<1>3. \A d \in opts.scope : d < case => Full(preds', d)
  <2> SUFFICES ASSUME NEW d \in opts.scope, d < case PROVE Full(preds', d) OBVIOUS
  <2>1. Answered(d) BY <1>1 DEF LoopInv, InCase, Running
  <2>2. d # case BY <1>2
  <2>3. Alike(preds', preds, d) BY <1>1, <1>2, <2>2
  <2> QED BY <2>1, <2>3 DEF Answered, Full, Alike
<1>4. \A d \in opts.scope : case < d => Blank(preds', d)
  <2> SUFFICES ASSUME NEW d \in opts.scope, case < d PROVE Blank(preds', d) OBVIOUS
  <2>1. Blank(preds, d) BY <1>1 DEF DiskInv
  <2>2. d # case BY <1>2
  <2>3. Alike(preds', preds, d) BY <1>1, <1>2, <2>2
  <2> QED BY <2>1, <2>3 DEF Blank, Alike
<1>5. Prefix(opts.scope, preds')
  <2> SUFFICES ASSUME NEW x \in opts.scope, NEW y \in opts.scope, x < y
               PROVE  Full(preds', x) \/ Blank(preds', y)
    BY DEF Prefix
  <2>1. x < case \/ case < y BY <1>2
  <2> QED BY <1>3, <1>4, <2>1
<1>6. \A r \in QueriesOf(case) : q < r => preds'[r] = NoPrediction
  <2> SUFFICES ASSUME NEW r \in QueriesOf(case), q < r PROVE preds'[r] = NoPrediction OBVIOUS
  <2>1. r \in Int BY <1>1, CaseBounds DEF QueriesOf
  <2>2. r # q /\ query < r BY <1>1, <2>1
  <2> QED BY <1>1, <2>2 DEF DiskInv
<1>7. UNCHANGED <<opts, case>> /\ query' = q /\ Checkpoint(preds')
  BY DEF Answer, KeepThenReport
<1>8. InCase' =>
        \A r \in QueriesOf(case') : query' < r => preds'[r] = NoPrediction
  BY <1>6, <1>7
<1> QED BY <1>4, <1>5, <1>7, <1>8, CheckpointDisk

LEMMA EndCaseDisk ==
    ASSUME OneSelection, AlwaysCheckpointing, TypeInv, DiskInv, EndCase
    PROVE  /\ DiskInv' /\ fileState' = "whole" /\ file' = Ordered(preds')
           /\ \A c \in opts.scope : Alike(file', preds', c)
<1>1. /\ InCase /\ UNCHANGED <<opts, case, query, preds>> /\ Checkpoint(preds')
  BY DEF EndCase, KeepThenReport, InCase
<1>2. /\ Prefix(opts.scope, preds') /\ \A c \in opts.scope : case < c => Blank(preds', c)
      /\ \A q \in QueriesOf(case') : query' < q => preds'[q] = NoPrediction
  BY <1>1 DEF DiskInv
<1> QED BY <1>1, <1>2, CheckpointDisk

LEMMA BeginDisk ==
    ASSUME OneSelection, TypeInv, LoopInv, DiskInv, NEW c \in Cases, BeginCase(c)
    PROVE  DiskInv'
<1>1. /\ pc = "case" /\ pc' = "observe" /\ NextCase(c) /\ case' = c /\ ~CaseComplete(preds, c)
      /\ preds' = DropCase(preds, c) /\ UNCHANGED <<fileState, file, opts>>
      /\ InLoop /\ ~InCase /\ pc \in Running /\ c \in opts.scope
  BY DEF BeginCase, InLoop, InCase, Running, NextCase
<1>2. \A d \in opts.scope : /\ d \in Cases /\ d \in Int /\ case \in Int
                            /\ QueriesOf(d) # {} /\ QueriesOf(d) \subseteq Queries
                            /\ (d < c <=> d <= case)
  BY <1>1, Selected, NextCaseBehind DEF TypeInv, TypeOK
<1>3. \A q \in Queries : preds'[q] = IF q \in QueriesOf(c) THEN NoPrediction ELSE preds[q]
  BY <1>1 DEF DropCase
<1>4. Blank(preds', c) /\ ~Full(preds', c)
  BY <1>1, <1>2, <1>3 DEF Blank, Full
<1>5. \A d \in opts.scope : d # c => Alike(preds', preds, d)
  BY <1>2, <1>3, CasesDisjoint DEF Alike
<1>6. \A d \in opts.scope : d < c => Full(preds', d)
  <2> SUFFICES ASSUME NEW d \in opts.scope, d < c PROVE Full(preds', d) OBVIOUS
  <2>1. d <= case /\ d # c BY <1>1, <1>2
  <2>2. Answered(d) BY <1>1, <1>2, <2>1 DEF LoopInv
  <2> QED BY <1>5, <2>1, <2>2 DEF Answered, Full, Alike
<1>7. \A d \in opts.scope : c < d => Blank(preds', d)
  <2> SUFFICES ASSUME NEW d \in opts.scope, c < d PROVE Blank(preds', d) OBVIOUS
  <2>1. ~Full(preds, c) BY <1>1, <1>2 DEF Full, CaseComplete
  <2>2. Blank(preds, d) BY <1>1, <2>1 DEF DiskInv, Prefix
  <2>3. d # c BY <1>1, <1>2
  <2> QED BY <1>5, <2>2, <2>3 DEF Blank, Alike
<1>8. Prefix(opts.scope, preds')
  <2> SUFFICES ASSUME NEW x \in opts.scope, NEW y \in opts.scope, x < y
               PROVE  Full(preds', x) \/ Blank(preds', y)
    BY DEF Prefix
  <2>1. x < c \/ c < y \/ y = c BY <1>1, <1>2
  <2> QED BY <1>4, <1>6, <1>7, <2>1
<1>9. \A d \in opts.scope : Full(preds', d) => Alike(file', preds', d)
  <2> SUFFICES ASSUME NEW d \in opts.scope, Full(preds', d) PROVE Alike(file', preds', d) OBVIOUS
  <2>1. d # c BY <1>4
  <2>2. Alike(preds', preds, d) BY <1>5, <2>1
  <2>3. Full(preds, d) BY <2>2 DEF Full, Alike
  <2>4. Alike(file, preds, d) BY <1>1, <2>3 DEF DiskInv
  <2> QED BY <1>1, <2>2, <2>4 DEF Alike
<1>10. \A q \in QueriesOf(c) : preds'[q] = NoPrediction BY <1>4 DEF Blank
<1> QED BY <1>1, <1>7, <1>8, <1>9, <1>10, DiskIntro DEF DiskInv

LEMMA LoadDisk ==
    ASSUME OneSelection, TypeInv, SourceInv, DiskInv, LoadCheckpoint
    PROVE  DiskInv'
<1>1. pc = "load" /\ preds = Empty /\ UNCHANGED durable /\ fileState' = fileState /\ file' = file
  BY DEF LoadCheckpoint, SourceInv, durable
<1>2. CASE AttemptFails(traces) BY <1>1, <1>2, FailDisk
<1>3. CASE pc' = "case" /\ UNCHANGED <<opts, preds>>
  <2>1. \A c \in opts.scope : ~Full(preds', c) BY <1>1, <1>3, EmptyDisk
  <2> QED BY <1>1, <1>3, <2>1, DiskIntro DEF DiskInv, InCase
<1>4. CASE pc' = "case" /\ preds' = file /\ UNCHANGED opts
  <2>1. \A c \in opts.scope : Alike(file', preds', c) BY <1>1, <1>4 DEF Alike
  <2> QED BY <1>1, <1>4, <2>1, DiskIntro DEF DiskInv, InCase
<1> QED BY <1>2, <1>3, <1>4 DEF LoadCheckpoint

(* When the loop is over nothing is ahead of it.                             *)
LEMMA SavedOrdered ==
    ASSUME OneSelection, TypeInv, LoopInv, DiskInv, Saving
    PROVE  /\ \A c \in Cases \ opts.scope : Blank(Ordered(preds), c)
           /\ \A c \in opts.scope : Alike(Ordered(preds), preds, c) /\ Full(preds, c)
           /\ Prefix(opts.scope, Ordered(preds))
<1>1. \A c \in opts.scope : c <= case /\ c \in Int /\ case \in Int
  BY Selected DEF LoopInv, TypeInv, TypeOK
<1>2. \A c \in opts.scope : Full(preds, c)
  <2> SUFFICES ASSUME NEW c \in opts.scope PROVE Answered(c) BY DEF Answered, Full
  <2>1. pc \in Running /\ ~InCase BY DEF Saving, Running, InCase
  <2> QED BY <1>1, <2>1 DEF LoopInv
<1>3. \A c \in opts.scope : case < c => Blank(preds, c) BY <1>1
<1> QED BY <1>2, <1>3, OrderedDisk DEF DiskInv

LEMMA SaveDisk ==
    ASSUME OneSelection, TypeInv, LoopInv, DiskInv, OpenPredictions \/ WritePredictions
    PROVE  DiskInv'
<1>1. CASE OpenPredictions
  <2>1. file' = Empty /\ pc' = "saving" /\ UNCHANGED <<opts, preds>> BY <1>1 DEF OpenPredictions
  <2> QED BY <2>1, EmptyDisk, DiskIntro DEF DiskInv, InCase
<1>2. CASE WritePredictions
  <2>1. /\ file' = Ordered(preds) /\ fileState' = "whole" /\ pc' = "package" /\ Saving
        /\ UNCHANGED <<opts, preds>>
    BY <1>2 DEF WritePredictions, Saving
  <2> QED BY <2>1, SavedOrdered, DiskIntro DEF DiskInv, InCase
<1> QED BY <1>1, <1>2

LEMMA InitDisk == OneSelection /\ TypeInv /\ Init => DiskInv
<1> SUFFICES ASSUME OneSelection, TypeInv, Init PROVE DiskInv OBVIOUS
<1>1. file = Empty /\ preds = Empty /\ pc = "idle" BY DEF Init
<1> QED BY <1>1, EmptyDisk DEF DiskInv, InCase, InLoop, Running

LEMMA DiskStep ==
    ASSUME OneSelection, AlwaysCheckpointing, TypeInv, SourceInv, LoopInv, DiskInv, [Next]_vars
    PROVE  DiskInv'
<1>1. ASSUME NEW o \in Options, StartRun(o) PROVE DiskInv'
  <2>1. UNCHANGED durable /\ opts'.scope = opts.scope /\ preds' = Empty /\ pc' = "load"
    BY <1>1, Selected DEF StartRun, SourceInv
  <2> QED BY <2>1, EndDisk
<1>2. CASE LoadCheckpoint BY <1>2, LoadDisk
<1>3. ASSUME NEW c \in Cases, SkipCase(c) PROVE DiskInv'
  BY <1>3, SameDisk DEF SkipCase, AfterCase, InLoop, Running, InCase
<1>4. ASSUME NEW c \in Cases, BeginCase(c) PROVE DiskInv' BY <1>4, BeginDisk
<1>5. CASE ObserveSessions
  BY <1>5, SameDisk DEF ObserveSessions, durable, InLoop, InCase, Running
<1>6. CASE SetupRaises BY <1>6, FailDisk DEF SetupRaises
<1>7. ASSUME NEW q \in Queries, AnswerQuery(q) PROVE DiskInv'
  BY <1>7, AnswerDisk DEF AnswerQuery
<1>8. ASSUME NEW q \in Queries, RecordFailure(q) PROVE DiskInv'
  BY <1>8, AnswerDisk DEF RecordFailure
<1>9. ASSUME NEW q \in Queries, AnswerInvalid(q) PROVE DiskInv'
  BY <1>9, AnswerDisk DEF AnswerInvalid
<1>10. ASSUME NEW q \in Queries, AnswerRaises(q) PROVE DiskInv'
  BY <1>10, FailDisk DEF AnswerRaises
<1>11. ASSUME NEW q \in Queries, AnswerMalformed(q) PROVE DiskInv'
  BY <1>11, FailDisk DEF AnswerMalformed
<1>12. CASE EndCase BY <1>12, EndCaseDisk
<1>19. CASE ReportAnswer
  BY <1>19, SameDisk DEF ReportAnswer, KeepThenReport, InLoop, InCase, Running
<1>20. CASE ReportCase
  BY <1>20, SameDisk DEF ReportCase, KeepThenReport, AfterCase, InLoop, InCase, Running
<1>13. CASE ValidateShard
  <2>1. CASE ShardValid
    BY <1>13, <2>1, SameDisk DEF ValidateShard, durable, InLoop, Running, InCase
  <2>2. CASE ~ShardValid BY <1>13, <2>2, FailDisk DEF ValidateShard
  <2> QED BY <2>1, <2>2
<1>14. CASE FinishLoop BY <1>14, SameDisk DEF FinishLoop, InLoop, Running, InCase
<1>15. CASE OpenPredictions \/ WritePredictions BY <1>15, SaveDisk
<1>16. CASE Package
  <2>1. preds' = Empty /\ pc' \in Stopped /\ UNCHANGED <<durable, opts>>
    BY <1>16 DEF Package, Stop, Stopped
  <2> QED BY <2>1, EndDisk
<1>17. CASE Crash
  <2>1. preds' = Empty /\ pc' \in Stopped /\ UNCHANGED <<durable, opts>>
    BY <1>17 DEF Crash, Stop, Stopped
  <2> QED BY <2>1, EndDisk
<1>18. CASE UNCHANGED vars
  <2>1. UNCHANGED <<fileState, file, opts, preds, pc, case, query>> BY <1>18 DEF vars
  <2> QED BY <2>1, DiskIntro DEF DiskInv, InCase, InLoop
<1> QED
  BY <1>1, <1>2, <1>3, <1>4, <1>5, <1>6, <1>7, <1>8, <1>9, <1>10, <1>11, <1>12,
     <1>13, <1>14, <1>15, <1>16, <1>17, <1>18, <1>19, <1>20
  DEF Next, Step, AgentFault

-----------------------------------------------------------------------------
(* The case counter of run_state.json.  It counts at most the cases behind   *)
(* the loop, all of which are on disk.                                       *)

BehindLoop == {c \in opts.scope : c < case \/ (c = case /\ ~InCase)}

OnDisk(f) == {c \in Cases : \A q \in QueriesOf(c) : f[q] # NoPrediction}

LiveInv ==
    /\ fileState # "torn" => live.completed <= Cardinality(OnDisk(file))
    /\ pc \in Running => completed <= Cardinality(BehindLoop)
    /\ InCase \/ pc \in {"save", "saving"} => live.completed = completed

LEMMA FiniteCases ==
    ASSUME TypeInv
    PROVE  /\ IsFiniteSet(Cases)
           /\ \A S \in SUBSET Cases : IsFiniteSet(S) /\ Cardinality(S) \in Nat
           /\ \A S, T \in SUBSET Cases : S \subseteq T => Cardinality(S) <= Cardinality(T)
<1>1. NumCases \in Nat BY ReleaseRunAssumption
<1>2. IsFiniteSet(Cases) BY <1>1, FS_Interval DEF Cases
<1>3. \A S \in SUBSET Cases : IsFiniteSet(S) /\ Cardinality(S) \in Nat
  BY <1>2, FS_Subset, FS_CardinalityType
<1>4. \A S, T \in SUBSET Cases : S \subseteq T => Cardinality(S) <= Cardinality(T)
  BY <1>3, FS_Subset
<1> QED BY <1>2, <1>3, <1>4

(* In the loop and after it, what is counted is on disk.                     *)
Counted ==
    TypeInv /\ LoopInv /\ DiskInv /\ InLoop /\ completed <= Cardinality(BehindLoop)
        => completed <= Cardinality(OnDisk(file))

LEMMA CountedOnDisk == Counted
<1> SUFFICES ASSUME TypeInv, LoopInv, DiskInv, InLoop, completed <= Cardinality(BehindLoop)
             PROVE  completed <= Cardinality(OnDisk(file))
  BY DEF Counted
<1>1. BehindLoop \subseteq OnDisk(file)
  <2> SUFFICES ASSUME NEW c \in opts.scope, c < case \/ (c = case /\ ~InCase)
               PROVE  c \in OnDisk(file)
    BY DEF BehindLoop
  <2>1. Answered(c) BY DEF LoopInv, InLoop
  <2>2. Alike(file, preds, c) BY <2>1 DEF DiskInv, Answered, Full
  <2>3. c \in Cases BY ScopeCases
  <2> QED BY <2>1, <2>2, <2>3 DEF Answered, Alike, OnDisk
<1>2. BehindLoop \in SUBSET Cases /\ OnDisk(file) \in SUBSET Cases
  BY ScopeCases DEF BehindLoop, OnDisk
<1>3. /\ Cardinality(BehindLoop) <= Cardinality(OnDisk(file))
      /\ Cardinality(BehindLoop) \in Nat /\ Cardinality(OnDisk(file)) \in Nat
  BY <1>1, <1>2, FiniteCases
<1>4. completed \in Int BY DEF TypeInv, TypeOK
<1> QED BY <1>3, <1>4

(* The parts of the invariant of the next state.                             *)
LEMMA LiveStays ==
    ASSUME LiveInv, UNCHANGED <<fileState, file, live>>,
           InCase' \/ pc' \in {"save", "saving"} => live.completed = completed',
           pc' \in Running => completed' <= Cardinality(BehindLoop')
    PROVE  LiveInv'
BY DEF LiveInv, OnDisk, QueriesOf

LEMMA CountedOnDiskNext == Counted'
BY CountedOnDisk, PTL

LEMMA LiveWritten ==
    ASSUME TypeInv', LoopInv', DiskInv', InLoop',
           live'.completed = completed', completed' <= Cardinality(BehindLoop')
    PROVE  LiveInv'
<1>1. completed' <= Cardinality(OnDisk(file)')
  BY CountedOnDiskNext DEF Counted
<1> QED BY <1>1 DEF LiveInv, OnDisk, QueriesOf

(* A process that starts, restarts or ends has nothing behind it.            *)
LEMMA LiveAfresh ==
    ASSUME LiveInv, TypeInv', UNCHANGED <<fileState, file, live>>, completed' = 0,
           ~InCase', pc' \notin {"save", "saving"}
    PROVE  LiveInv'
<1>1. opts'.scope \subseteq Cases
  BY ReleaseRunAssumption DEF TypeInv, TypeOK, Options
<1>2. BehindLoop' \in SUBSET Cases BY <1>1 DEF BehindLoop, InCase
<1>3. IsFiniteSet(Cases)
  BY ReleaseRunAssumption, FS_Interval DEF Cases
<1>4. Cardinality(BehindLoop') \in Nat BY <1>2, <1>3, FS_Subset, FS_CardinalityType
<1> QED BY <1>4, LiveStays

LEMMA FailLive ==
    ASSUME LiveInv, TypeInv', NEW rows, AttemptFails(rows), UNCHANGED durable PROVE LiveInv'
<1>1. completed' = 0 /\ pc' \in Stopped \cup {"load"} /\ UNCHANGED <<fileState, file, live>>
  BY DEF AttemptFails, Stop, Stopped, durable
<1> QED BY <1>1, LiveAfresh DEF Stopped, InCase

LEMMA StopLive ==
    ASSUME LiveInv, TypeInv', NEW outcome \in Stopped, Stop(outcome), UNCHANGED durable
    PROVE  LiveInv'
BY LiveAfresh DEF Stop, Stopped, durable, InCase

(* Passing a case, which was not behind the loop before.                     *)
LEMMA OneMoreBehind ==
    ASSUME TypeInv, NEW c \in opts.scope, c \notin BehindLoop, BehindLoop' = BehindLoop \cup {c},
           completed <= Cardinality(BehindLoop), completed' = completed + 1
    PROVE  completed' <= Cardinality(BehindLoop')
<1>1. BehindLoop \in SUBSET Cases BY ScopeCases DEF BehindLoop
<1>2. IsFiniteSet(BehindLoop) /\ Cardinality(BehindLoop) \in Nat BY <1>1, FiniteCases
<1>3. Cardinality(BehindLoop \cup {c}) = Cardinality(BehindLoop) + 1
  BY <1>2, FS_AddElement
<1> QED BY <1>2, <1>3 DEF TypeInv, TypeOK

LEMMA LiveStep ==
    ASSUME OneSelection, AlwaysCheckpointing, TypeInv, SourceInv, LoopInv, ShardInv, DiskInv,
           LiveInv, [Next]_vars
    PROVE  LiveInv'
<1>t. TypeInv' /\ LoopInv' /\ DiskInv' BY TypeStep, LoopStep, DiskStep
<1>a. \A d \in opts.scope : d \in Int /\ d \in Cases /\ case \in Int
  BY Selected DEF TypeInv, TypeOK
<1>1. ASSUME NEW o \in Options, StartRun(o) PROVE LiveInv'
  <2>1. completed = 0
    <3>1. case = 0 BY <1>1 DEF StartRun, LoopInv
    <3> QED BY <3>1 DEF TypeInv, TypeOK, CompletedBound
  <2>2. completed' = 0 /\ pc' = "load" /\ UNCHANGED <<fileState, file, live>>
    BY <1>1, <2>1 DEF StartRun, durable
  <2> QED BY <1>t, <2>2, LiveAfresh DEF InCase
<1>2. CASE LoadCheckpoint
  <2>1. CASE AttemptFails(traces) BY <1>2, <1>t, <2>1, FailLive DEF LoadCheckpoint
  <2>2. CASE pc' = "case" /\ UNCHANGED completed
    <3>1. completed = 0
      <4>1. case = 0 BY <1>2 DEF LoadCheckpoint, LoopInv
      <4> QED BY <4>1 DEF TypeInv, TypeOK, CompletedBound
    <3> QED BY <1>2, <1>t, <2>2, <3>1, LiveAfresh DEF LoadCheckpoint, durable, InCase
  <2> QED BY <1>2, <2>1, <2>2 DEF LoadCheckpoint
<1>3. ASSUME NEW c \in Cases, SkipCase(c) PROVE LiveInv'
  <2>1. /\ pc = "case" /\ NextCase(c) /\ case' = c /\ opts' = opts /\ ~InCase /\ ~InCase'
        /\ pc' \in {"case", "shard"} /\ c \in opts.scope
        /\ completed' = completed + 1 /\ live'.completed = completed'
    BY <1>3 DEF SkipCase, AfterCase, WriteLive, InCase, NextCase
  <2>2. \A d \in opts.scope : d < c <=> d <= case BY <2>1, NextCaseBehind
  <2>3. BehindLoop = {d \in opts.scope : d <= case} BY <1>a, <2>1 DEF BehindLoop
  <2>4. BehindLoop' = {d \in opts.scope : d <= c} BY <1>a, <2>1 DEF BehindLoop
  <2>5. BehindLoop' = BehindLoop \cup {c} /\ c \notin BehindLoop
    BY <1>a, <2>1, <2>2, <2>3, <2>4
  <2>6. completed' <= Cardinality(BehindLoop')
    BY <2>1, <2>5, OneMoreBehind DEF LiveInv, Running
  <2> QED BY <1>t, <2>1, <2>6, LiveWritten DEF InLoop, Running
<1>4. ASSUME NEW c \in Cases, BeginCase(c) PROVE LiveInv'
  <2>1. /\ pc = "case" /\ NextCase(c) /\ case' = c /\ opts' = opts /\ ~InCase /\ InCase'
        /\ pc' = "observe" /\ completed' = completed /\ live'.completed = completed'
    BY <1>4 DEF BeginCase, WriteLive, InCase
  <2>2. \A d \in opts.scope : d < c <=> d <= case BY <2>1, NextCaseBehind
  <2>3. BehindLoop' = BehindLoop BY <1>a, <2>1, <2>2 DEF BehindLoop
  <2> QED BY <1>t, <2>1, <2>3, LiveWritten DEF InLoop, Running, LiveInv
<1>5. CASE ObserveSessions
  <2>1. BehindLoop' = BehindLoop BY <1>5 DEF ObserveSessions, BehindLoop, InCase
  <2> QED BY <1>5, <2>1, LiveStays DEF ObserveSessions, durable, LiveInv, InCase, Running
<1>6. CASE SetupRaises BY <1>6, <1>t, FailLive DEF SetupRaises
<1>7. ASSUME NEW q \in Queries, NEW status, Answer(q, status) PROVE LiveInv'
  <2>1. /\ pc = "query" /\ pc' = "answered" /\ completed' = completed
        /\ live'.completed = completed' /\ UNCHANGED <<opts, case>>
    BY <1>7 DEF Answer, KeepThenReport, LiveInv, InCase
  <2>2. BehindLoop' = BehindLoop BY <2>1 DEF BehindLoop, InCase
  <2> QED BY <1>t, <2>1, <2>2, LiveWritten DEF InLoop, Running, LiveInv
<1>8. ASSUME NEW q \in Queries, AnswerRaises(q) PROVE LiveInv'
  BY <1>8, <1>t, FailLive DEF AnswerRaises
<1>9. ASSUME NEW q \in Queries, AnswerMalformed(q) PROVE LiveInv'
  BY <1>9, <1>t, FailLive DEF AnswerMalformed
<1>10. CASE EndCase \/ ReportAnswer
  <2>1. /\ InCase /\ InCase' /\ completed' = completed /\ live'.completed = completed'
        /\ pc \in Running /\ pc' \in {"ended", "query"} /\ UNCHANGED <<opts, case>>
    BY <1>10
    DEF EndCase, ReportAnswer, KeepThenReport, WriteLive, LiveInv, InCase, Running
  <2>2. BehindLoop' = BehindLoop BY <2>1 DEF BehindLoop
  <2> QED BY <1>t, <2>1, <2>2, LiveWritten DEF InLoop, Running, LiveInv
<1>18. CASE ReportCase
  <2>1. /\ InCase /\ ~InCase' /\ UNCHANGED <<opts, case>> /\ case \in opts.scope
        /\ pc' \in {"case", "shard"} /\ pc \in Running
        /\ completed' = completed + 1 /\ live'.completed = completed'
    BY <1>18
    DEF ReportCase, KeepThenReport, AfterCase, WriteLive, InCase, LoopInv, Running
  <2>2. BehindLoop = {d \in opts.scope : d < case} BY <2>1 DEF BehindLoop
  <2>3. BehindLoop' = {d \in opts.scope : d < case \/ d = case} BY <2>1 DEF BehindLoop
  <2>4. BehindLoop' = BehindLoop \cup {case} /\ case \notin BehindLoop
    BY <1>a, <2>1, <2>2, <2>3
  <2>5. completed' <= Cardinality(BehindLoop') BY <2>1, <2>4, OneMoreBehind DEF LiveInv
  <2> QED BY <1>t, <2>1, <2>5, LiveWritten DEF InLoop, Running
<1>11. CASE ValidateShard
  <2>1. CASE ShardValid
    <3>1. BehindLoop' = BehindLoop BY <1>11, <2>1 DEF ValidateShard, BehindLoop, InCase
    <3> QED BY <1>11, <2>1, <3>1, LiveStays DEF ValidateShard, durable, LiveInv, InCase, Running
  <2>2. CASE ~ShardValid BY <1>11, <1>t, <2>2, FailLive DEF ValidateShard
  <2> QED BY <2>1, <2>2
<1>12. CASE FinishLoop
  <2>1. /\ pc' = "save" /\ completed' = completed /\ live'.completed = completed' /\ pc = "case"
    BY <1>12 DEF FinishLoop, WriteLive
  <2>2. BehindLoop' = BehindLoop BY <1>12 DEF FinishLoop, BehindLoop, InCase
  <2> QED BY <1>t, <2>1, <2>2, LiveWritten DEF InLoop, Running, LiveInv
<1>13. CASE OpenPredictions
  <2>1. BehindLoop' = BehindLoop BY <1>13 DEF OpenPredictions, BehindLoop, InCase
  <2> QED BY <1>13, <2>1 DEF OpenPredictions, LiveInv, InCase, Running
<1>14. CASE WritePredictions
  <2>1. /\ pc = "saving" /\ pc' = "package" /\ completed' = completed
        /\ live'.completed = completed'
    BY <1>14 DEF WritePredictions, LiveInv
  <2>2. BehindLoop' = BehindLoop BY <1>14 DEF WritePredictions, BehindLoop, InCase
  <2> QED BY <1>t, <2>1, <2>2, LiveWritten DEF InLoop, Running, LiveInv
<1>15. CASE Package
  <2>1. \E outcome \in Stopped : Stop(outcome) BY <1>15 DEF Package, Stopped
  <2> QED BY <1>15, <1>t, <2>1, StopLive DEF Package
<1>16. CASE Crash BY <1>16, <1>t, StopLive DEF Crash, Stopped
<1>17. CASE UNCHANGED vars
  <2>1. BehindLoop' = BehindLoop /\ OnDisk(file)' = OnDisk(file)
    BY <1>17 DEF vars, BehindLoop, InCase, OnDisk, QueriesOf
  <2> QED BY <1>17, <2>1 DEF vars, LiveInv, InCase
<1> QED
  BY <1>1, <1>2, <1>3, <1>4, <1>5, <1>6, <1>7, <1>8, <1>9, <1>10, <1>11, <1>12,
     <1>13, <1>14, <1>15, <1>16, <1>17, <1>18
  DEF Next, Step, AgentFault, AnswerQuery, RecordFailure, AnswerInvalid

LEMMA InitLive == TypeInv /\ Init => LiveInv
<1> SUFFICES ASSUME TypeInv, Init PROVE LiveInv OBVIOUS
<1>1. OnDisk(file) \in SUBSET Cases BY DEF OnDisk
<1>2. Cardinality(OnDisk(file)) \in Nat BY <1>1, FiniteCases
<1> QED BY <1>2 DEF Init, LiveInv, InCase, Running

-----------------------------------------------------------------------------
(* The prediction counter of run_state.json.  What memory holds is on disk    *)
(* whenever the loop reports it, and belongs to the selected cases, so that   *)
(* the next checkpoint holds all of it again.                                 *)

\* no prediction outside the selected cases
Within(p) == \A q \in Queries : p[q] # NoPrediction => \E c \in opts.scope : q \in QueriesOf(c)

\* what p holds, r holds too
Covers(r, p) == \A q \in Queries : p[q] # NoPrediction => r[q] # NoPrediction

PredictedInv ==
    /\ Within(file) /\ Within(preds)
    /\ InLoop => Covers(file, preds)
    /\ fileState # "torn" => live.predictions <= Count(file)
    /\ InCase => live.predictions <= Count(preds)
    /\ pc \in {"save", "saving"} => live.predictions = Count(preds)

(* A map that covers another one counts at least as many predictions.         *)
LEMMA CountCovers ==
    ASSUME NEW r, NEW p, Covers(r, p)
    PROVE  Count(p) <= Count(r)
<1> DEFINE S(m) == {q \in Queries : m[q] # NoPrediction}
<1>1. NumQueries \in Nat BY ReleaseRunAssumption
<1>2. IsFiniteSet(Queries) BY <1>1, FS_Interval DEF Queries
<1>3. S(r) \subseteq Queries /\ S(p) \subseteq S(r) BY DEF Covers
<1>4. IsFiniteSet(S(r)) BY <1>2, <1>3, FS_Subset
<1>5. Cardinality(S(p)) <= Cardinality(S(r)) BY <1>3, <1>4, FS_Subset
<1> QED BY <1>5 DEF Count

(* What is held and checkpointed is on disk, so that disk counts as much.     *)
LEMMA HeldOnDisk ==
    ASSUME NEW r, NEW p, Within(p), \A c \in opts.scope : Alike(r, p, c)
    PROVE  Covers(r, p)
BY DEF Within, Alike, Covers

LEMMA OrderedCovered ==
    ASSUME NEW p PROVE Covers(p, Ordered(p))
BY DEF Covers, Ordered

LEMMA CoveredWithin ==
    ASSUME NEW r, NEW p, Within(r), Covers(r, p) PROVE Within(p)
BY DEF Within, Covers

LEMMA EmptyWithin == Within(Empty) /\ \A r : Covers(r, Empty)
BY DEF Within, Covers, Empty

(* The parts of the invariant of the next state.                              *)
LEMMA PredictedIntro ==
    ASSUME opts'.scope = opts.scope, Within(file'), Within(preds'),
           pc' \in Running \ {"load", "saving"} => Covers(file', preds'),
           fileState' # "torn" => live'.predictions <= Count(file'),
           InCase' => live'.predictions <= Count(preds'),
           pc' \in {"save", "saving"} => live'.predictions = Count(preds')
    PROVE  PredictedInv'
BY DEF PredictedInv, Within, Covers, Count, QueriesOf, InLoop, Running

(* A process that starts, ends, or has loaded a checkpoint or none.           *)
LEMMA AfreshPredicted ==
    ASSUME PredictedInv, UNCHANGED durable, opts'.scope = opts.scope,
           preds' \in {Empty, file}, pc' \in Stopped \cup {"load", "case"}
    PROVE  PredictedInv'
<1>1. fileState' = fileState /\ file' = file /\ live' = live BY DEF durable
<1>2. Within(preds') /\ Covers(file', preds') BY <1>1, EmptyWithin DEF PredictedInv, Covers
<1>3. ~InCase' /\ pc' \notin {"save", "saving"} BY DEF InCase, Stopped
<1> QED BY <1>1, <1>2, <1>3, PredictedIntro DEF PredictedInv

LEMMA FailPredicted ==
    ASSUME PredictedInv, NEW rows, AttemptFails(rows), UNCHANGED durable PROVE PredictedInv'
<1>1. preds' = Empty /\ pc' \in Stopped \cup {"load"} /\ opts' = opts
  BY DEF AttemptFails, Stop, Stopped
<1> QED BY <1>1, AfreshPredicted

(* A report of what memory holds.                                             *)
LEMMA ReportPredicted ==
    ASSUME PredictedInv, InLoop, UNCHANGED <<fileState, file, opts, preds>>,
           live'.predictions = Count(preds), pc' # "saving"
    PROVE  PredictedInv'
<1>1. Covers(file, preds) BY DEF PredictedInv
<1>2. Count(preds) <= Count(file) BY <1>1, CountCovers
<1>3. Count(preds) \in Int /\ Count(file) \in Int BY CountType
<1> QED BY <1>1, <1>2, <1>3, PredictedIntro DEF PredictedInv

(* A checkpoint inside a case, before its report.                             *)
LEMMA KeepPredicted ==
    ASSUME TypeInv, PredictedInv, InCase, InCase', opts' = opts, live' = live,
           file' = Ordered(preds'), Within(preds'), Covers(preds', preds),
           \A c \in opts.scope : Alike(file', preds', c)
    PROVE  PredictedInv'
<1>1. Covers(file', preds') BY HeldOnDisk
<1>2. Within(file') BY OrderedCovered, CoveredWithin
<1>3. Count(preds) <= Count(preds') /\ Count(preds') <= Count(file') BY <1>1, CountCovers
<1>4. Count(preds) \in Int /\ Count(preds') \in Int /\ Count(file') \in Int BY CountType
<1>5. live.predictions \in Int BY ReleaseRunAssumption DEF TypeInv, TypeOK
<1>6. live.predictions <= Count(preds) BY DEF PredictedInv
<1>7. pc' \notin {"save", "saving"} BY DEF InCase
<1> QED BY <1>1, <1>2, <1>3, <1>4, <1>5, <1>6, <1>7, PredictedIntro

LEMMA AnswerPredicted ==
    ASSUME OneSelection, AlwaysCheckpointing, TypeInv, SourceInv, LoopInv, DiskInv, PredictedInv,
           NEW q \in Queries, NEW status, Answer(q, status)
    PROVE  PredictedInv'
<1>1. /\ InCase /\ InCase' /\ case \in opts.scope /\ q \in QueriesOf(case)
      /\ preds[q] = NoPrediction
  BY AnswerPlace
<1>2. \A r \in Queries : r # q => preds'[r] = preds[r]
  BY DEF Answer, TypeInv, TypeOK, PredictionMap
<1>3. Within(preds') BY <1>1, <1>2 DEF PredictedInv, Within
<1>4. Covers(preds', preds) BY <1>1, <1>2 DEF Covers
<1>5. file' = Ordered(preds') /\ \A c \in opts.scope : Alike(file', preds', c) BY AnswerDisk
<1>6. opts' = opts /\ live' = live BY DEF Answer, KeepThenReport
<1> QED BY <1>1, <1>3, <1>4, <1>5, <1>6, KeepPredicted

LEMMA EndCasePredicted ==
    ASSUME OneSelection, AlwaysCheckpointing, TypeInv, DiskInv, PredictedInv, EndCase
    PROVE  PredictedInv'
<1>1. InCase /\ InCase' /\ UNCHANGED <<opts, live, preds>> BY DEF EndCase, KeepThenReport, InCase
<1>2. Within(preds') /\ Covers(preds', preds) BY <1>1 DEF PredictedInv, Covers
<1>3. file' = Ordered(preds') /\ \A c \in opts.scope : Alike(file', preds', c) BY EndCaseDisk
<1> QED BY <1>1, <1>2, <1>3, KeepPredicted

LEMMA BeginPredicted ==
    ASSUME PredictedInv, NEW c \in Cases, BeginCase(c)
    PROVE  PredictedInv'
<1>1. /\ InLoop /\ pc' = "observe" /\ UNCHANGED <<fileState, file, opts>>
      /\ preds' = DropCase(preds, c) /\ live'.predictions = Count(preds')
  BY DEF BeginCase, WriteLive, InLoop, Running
<1>2. Covers(preds, preds') BY <1>1 DEF Covers, DropCase
<1>3. Within(preds') BY <1>2, CoveredWithin DEF PredictedInv
<1>4. Covers(file, preds') BY <1>1, <1>2 DEF PredictedInv, Covers
<1>5. Count(preds') <= Count(file) BY <1>4, CountCovers
<1>6. Count(preds') \in Int BY CountType
<1> QED BY <1>1, <1>3, <1>4, <1>5, <1>6, PredictedIntro DEF PredictedInv

LEMMA SavePredicted ==
    ASSUME OneSelection, TypeInv, LoopInv, DiskInv, PredictedInv,
           OpenPredictions \/ WritePredictions
    PROVE  PredictedInv'
<1>1. CASE OpenPredictions
  <2>1. /\ pc = "save" /\ pc' = "saving" /\ fileState' = "torn" /\ file' = Empty
        /\ UNCHANGED <<live, opts, preds>>
    BY <1>1 DEF OpenPredictions
  <2> QED BY <2>1, EmptyWithin, PredictedIntro DEF PredictedInv, InCase
<1>2. CASE WritePredictions
  <2>1. /\ pc = "saving" /\ pc' = "package" /\ file' = Ordered(preds) /\ Saving
        /\ UNCHANGED <<live, opts, preds>>
    BY <1>2 DEF WritePredictions, Saving
  <2>2. Covers(file', preds) BY <2>1, SavedOrdered, HeldOnDisk DEF PredictedInv
  <2>3. Within(file') BY <2>1, OrderedCovered, CoveredWithin DEF PredictedInv
  <2>4. Count(preds) <= Count(file') BY <2>2, CountCovers
  <2> QED BY <2>1, <2>2, <2>3, <2>4, PredictedIntro DEF PredictedInv, InCase
<1> QED BY <1>1, <1>2

LEMMA PredictedStep ==
    ASSUME OneSelection, AlwaysCheckpointing, TypeInv, SourceInv, LoopInv, DiskInv, PredictedInv,
           [Next]_vars
    PROVE  PredictedInv'
<1>1. ASSUME NEW o \in Options, StartRun(o) PROVE PredictedInv'
  <2>1. UNCHANGED durable /\ opts'.scope = opts.scope /\ preds' = Empty /\ pc' = "load"
    BY <1>1, Selected DEF StartRun, SourceInv
  <2> QED BY <2>1, AfreshPredicted
<1>2. CASE LoadCheckpoint
  <2>1. CASE AttemptFails(traces) BY <1>2, <2>1, FailPredicted DEF LoadCheckpoint
  <2>2. CASE pc' = "case" /\ preds' \in {preds, file} /\ opts' = opts
    <3>1. preds = Empty /\ UNCHANGED durable BY <1>2 DEF LoadCheckpoint, SourceInv
    <3> QED BY <2>2, <3>1, AfreshPredicted
  <2> QED BY <1>2, <2>1, <2>2 DEF LoadCheckpoint
<1>3. ASSUME NEW c \in Cases, SkipCase(c) PROVE PredictedInv'
  BY <1>3, ReportPredicted DEF SkipCase, AfterCase, WriteLive, InLoop, Running
<1>4. ASSUME NEW c \in Cases, BeginCase(c) PROVE PredictedInv' BY <1>4, BeginPredicted
<1>5. CASE ObserveSessions
  <2>1. InCase /\ InLoop /\ InCase' /\ UNCHANGED <<fileState, file, live, opts, preds>>
    BY <1>5 DEF ObserveSessions, durable, InCase, InLoop, Running
  <2>2. pc' \notin {"save", "saving"} BY <2>1 DEF InCase
  <2> QED BY <2>1, <2>2, PredictedIntro DEF PredictedInv
<1>6. CASE SetupRaises BY <1>6, FailPredicted DEF SetupRaises
<1>7. ASSUME NEW q \in Queries, NEW status, Answer(q, status) PROVE PredictedInv'
  BY <1>7, AnswerPredicted
<1>8. ASSUME NEW q \in Queries, AnswerRaises(q) PROVE PredictedInv'
  BY <1>8, FailPredicted DEF AnswerRaises
<1>9. ASSUME NEW q \in Queries, AnswerMalformed(q) PROVE PredictedInv'
  BY <1>9, FailPredicted DEF AnswerMalformed
<1>10. CASE ReportAnswer
  BY <1>10, ReportPredicted DEF ReportAnswer, KeepThenReport, WriteLive, InLoop, Running
<1>11. CASE EndCase BY <1>11, EndCasePredicted
<1>12. CASE ReportCase
  BY <1>12, ReportPredicted DEF ReportCase, KeepThenReport, AfterCase, WriteLive, InLoop, Running
<1>13. CASE ValidateShard
  <2>1. CASE ShardValid
    <3>1. /\ InLoop /\ pc' = "case" /\ UNCHANGED <<fileState, file, live, opts, preds>>
      BY <1>13, <2>1 DEF ValidateShard, durable, InLoop, Running
    <3>2. ~InCase' BY <3>1 DEF InCase
    <3> QED BY <3>1, <3>2, PredictedIntro DEF PredictedInv
  <2>2. CASE ~ShardValid BY <1>13, <2>2, FailPredicted DEF ValidateShard
  <2> QED BY <2>1, <2>2
<1>14. CASE FinishLoop
  BY <1>14, ReportPredicted DEF FinishLoop, WriteLive, InLoop, Running
<1>15. CASE OpenPredictions \/ WritePredictions BY <1>15, SavePredicted
<1>16. CASE Package \/ Crash
  <2>1. preds' = Empty /\ pc' \in Stopped /\ UNCHANGED <<durable, opts>>
    BY <1>16 DEF Package, Crash, Stop, Stopped
  <2> QED BY <2>1, AfreshPredicted
<1>17. CASE UNCHANGED vars
  BY <1>17 DEF vars, PredictedInv, Within, Covers, Count, QueriesOf, InLoop, InCase
<1> QED
  BY <1>1, <1>2, <1>3, <1>4, <1>5, <1>6, <1>7, <1>8, <1>9, <1>10, <1>11, <1>12,
     <1>13, <1>14, <1>15, <1>16, <1>17
  DEF Next, Step, AgentFault, AnswerQuery, RecordFailure, AnswerInvalid

LEMMA InitPredicted == TypeInv /\ Init => PredictedInv
<1> SUFFICES ASSUME TypeInv, Init PROVE PredictedInv OBVIOUS
<1>1. file = Empty /\ preds = Empty /\ live.predictions = 0 /\ pc = "idle" BY DEF Init
<1>2. Count(file) >= 0 BY CountType
<1> QED BY <1>1, <1>2, EmptyWithin DEF PredictedInv, InLoop, InCase, Running

(* However often a run over one selection is killed, retried and started     *)
(* again, also between the writes of the two files, and with or without      *)
(* resume: run_state.json counts no case and no prediction that the          *)
(* predictions file has not, as long as checkpoints are written.             *)
THEOREM LiveIsOnDisk ==
    ASSUME OneSelection, MaxAttempts > 1 \/ ResumeChoices = {TRUE}
    PROVE  Spec => []LiveNeverAheadOfDisk
<1> DEFINE Inv == /\ TypeInv /\ SourceInv /\ LoopInv /\ ShardInv /\ DiskInv
                  /\ LiveInv /\ PredictedInv
<1>0. AlwaysCheckpointing BY DEF AlwaysCheckpointing
<1>1. Init => Inv BY InitType, InitSource, InitLoop, InitDisk, InitLive, InitPredicted
<1>2. Inv /\ [Next]_vars => Inv'
  BY <1>0, TypeStep, SourceStep, LoopStep, DiskStep, LiveStep, PredictedStep
<1>3. Inv => LiveNeverAheadOfDisk
  BY DEF LiveInv, PredictedInv, LiveNeverAheadOfDisk, OnDisk
<1> QED BY <1>1, <1>2, <1>3, PTL DEF Spec

-----------------------------------------------------------------------------
(* Resumed invocations: a case that is complete on disk is in memory too, so *)
(* that it is skipped and every later checkpoint writes it as it was.        *)

FinalInv ==
    /\ fileState = "torn" => pc \in Stopped \cup {"load", "saving"}
    /\ pc = "saving" => fileState = "torn"
    /\ InLoop => \A c \in opts.scope : Full(file, c) => Alike(file, preds, c)

LEMMA FinalIntro ==
    ASSUME opts'.scope = opts.scope,
           fileState' = "torn" => pc' \in Stopped \cup {"load", "saving"},
           pc' = "saving" => fileState' = "torn",
           pc' \in Running \ {"load", "saving"} =>
             \A c \in opts.scope : Full(file', c) => Alike(file', preds', c)
    PROVE  FinalInv'
BY DEF FinalInv, InLoop, Full, Alike, QueriesOf, Running, Stopped

LEMMA SameFinal ==
    ASSUME FinalInv, InLoop, pc' # "saving", UNCHANGED <<fileState, file, opts, preds>>
    PROVE  FinalInv'
<1>1. fileState # "torn" BY DEF FinalInv, InLoop, Running, Stopped
<1> QED BY <1>1, FinalIntro DEF FinalInv

LEMMA EndFinal ==
    ASSUME FinalInv, opts'.scope = opts.scope, pc' \in Stopped \cup {"load"},
           UNCHANGED durable
    PROVE  FinalInv'
BY FinalIntro DEF FinalInv, Stopped, Running

LEMMA FailFinal ==
    ASSUME FinalInv, NEW rows, AttemptFails(rows), UNCHANGED durable PROVE FinalInv'
<1>1. opts' = opts /\ pc' \in Stopped \cup {"load"} BY DEF AttemptFails, Stop, Stopped
<1> QED BY <1>1, EndFinal

LEMMA LoadFinal ==
    ASSUME Resumable, TypeInv, SourceInv, DiskInv, FinalInv, LoadCheckpoint PROVE FinalInv'
<1>1. Resuming BY AlwaysResumed DEF Resuming, Resumable
<1>2. CASE AttemptFails(traces) BY <1>2, FailFinal DEF LoadCheckpoint
<1>3. CASE fileState = "absent" /\ pc' = "case" /\ UNCHANGED <<durable, opts>>
  <2>1. file' = Empty /\ fileState' = "absent" BY <1>3 DEF DiskInv, durable
  <2>2. \A c \in opts.scope : ~Full(file', c) BY <2>1, EmptyDisk DEF Resumable
  <2> QED BY <1>3, <2>1, <2>2, FinalIntro
<1>4. CASE fileState = "whole" /\ pc' = "case" /\ preds' = file /\ UNCHANGED <<durable, opts>>
  <2>1. file' = file /\ fileState' = "whole" BY <1>4 DEF durable
  <2>2. \A c \in opts.scope : Alike(file', preds', c) BY <1>4, <2>1 DEF Alike
  <2> QED BY <1>4, <2>1, <2>2, FinalIntro
<1> QED BY <1>1, <1>2, <1>3, <1>4 DEF LoadCheckpoint, Loadable

LEMMA BeginFinal ==
    ASSUME Resumable, TypeInv, FinalInv, NEW c \in Cases, BeginCase(c) PROVE FinalInv'
<1>1. /\ pc = "case" /\ pc' = "observe" /\ ~CaseComplete(preds, c) /\ c \in opts.scope
      /\ preds' = DropCase(preds, c) /\ UNCHANGED <<fileState, file, opts>> /\ InLoop
  BY DEF BeginCase, InLoop, Running, NextCase
<1>2. fileState # "torn" BY <1>1 DEF FinalInv, Stopped
<1>3. \A d \in opts.scope : Full(file, d) => Alike(file', preds', d)
  <2> SUFFICES ASSUME NEW d \in opts.scope, Full(file, d) PROVE Alike(file', preds', d) OBVIOUS
  <2>1. Alike(file, preds, d) BY <1>1 DEF FinalInv
  <2>2. d \in Cases /\ QueriesOf(d) # {} /\ QueriesOf(d) \subseteq Queries
    BY Selected DEF Resumable
  <2>3. d # c BY <1>1, <2>1, <2>2 DEF CaseComplete, Full, Alike
  <2>4. \A q \in QueriesOf(d) : q \in Queries /\ q \notin QueriesOf(c)
    BY <2>2, <2>3, CasesDisjoint
  <2> QED BY <1>1, <2>1, <2>4 DEF Alike, DropCase
<1> QED BY <1>1, <1>2, <1>3, FinalIntro

LEMMA SaveFinal ==
    ASSUME Resumable, TypeInv, LoopInv, DiskInv, FinalInv, OpenPredictions \/ WritePredictions
    PROVE  FinalInv'
<1>1. CASE OpenPredictions
  <2>1. pc' = "saving" /\ fileState' = "torn" /\ opts' = opts BY <1>1 DEF OpenPredictions
  <2> QED BY <2>1, FinalIntro
<1>2. CASE WritePredictions
  <2>1. /\ pc' = "package" /\ fileState' = "whole" /\ file' = Ordered(preds) /\ Saving
        /\ UNCHANGED <<opts, preds>>
    BY <1>2 DEF WritePredictions, Saving
  <2>2. \A c \in opts.scope : Alike(file', preds', c)
    BY <2>1, SavedOrdered DEF Resumable
  <2> QED BY <2>1, <2>2, FinalIntro
<1> QED BY <1>1, <1>2

LEMMA FinalStep ==
    ASSUME Resumable, TypeInv, SourceInv, LoopInv, DiskInv, FinalInv, [Next]_vars
    PROVE  FinalInv'
<1>r. OneSelection /\ AlwaysCheckpointing BY DEF Resumable, AlwaysCheckpointing
<1>1. ASSUME NEW o \in Options, StartRun(o) PROVE FinalInv'
  <2>1. opts'.scope = opts.scope BY <1>1, <1>r, Selected DEF StartRun
  <2> QED BY <1>1, <2>1, EndFinal DEF StartRun
<1>2. CASE LoadCheckpoint BY <1>2, LoadFinal
<1>3. ASSUME NEW c \in Cases, SkipCase(c) PROVE FinalInv'
  BY <1>3, SameFinal DEF SkipCase, AfterCase, InLoop, Running
<1>4. ASSUME NEW c \in Cases, BeginCase(c) PROVE FinalInv' BY <1>4, BeginFinal
<1>5. CASE ObserveSessions BY <1>5, SameFinal DEF ObserveSessions, durable, InLoop, Running
<1>6. CASE SetupRaises BY <1>6, FailFinal DEF SetupRaises
<1>7. ASSUME NEW q \in Queries, NEW status, Answer(q, status) PROVE FinalInv'
  <2>1. fileState' = "whole" /\ \A c \in opts.scope : Alike(file', preds', c)
    BY <1>7, <1>r, AnswerDisk
  <2>2. pc' = "answered" /\ opts' = opts BY <1>7 DEF Answer
  <2> QED BY <2>1, <2>2, FinalIntro
<1>8. ASSUME NEW q \in Queries, AnswerRaises(q) PROVE FinalInv' BY <1>8, FailFinal DEF AnswerRaises
<1>9. ASSUME NEW q \in Queries, AnswerMalformed(q) PROVE FinalInv'
  BY <1>9, FailFinal DEF AnswerMalformed
<1>10. CASE EndCase
  <2>1. fileState' = "whole" /\ \A c \in opts.scope : Alike(file', preds', c)
    BY <1>10, <1>r, EndCaseDisk
  <2>2. pc' = "ended" /\ opts' = opts BY <1>10 DEF EndCase
  <2> QED BY <2>1, <2>2, FinalIntro
<1>17. CASE ReportAnswer
  BY <1>17, SameFinal DEF ReportAnswer, KeepThenReport, InLoop, Running
<1>18. CASE ReportCase
  BY <1>18, SameFinal DEF ReportCase, KeepThenReport, AfterCase, InLoop, Running
<1>11. CASE ValidateShard
  <2>1. CASE ShardValid
    BY <1>11, <2>1, SameFinal DEF ValidateShard, durable, InLoop, Running
  <2>2. CASE ~ShardValid BY <1>11, <2>2, FailFinal DEF ValidateShard
  <2> QED BY <2>1, <2>2
<1>12. CASE FinishLoop BY <1>12, SameFinal DEF FinishLoop, InLoop, Running
<1>13. CASE OpenPredictions \/ WritePredictions BY <1>13, SaveFinal
<1>14. CASE Package BY <1>14, EndFinal DEF Package, Stop, Stopped
<1>15. CASE Crash BY <1>15, EndFinal DEF Crash, Stop, Stopped
<1>16. CASE UNCHANGED vars
  BY <1>16 DEF vars, FinalInv, InLoop, Full, Alike, QueriesOf
<1> QED
  BY <1>1, <1>2, <1>3, <1>4, <1>5, <1>6, <1>7, <1>8, <1>9, <1>10, <1>11, <1>12,
     <1>13, <1>14, <1>15, <1>16, <1>17, <1>18
  DEF Next, Step, AgentFault, AnswerQuery, RecordFailure, AnswerInvalid

LEMMA InitFinal == Init => FinalInv
BY DEF Init, FinalInv, InLoop, Running, Stopped

(* What an answer, and the end of a case, do to the cases on disk.           *)
LEMMA AnswerKeeps ==
    ASSUME Resumable, TypeInv, SourceInv, LoopInv, DiskInv, FinalInv,
           NEW q \in Queries, NEW status, Answer(q, status)
    PROVE  /\ ~Full(file, case)
           /\ \A c \in opts.scope : Full(file, c) => Alike(file', file, c)
           /\ \A c \in opts.scope : c # case /\ Full(file', c) => Full(file, c)
<1>r. OneSelection /\ AlwaysCheckpointing BY DEF Resumable, AlwaysCheckpointing
<1>1. /\ InLoop /\ case \in opts.scope /\ q \in QueriesOf(case) /\ preds[q] = NoPrediction
      /\ \A d \in opts.scope : d # case => Alike(preds', preds, d)
  BY AnswerPlace, ScopeCases DEF InLoop, InCase, Running
<1>2. \A c \in opts.scope : Alike(file', preds', c) BY <1>r, AnswerDisk
<1>3. ~Full(file, case) BY <1>1 DEF FinalInv, Full, Alike
<1>4. ASSUME NEW c \in opts.scope, Full(file, c) PROVE Alike(file', file, c)
  <2>1. Alike(file, preds, c) /\ c # case BY <1>1, <1>3, <1>4 DEF FinalInv
  <2> QED BY <1>1, <1>2, <2>1 DEF Alike
<1>5. ASSUME NEW c \in opts.scope, c # case, Full(file', c) PROVE Full(file, c)
  <2>1. Alike(preds', preds, c) /\ Alike(file', preds', c) BY <1>1, <1>2, <1>5
  <2>2. Full(preds, c) BY <1>5, <2>1 DEF Full, Alike
  <2>3. Alike(file, preds, c) BY <1>1, <2>2 DEF DiskInv
  <2> QED BY <2>2, <2>3 DEF Full, Alike
<1> QED BY <1>3, <1>4, <1>5

LEMMA EndCaseKeeps ==
    ASSUME Resumable, TypeInv, SourceInv, LoopInv, DiskInv, FinalInv, EndCase
    PROVE  \A c \in opts.scope : /\ Full(file, c) => Alike(file', file, c)
                                 /\ Full(file', c) => Full(file, c)
<1>r. OneSelection /\ AlwaysCheckpointing BY DEF Resumable, AlwaysCheckpointing
<1>1. InLoop /\ preds' = preds BY DEF EndCase, InLoop, Running
<1>2. \A c \in opts.scope : Alike(file', preds, c) BY <1>1, <1>r, EndCaseDisk
<1>3. ASSUME NEW c \in opts.scope, Full(file, c) PROVE Alike(file', file, c)
  BY <1>1, <1>2, <1>3 DEF FinalInv, Alike
<1>4. ASSUME NEW c \in opts.scope, Full(file', c) PROVE Full(file, c)
  <2>1. Full(preds, c) BY <1>2, <1>4 DEF Full, Alike
  <2>2. Alike(file, preds, c) BY <1>1, <2>1 DEF DiskInv
  <2> QED BY <2>1, <2>2 DEF Full, Alike
<1> QED BY <1>3, <1>4

ReleaseInv == TypeInv /\ SourceInv /\ LoopInv /\ ShardInv /\ DiskInv /\ FinalInv

LEMMA InitRelease == Resumable /\ Init => ReleaseInv
BY InitType, InitSource, InitLoop, InitDisk, InitFinal DEF ReleaseInv, Resumable

LEMMA ReleaseStep == Resumable /\ ReleaseInv /\ [Next]_vars => ReleaseInv'
<1> SUFFICES ASSUME Resumable, ReleaseInv, [Next]_vars PROVE ReleaseInv' OBVIOUS
<1>1. OneSelection /\ AlwaysCheckpointing BY DEF Resumable, AlwaysCheckpointing
<1> QED BY <1>1, TypeStep, SourceStep, LoopStep, DiskStep, FinalStep DEF ReleaseInv

(* A step that writes the predictions file.                                  *)
LEMMA WhoWrites ==
    ASSUME [Next]_vars, UNCHANGED <<fileState, file>> => FALSE
    PROVE  \/ \E q \in Queries : \E status : Answer(q, status)
           \/ EndCase \/ OpenPredictions \/ WritePredictions
BY DEF Next, Step, AgentFault, AnswerQuery, RecordFailure, AnswerInvalid, StartRun,
       LoadCheckpoint, SkipCase, BeginCase, ObserveSessions, SetupRaises, AnswerRaises,
       AnswerMalformed, ReportAnswer, ReportCase, KeepThenReport, ValidateShard, FinishLoop,
       Package, Crash, durable, vars

LEMMA FinalCases ==
    ASSUME Resumable, ReleaseInv, [Next]_vars, NEW c \in Cases,
           CaseComplete(file, c), fileState' = "whole", NEW q \in QueriesOf(c)
    PROVE  file'[q] = file[q]
<1>1. c \in opts.scope /\ Full(file, c)
  BY DEF ReleaseInv, DiskInv, CaseComplete, Full, Blank
<1>2. CASE UNCHANGED <<fileState, file>> BY <1>2
<1>3. ASSUME NEW r \in Queries, NEW status, Answer(r, status) PROVE file'[q] = file[q]
  BY <1>1, <1>3, AnswerKeeps DEF ReleaseInv, Alike
<1>4. CASE EndCase BY <1>1, <1>4, EndCaseKeeps DEF ReleaseInv, Alike
<1>5. CASE OpenPredictions BY <1>5 DEF OpenPredictions
<1>6. CASE WritePredictions
  <2>1. file = Empty BY <1>6 DEF WritePredictions, ReleaseInv, FinalInv, DiskInv
  <2> QED BY <1>1, <2>1, EmptyDisk DEF Resumable, ReleaseInv
<1> QED BY <1>2, <1>3, <1>4, <1>5, <1>6, WhoWrites

(* Resuming one selection again and again never changes or loses a           *)
(* prediction of a case that was complete on disk, although every checkpoint *)
(* rewrites the whole file from memory.                                      *)
THEOREM CompleteCasesStay ==
    ASSUME Resumable PROVE Spec => DurableCasesAreFinal
<1>1. Init => ReleaseInv BY InitRelease
<1>2. ReleaseInv /\ [Next]_vars => ReleaseInv' BY ReleaseStep
<1>3. ReleaseInv /\ [Next]_vars
        => [\A c \in Cases : CaseComplete(file, c) /\ fileState' = "whole" =>
              \A q \in QueriesOf(c) : file'[q] = file[q]]_vars
  BY FinalCases
<1> QED BY <1>1, <1>2, <1>3, PTL DEF Spec, DurableCasesAreFinal

-----------------------------------------------------------------------------
(* The refinement of CaseLedger: the answer that completes a case commits    *)
(* it, a process that dies inside the final save loses the ledger, and every *)
(* other step keeps what is committed.                                       *)

LEMMA SameCases ==
    ASSUME OneSelection, TypeInv, TypeInv'
    PROVE  UNION Scopes = opts.scope /\ opts'.scope = opts.scope
BY Selected DEF TypeInv, TypeOK

LEMMA CommittedType ==
    ASSUME TypeInv PROVE committed \in PredictionMap
BY DEF TypeInv, TypeOK, committed, Ordered, PredictionMap, Empty

LEMMA LedgerEntry ==
    ASSUME OneSelection, TypeInv, NEW c \in opts.scope
    PROVE  /\ CaseComplete(committed, c) <=> Full(committed, c)
           /\ ledgerOfRun[c] = IF Full(committed, c) THEN AnswersOf(c) ELSE NotCommitted
           /\ ledgerOfRun[c] = NotCommitted <=> ~Full(committed, c)
<1>1. UNION Scopes = opts.scope /\ c \in Cases /\ QueriesOf(c) # {} /\ QueriesOf(c) \subseteq Queries
  BY Selected
<1>2. CaseComplete(committed, c) <=> Full(committed, c) BY <1>1 DEF CaseComplete, Full
<1>3. ledgerOfRun[c] = IF Full(committed, c) THEN AnswersOf(c) ELSE NotCommitted
  BY <1>1, <1>2 DEF ledgerOfRun
<1>4. ASSUME Full(committed, c) PROVE AnswersOf(c) # NotCommitted
  <2>1. \A q \in QueriesOf(c) : committed[q] \in Prediction
    BY <1>1, <1>4, CommittedType DEF PredictionMap, Full
  <2>2. AnswersOf(c) \in [QueriesOf(c) -> Prediction] BY <2>1 DEF AnswersOf
  <2> QED BY <1>1, <2>2, NotCommittedAssumption
<1> QED BY <1>2, <1>3, <1>4

(* The next ledger, entry by entry.                                          *)
LEMMA LedgerEntryNext ==
    ASSUME OneSelection, TypeInv, TypeInv', NEW c \in opts.scope
    PROVE  /\ ledgerOfRun'[c] = IF Full(committed', c) THEN AnswersOf(c)' ELSE NotCommitted
           /\ ledgerOfRun'[c] = NotCommitted <=> ~Full(committed', c)
<1>1. /\ UNION Scopes = opts.scope /\ c \in Cases /\ QueriesOf(c) # {}
      /\ QueriesOf(c) \subseteq Queries
  BY Selected
<1>2. CaseComplete(committed', c) <=> Full(committed', c) BY <1>1 DEF CaseComplete, Full
<1>3. ledgerOfRun'[c] = IF Full(committed', c) THEN AnswersOf(c)' ELSE NotCommitted
  BY <1>1, <1>2 DEF ledgerOfRun, CaseComplete, QueriesOf
<1>4. committed' \in PredictionMap
  BY DEF TypeInv, TypeOK, committed, Ordered, PredictionMap, Empty
<1>5. ASSUME Full(committed', c) PROVE AnswersOf(c)' # NotCommitted
  <2>1. \A q \in QueriesOf(c) : committed'[q] \in Prediction
    BY <1>1, <1>4, <1>5 DEF PredictionMap, Full
  <2>2. AnswersOf(c)' \in [QueriesOf(c) -> Prediction] BY <2>1 DEF AnswersOf, QueriesOf
  <2> QED BY <1>1, <2>2, NotCommittedAssumption
<1> QED BY <1>3, <1>5

(* A case that is committed before and after with the same answers, or on    *)
(* neither side, has the same entry.                                         *)
LEMMA KeptEntry ==
    ASSUME OneSelection, TypeInv, TypeInv', NEW c \in opts.scope,
           Full(committed', c) <=> Full(committed, c),
           Full(committed, c) => Alike(committed', committed, c)
    PROVE  ledgerOfRun'[c] = ledgerOfRun[c]
<1>1. CASE Full(committed, c)
  <2>1. AnswersOf(c)' = AnswersOf(c) BY <1>1 DEF AnswersOf, Alike, QueriesOf
  <2> QED BY <1>1, <2>1, LedgerEntry, LedgerEntryNext
<1>2. CASE ~Full(committed, c) BY <1>2, LedgerEntry, LedgerEntryNext
<1> QED BY <1>1, <1>2

LEMMA KeptLedger ==
    ASSUME OneSelection, TypeInv, TypeInv',
           \A c \in opts.scope : /\ Full(committed', c) <=> Full(committed, c)
                                 /\ Full(committed, c) => Alike(committed', committed, c)
    PROVE  ledgerOfRun' = ledgerOfRun
<1>1. UNION Scopes = opts.scope BY Selected
<1>2. \A c \in opts.scope : ledgerOfRun'[c] = ledgerOfRun[c] BY KeptEntry
<1> QED BY <1>1, <1>2 DEF ledgerOfRun, CaseComplete, QueriesOf, AnswersOf

(* A step that leaves the file alone, outside the final save.                *)
LEMMA IdleLedger ==
    ASSUME UNCHANGED <<fileState, file>>, pc # "saving", pc' # "saving"
    PROVE  UNCHANGED <<ledgerOfRun, lostOfRun>>
<1>1. committed' = committed BY DEF committed
<1> QED BY <1>1 DEF ledgerOfRun, lostOfRun, CaseComplete, QueriesOf, AnswersOf

LEMMA AnswerLedger ==
    ASSUME Resumable, ReleaseInv, ReleaseInv',
           NEW q \in Queries, NEW status, Answer(q, status)
    PROVE  UNCHANGED <<ledgerOfRun, lostOfRun>> \/ Ledger!Commit(case)
<1>r. OneSelection /\ AlwaysCheckpointing /\ TypeInv /\ TypeInv' /\ UNION Scopes = opts.scope
  BY Selected DEF Resumable, AlwaysCheckpointing, ReleaseInv
<1>1. /\ InLoop /\ case \in opts.scope
      /\ pc = "query" /\ pc' = "answered" /\ fileState' = "whole" /\ fileState # "torn"
  <2>1. pc = "query" /\ pc' = "answered" BY DEF Answer
  <2>2. InLoop /\ InCase BY <2>1 DEF InLoop, InCase, Running
  <2>3. fileState' = "whole" BY <1>r, AnswerDisk DEF ReleaseInv
  <2> QED BY <2>1, <2>2, <2>3 DEF ReleaseInv, LoopInv, FinalInv, Stopped
<1>2. committed = file /\ committed' = file' BY <1>1 DEF committed
<1>3. ~lostOfRun /\ ~lostOfRun' BY <1>1 DEF lostOfRun
<1>4. /\ ~Full(file, case)
      /\ \A c \in opts.scope : Full(file, c) => Alike(file', file, c)
      /\ \A c \in opts.scope : c # case /\ Full(file', c) => Full(file, c)
  BY AnswerKeeps DEF ReleaseInv
<1>5. \A c \in opts.scope : Full(file, c) => Full(file', c) BY <1>4 DEF Full, Alike
<1>6. \A c \in opts.scope : c # case => ledgerOfRun'[c] = ledgerOfRun[c]
  BY <1>2, <1>4, <1>5, <1>r, KeptEntry
<1>7. CASE ~Full(file', case)
  <2>1. ledgerOfRun' = ledgerOfRun BY <1>1, <1>2, <1>4, <1>5, <1>7, <1>r, KeptLedger
  <2> QED BY <1>3, <2>1 DEF lostOfRun
<1>8. CASE Full(file', case)
  <2>1. ledgerOfRun[case] = NotCommitted /\ ledgerOfRun'[case] # NotCommitted
    BY <1>1, <1>2, <1>4, <1>8, <1>r, LedgerEntry, LedgerEntryNext
  <2>2. ASSUME NEW d \in opts.scope, d < case PROVE ledgerOfRun[d] # NotCommitted
    <3>1. Full(preds, d)
      BY <1>1, <2>2 DEF ReleaseInv, LoopInv, Running, Answered, Full
    <3>2. Full(file, d) BY <1>1, <3>1 DEF ReleaseInv, DiskInv, Full, Alike
    <3> QED BY <1>2, <1>r, <3>2, LedgerEntry
  <2>3. ledgerOfRun' = [ledgerOfRun EXCEPT ![case] = ledgerOfRun'[case]]
    <3>1. /\ ledgerOfRun = [c \in opts.scope |-> ledgerOfRun[c]]
          /\ ledgerOfRun' = [c \in opts.scope |-> ledgerOfRun'[c]]
      BY <1>r DEF ledgerOfRun
    <3> QED BY <1>1, <1>6, <3>1
  <2>4. UNCHANGED lostOfRun BY <1>3 DEF lostOfRun
  <2> QED BY <1>3, <1>r, <2>1, <2>2, <2>3, <2>4 DEF Ledger!Commit
<1> QED BY <1>7, <1>8

LEMMA EndCaseLedger ==
    ASSUME Resumable, ReleaseInv, ReleaseInv', EndCase
    PROVE  UNCHANGED <<ledgerOfRun, lostOfRun>>
<1>r. OneSelection /\ AlwaysCheckpointing /\ TypeInv /\ TypeInv'
  BY DEF Resumable, AlwaysCheckpointing, ReleaseInv
<1>1. pc = "query" /\ pc' = "ended" /\ fileState' = "whole" /\ fileState # "torn"
  <2>1. pc = "query" /\ pc' = "ended" BY DEF EndCase
  <2>2. fileState' = "whole" BY <1>r, EndCaseDisk DEF ReleaseInv
  <2> QED BY <2>1, <2>2 DEF ReleaseInv, FinalInv, Stopped
<1>2. committed = file /\ committed' = file' BY <1>1 DEF committed
<1>3. \A c \in opts.scope : /\ Full(file, c) => Alike(file', file, c)
                            /\ Full(file', c) => Full(file, c)
  BY EndCaseKeeps DEF ReleaseInv
<1>4. \A c \in opts.scope : Full(file, c) => Full(file', c) BY <1>3 DEF Full, Alike
<1>5. ledgerOfRun' = ledgerOfRun BY <1>2, <1>3, <1>4, <1>r, KeptLedger
<1> QED BY <1>1, <1>5 DEF lostOfRun

(* The final save: emptying the file takes nothing from the ledger while the *)
(* process lives, and what it writes is what it holds.                       *)
LEMMA SaveLedger ==
    ASSUME Resumable, ReleaseInv, ReleaseInv', OpenPredictions \/ WritePredictions
    PROVE  UNCHANGED <<ledgerOfRun, lostOfRun>>
<1>r. OneSelection /\ TypeInv /\ TypeInv' BY DEF Resumable, ReleaseInv
<1>1. CASE OpenPredictions
  <2>1. /\ pc = "save" /\ pc' = "saving" /\ UNCHANGED <<opts, preds, case>>
        /\ InLoop /\ Saving
    BY <1>1 DEF OpenPredictions, InLoop, Running, Saving
  <2>2. committed = file /\ committed' = Ordered(preds)
    BY <2>1 DEF committed, Ordered, Seen, QueriesOf
  <2>3. \A c \in opts.scope : Full(preds, c) /\ Alike(Ordered(preds), preds, c)
    BY <1>r, <2>1, SavedOrdered DEF ReleaseInv
  <2>4. \A c \in opts.scope : Alike(file, preds, c)
    BY <2>1, <2>3 DEF ReleaseInv, DiskInv
  <2>5. \A c \in opts.scope : /\ Full(committed', c) <=> Full(committed, c)
                              /\ Alike(committed', committed, c)
    BY <2>2, <2>3, <2>4 DEF Full, Alike
  <2>6. ledgerOfRun' = ledgerOfRun BY <1>r, <2>5, KeptLedger
  <2>7. ~lostOfRun /\ ~lostOfRun'
    BY <2>1 DEF lostOfRun, ReleaseInv, FinalInv, Stopped
  <2> QED BY <2>6, <2>7 DEF lostOfRun
<1>2. CASE WritePredictions
  <2>1. committed = Ordered(preds) /\ committed' = Ordered(preds)
    BY <1>2 DEF WritePredictions, committed
  <2>2. ledgerOfRun' = ledgerOfRun
    BY <2>1 DEF ledgerOfRun, CaseComplete, QueriesOf, AnswersOf
  <2> QED BY <1>2, <2>2 DEF WritePredictions, lostOfRun
<1> QED BY <1>1, <1>2

LEMMA CrashLedger ==
    ASSUME Resumable, ReleaseInv, ReleaseInv', Crash
    PROVE  UNCHANGED <<ledgerOfRun, lostOfRun>> \/ Ledger!Lose
<1>r. OneSelection /\ TypeInv /\ TypeInv' /\ UNION Scopes = opts.scope /\ opts' = opts
  BY Selected DEF Resumable, ReleaseInv, Crash, Stop
<1>1. pc' = "crashed" /\ UNCHANGED <<fileState, file>> BY DEF Crash, Stop, durable
<1>2. CASE pc # "saving" BY <1>1, <1>2, IdleLedger
<1>3. CASE pc = "saving"
  <2>1. fileState = "torn" /\ file = Empty /\ Saving
    BY <1>3 DEF ReleaseInv, FinalInv, DiskInv, Saving
  <2>2. committed = Ordered(preds) /\ committed' = Empty BY <1>1, <1>3, <2>1 DEF committed
  <2>3. \A c \in opts.scope : Full(preds, c) /\ Alike(Ordered(preds), preds, c)
    BY <1>r, <2>1, SavedOrdered DEF ReleaseInv
  <2>4. \A c \in opts.scope : Full(committed, c) /\ ~Full(committed', c)
    BY <1>r, <2>2, <2>3, EmptyDisk DEF Full, Alike
  <2>5. \A c \in opts.scope : ledgerOfRun[c] # NotCommitted /\ ledgerOfRun'[c] = NotCommitted
    BY <1>r, <2>4, LedgerEntry, LedgerEntryNext
  <2>6. ledgerOfRun' = [c \in UNION Scopes |-> NotCommitted]
    BY <1>r, <2>5 DEF ledgerOfRun
  <2>7. ~lostOfRun /\ lostOfRun' = TRUE BY <1>1, <1>3, <2>1 DEF lostOfRun
  <2> QED BY <1>r, <2>5, <2>6, <2>7 DEF Ledger!Lose
<1> QED BY <1>2, <1>3

LEMMA StepLedger ==
    ASSUME Resumable, ReleaseInv, ReleaseInv', [Next]_vars
    PROVE  [Ledger!LedgerNext]_<<ledgerOfRun, lostOfRun>>
<1>1. ASSUME NEW q \in Queries, NEW status, Answer(q, status)
      PROVE  UNCHANGED <<ledgerOfRun, lostOfRun>> \/ Ledger!LedgerNext
  <2>1. case \in UNION Scopes
    BY <1>1, AnswerPlace, Selected DEF ReleaseInv, Resumable
  <2> QED BY <1>1, <2>1, AnswerLedger DEF Ledger!LedgerNext
<1>2. CASE EndCase BY <1>2, EndCaseLedger
<1>3. CASE OpenPredictions \/ WritePredictions BY <1>3, SaveLedger
<1>4. CASE Crash BY <1>4, CrashLedger DEF Ledger!LedgerNext
<1>5. CASE UNCHANGED vars
  BY <1>5 DEF vars, ledgerOfRun, lostOfRun, committed, CaseComplete, QueriesOf, AnswersOf,
              Ordered, Seen
<1>6. CASE /\ Next /\ UNCHANGED <<fileState, file>>
           /\ ~(Crash \/ OpenPredictions \/ WritePredictions)
  <2>1. pc # "saving" /\ pc' # "saving"
    BY <1>6 DEF Next, Step, AgentFault, AnswerQuery, RecordFailure, AnswerInvalid, Answer,
       StartRun, LoadCheckpoint, SkipCase, BeginCase, ObserveSessions, SetupRaises,
       AnswerRaises, AnswerMalformed, ReportAnswer, EndCase, ReportCase, ValidateShard,
       FinishLoop, OpenPredictions,
       WritePredictions, Package, AttemptFails, Stop, AfterCase, Stopped
  <2> QED BY <1>6, <2>1, IdleLedger
<1> QED BY <1>1, <1>2, <1>3, <1>4, <1>5, <1>6, WhoWrites

LEMMA InitLedger == Resumable /\ ReleaseInv /\ Init => Ledger!LedgerInit
<1> SUFFICES ASSUME Resumable, ReleaseInv, Init PROVE Ledger!LedgerInit OBVIOUS
<1>1. pc = "idle" /\ fileState = "absent" /\ file = Empty BY DEF Init
<1>2. OneSelection /\ TypeInv /\ UNION Scopes = opts.scope
  BY Selected DEF Resumable, ReleaseInv
<1>3. committed = Empty /\ lostOfRun = FALSE BY <1>1 DEF committed, lostOfRun
<1>4. \A c \in opts.scope : ledgerOfRun[c] = NotCommitted
  BY <1>2, <1>3, EmptyDisk, LedgerEntry
<1>5. ledgerOfRun = [c \in UNION Scopes |-> NotCommitted] BY <1>2, <1>4 DEF ledgerOfRun
<1> QED BY <1>3, <1>5 DEF Ledger!LedgerInit

(* Invocations that all resume the same selection, each case of it with      *)
(* queries, implement the ledger whatever faults, retries and crashes they   *)
(* meet: cases are committed to disk in release order, one at a time, a      *)
(* committed case is final, and only a crash inside the final save, when     *)
(* every case is committed, loses it.                                        *)
THEOREM ResumedRunsKeepTheLedger ==
    ASSUME Resumable PROVE Spec => ImplementsLedger
<1>1. Init => ReleaseInv BY InitRelease
<1>2. ReleaseInv /\ [Next]_vars => ReleaseInv' BY ReleaseStep
<1>3. ReleaseInv /\ Init => Ledger!LedgerInit BY InitLedger
<1>4. ReleaseInv /\ ReleaseInv' /\ [Next]_vars => [Ledger!LedgerNext]_(Ledger!ledgerVars)
  BY StepLedger DEF Ledger!ledgerVars
<1> QED BY <1>1, <1>2, <1>3, <1>4, PTL DEF Spec, ImplementsLedger, Ledger!LedgerSpec
=============================================================================
