# Verification of AutoMemoryBench

TLA+ models of the parts of AutoMemoryBench (`amb/`) whose behaviour depends on
what happened before: runs that are interrupted, retried and resumed, files that
several steps write, a worker process behind pipes, memory providers whose calls
fail after they took effect, processes that share a cache. TLC checks small
instances; TLAPS proves every safety property of the runs, and the refinement
of the abstract specification, for all values of the constants.

Paths below are relative to `src/`; `benchmark/` stands for `amb/benchmark/`,
`providers/` for `amb/clients/providers/`.

## 1. The system

A benchmark *split* is a list of shards, a shard a list of *cases*, a case a
sequence of sessions to observe and a list of *queries* to answer. An *agent*
(a memory system behind an adapter) is driven through the cases; its answers
become *predictions*, which are validated, scored and packaged.

| component | state it keeps | operations | interacts with |
|---|---|---|---|
| **release run** `benchmark/release/evaluation_artifacts/evaluation.py` (first half), `benchmark/evaluation/core/runner.py` | in memory: predictions by query, query order, completed cases, trace rows; on disk: `predictions.json` (checkpoint *and* result), `run_state.json`, `run_metadata.json` | load checkpoint, skip or run a case, record an answer, validate a shard, retry, save, package | agent (calls), file system (checkpoint), caller (callbacks for state, progress, traces) |
| **trace resume** `cmd_run_release_agent` in `benchmark/interfaces/commands/evaluation.py` | predictions file and trace file, checkpointed separately | preload, truncate, refuse, flush, save | release run through `framework_trace_callback`, `emit_resume_traces` |
| **out-of-process worker** `amb/lib/adapters/worker.py`, `worker_entry.py` | two processes, three pipes | start, request/reply, close | `amb/lib/run.py` drives the proxy as an agent |
| **provider integrations** `benchmark/integrations/base.py` | the case under way, turns written so far | reset, observe (one add per turn), answer (search, then the model); call forms tried one after the other | the runner drives it, it drives a provider client |
| **provider clients** `providers/` (27 of them) | a service, an index or files, scoped by user, by object or not at all; buffers; agents | reset, add, search, each with its retry loop; guards around the official SDKs' model calls | third-party SDKs and services |
| **sharded Letta runs** `providers/framework_sdks/letta.py` | on disk: agents, embedding cache, throttle file | resolve an agent, embed, store, search | the other shards, through these files |
| **library entry point** `amb/lib/run.py`, `models.py`, `systems.py`, `validity.py` | the environment of the process, a cached registry, patched configurations on disk | resolve a system, inject a model, run, judge | runner, release run, worker |
| **semantic use audit** `amb/lib/semantic_use.py` | prepared signatures | decide whether a response uses or leaks a memory | none in the repository: offered to users of the library |
| memory state replay `benchmark/schemas/state.py`, `benchmark/generation/compilers/` | event log, memory units, edges, contracts of a case | compile, replay at a time, compare | generators write, validation reads |
| scoring, metrics `benchmark/evaluation/core/scoring.py`, `benchmark/metrics/` | none | score a prediction, aggregate | reads benchmark and predictions |
| artifact validation `benchmark/quality/core/` | none | validate benchmark, predictions, metadata, reports | every writer of an artifact |
| release builders `benchmark/release/builders`, `core`, `packaging` | shard files, manifests | assign splits, build shards, fingerprint, package; a build that fails is started over | generators, validation |
| agent runtimes `benchmark/evaluation/runtime`, `frameworks`, `framework_adapters` | sandbox world, tool traces | tool calls, export of a trace | release run |
| generation `benchmark/generation/` | seeded random choices | produce cases | builders |
| quality reports, analysis, leaderboard, CLI, security | none | batch computations over finished artifacts | – |

### What is hard, and what must hold

* **Release run.** A process may die between any two steps; the next one finds
  a file that holds part of a case, answers of a failed attempt, or answers of
  another selection. Retries keep the caller's state but not the attempt's.
  *Must hold:* a case on disk never mixes two passes; a file never mixes
  systems; what is returned is complete and valid; what was complete stays;
  progress never runs ahead of the disk; faults fewer than attempts are
  survived; the run ends.
* **Trace resume.** Two files are checkpointed at different moments.
  *Must hold:* no query is traced twice, rows and result agree in number and
  order, the trace file covers the complete cases.
* **Worker.** Replies are unnumbered lines on a stream shared with third-party
  code; a second pipe has no reader; `close` does not wait for the process it
  kills. *Must hold:* a reply belongs to its request, calls return, a worker
  ends after close and after the end of its host.
* **Adapter and clients.** Calls that are not idempotent are retried, in a loop
  inside a call form inside an attempt; clients differ in how they scope, wipe,
  buffer and swallow. *Must hold:* an answer comes from its own case, from this
  pass over it, from all or none of what was acknowledged; a turn is stored
  twice only if a failed call had taken effect; everything ends.
* **Letta shards.** Processes share files and may be killed anywhere.
  *Must hold:* requests are spaced, paid embeddings are not lost, a user has one
  agent, no shard waits for ever.
* **Model injection.** It writes into the environment that the next injection
  reads. *Must hold:* a system runs on the model asked for; the embedder is the
  same for all.
* **Semantic use.** One rule is written twice, with several thresholds.
  *Must hold:* both forms agree; a correct answer is no leak; use implies leak.
* **Guarded model calls.** Official code swallows errors. *Must hold:* nothing
  is stored of a broken answer; no text is cut because of an outage.

The hazards, each at its line and with the properties that cover it, are listed
in `PROJECT.json`.

## 2. Modules

| module | models | state and actions |
|---|---|---|
| `ReleaseRun` | the whole run half of the release run, over any number of invocations on one output directory | `preds` = `prediction_by_query`, `case`/`query` = position of the two loops, `completed`, `traces` = `framework_traces`, `attempt` = the retry loop; `file*` = `predictions.json`, `live` = `run_state.json`; `pc` is where the invocation stands. One action per step of the loop, from `StartRun` to `Package`. An answer and the end of a case each write two files, in two steps: `Answer` and `EndCase` write the checkpoint, `ReportAnswer` and `ReportCase` then `run_state.json`. `Crash`, possible between any two steps, drops everything but the files |
| `CaseLedger` | *abstract*: cases are committed in order, one at a time, for good | `ledger`, `lost`; `Commit`, `Lose` |
| `ResumableRun` | `ReleaseRun` under the discipline of a run that is resumed until it is done: every invocation resumes (`ResumeChoices`), all select the same cases, and each of them has queries (`OneSelection`). The properties that need it, and the refinement mapping to `CaseLedger` | – |
| `TraceResume` | `run-release-agent --resume --framework-trace-output` | `predFile`, `traceFile`, `held` = keys of `prediction_by_query`, `traces`, `emit` = `emit_resume_traces`; `Preload`, `RefuseResume`, `ReemitRow`, `TraceAnswer` and `RecordAnswer` (two steps, with a possible crash between them), `OpenTraces`, ... |
| `WorkerRpc` | proxy, worker and pipes | `host`, `child`, `stdin`, `stdout`, `logged` (fill of the stderr pipe), `sent`, `accepted`; one action per call, reply, end of file, timeout, signal. `kill()` sends a signal and returns (`KillChild`, the child is `dying`); `SignalDelivered` ends the process later |
| `ProviderClients` | every client under `providers/` as a *profile*: name space, reset, durability, buffering, retry loop with the failures it takes for transient, swallowed exceptions | constants only |
| `MemoryAdapter` | `ExternalMemoryAgent` driving a client of a given profile through the cases of a run, with restarts | `store`, `twice`, `unsettled` = what the provider holds, holds more than once, does not find yet; `acked` = turns the agent counts as written; `form`, `attempt` = the two inner loops; `answer` = what the last search could find. `ResetCase`, `AddReturns`, `AddRetried`, `AddInNextForm`, `AddGivenUp`, `FlushLost`, `SearchReturns`, ..., `Restart`, `KilledInAdd` |
| `LettaShards` | the processes of a sharded Letta run on their shared files | `agents` = saved agents, `agentId` = `_agent_ids`, `cache`, `lock`/`file`/`age` = throttle file, `need` = the computed wait; one action per step between two file operations, `Stop` and `Start` of a shard, `Tick` |
| `LibraryRun` | `run_system` calls of one process | `env` = `os.environ`, `registry` = the cached registry, `configs` = patched files; `Call`, `Inject`, `InjectRefused`, `LoadAgent`, `RunRaises`, `RunOnBenchmarkFile`, `RunOnSplit`, ... |
| `SemanticUse` | the decision rules, on a response that grows piece by piece | `said`, `quoted`, `reveals`, `negated`, `silent` = what the rules read of a response; `signatures`; the rules are operators with the names of the functions |
| `GuardedCalls` | model calls of A-MEM, Graphiti and Mem0 behind their guards | `job`, `attempt`, `form`, `corrected`, `stored` = what the SDK kept; one action per client and answer |
| `*Proofs` | TLAPS proofs about the module they are named after | – |
| `MC*` | values of the constants for TLC | – |

`ReleaseRun`, `WorkerRpc` and `MemoryAdapter` are three views of one run: the
agent that `ReleaseRun` calls and may see fail is `MemoryAdapter`'s, or the
handler behind `WorkerRpc`. `MemoryAdapter` composes the adapter with the
profiles of `ProviderClients`; what happens inside single calls of these clients
is in `LettaShards` and `GuardedCalls`.

### Abstractions

Release run and traces:

* Queries are numbered in release order, so a list of predictions in query
  order is a map and a trace is a sequence of numbers. `_ordered_predictions`
  is then the restriction to the queries seen so far (`Ordered`).
* A prediction is its producer (system, invocation, attempt) and whether it is
  an answer, a recorded failure, or an answer that shard validation refuses
  (an unknown memory operation is the only such case for predictions the runner
  makes: it cannot make duplicates).
* The temp-file-and-rename of `write_prediction_checkpoint` is atomic; the
  plain `write_json` of the final save is two steps with a torn file between.
* `run_state.json` is reduced to its counters and status.
* Duplicate query ids across shards, invalid manifests and withheld splits are
  refused before anything is written and are left out. A case without queries
  is in `ReleaseRun` (it is never "complete"), excluded by `ResumableRun` and left
  out of `TraceResume`.
* `ReleaseRun` puts the experiment's save and packaging behind every use of the
  retry loop. The experiment itself uses neither `failure_predictions` nor a
  selection; the command `run-release-agent` uses both, with one attempt and
  the same kind of save.

Worker: a line that is no valid reply is `stray` whatever it says: `json.loads`
or the test of `ok` raises. A line that happens to be a valid reply is not
considered.

Adapter and clients:

* A failure is an HTTP status and the words some client looks for, so that each
  client's own test for transient failures decides; backoff and `Retry-After`
  waits take no time.
* A search finds everything in its name space: what a provider ranks lower is
  there to be found. What the model makes of it is not modelled.
* `reset` raises no `TypeError`, nor does the write of a buffer that a failed
  write keeps. SimpleMem's `add_dialogue` is taken to buffer, as its name and
  use say. A service that ingests late is taken to be done within the settle
  wait after the last acknowledged add: the code waits for a fixed time and never
  asks the service, so `WholeCase` holds for these clients under this assumption
  only.
* A turn that LangMem's manager backend writes again under the same key replaces
  the first copy; the model counts it as a second one all the same.
* Synap turns failed model calls into zero vectors and empty texts, which a
  store does not show: its profile is that of a plain workspace.

Letta shards: throttle and cache are switched on (the throttle is off by default);
responses of the wrong shape, which make the adapter try its next call form, are
left out; a search finds every passage; one case per shard.

Library runs: an endpoint is the sequence of variables it is expanded from, a
key the variable it came from; `LLM_MODEL` stands for the model variables of all
agents. The aliases of the shipped registry whose configuration does not exist
are not names a call can use. A run on a split ends in an exception every time
(see below), so it saves nothing.

Semantic use: a text is the set of its salient tokens, the memories it contains
verbatim and its cues; how tokens are cut is left out.

Guarded calls: one request per note or episode, one call at a time; an answer is
its class. An error message that quotes an answer may look transient to
Graphiti's retry (`mentions`). Retries inside the SDKs and the health check of
the LLM at start are not modelled. The loops that go around these calls are
`MemoryAdapter`'s.

## 3. Runs

All configurations but `SemanticUse.cfg` set `CHECK_DEADLOCK FALSE`: a behaviour
ends when its budget of invocations, client objects, calls or requests is used
up, or when its run is over.

| run | shows | bounds |
|---|---|---|
| `release_run_faults` | coherence, isolation, completeness, the ledger of trace rows, the origin of a run's answers and types over all options and two systems | three cases of three, one and one queries (a case can be interrupted at two points), the first two in one shard (so that validation comes after a case boundary once, and after every case once); two invocations (what a stale, foreign or partial file needs), two attempts, two faults, crashes anywhere |
| `resumable_run` | refinement of `CaseLedger`, finality of complete cases, live state never ahead of the disk (also when killed between the writes of the two files), termination, faults absorbed by retries unless a run with traces is refused at packaging after one | the same cases, two systems, with and without traces, three resumed invocations (a resumed run is interrupted in turn), three attempts, two faults |
| `trace_resume` | no duplicate rows, rows equal result, complete cases have their rows on disk when every row is flushed | four invocations over three selections, a flush at every row or every two rows |
| `worker_rpc` | reply matching and reaping with stray prints, logs beyond the pipe's capacity, a faulty call, a dying host; calls return unless the log pipe is full, close returns and the worker ends after it, an orphaned worker ends | three requests, two stray lines, three records on a pipe of two |
| `memory_adapter` | which clients isolate cases and passes, lose nothing, answer from the whole case; that copies of a turn come from failed calls that took effect, at most one from each where adds are not buffered; that everything ends | 20 of the 27 profiles (the others repeat one of these, or differ only in which failures they retry); two cases, two turns, two queries (so that the second case and the second turn or query meet what the first left behind); two client objects, two tries, one call that takes effect although it fails, one call that runs through the forms |
| `letta_shards` | requests paid, whole passes, one agent, spacing, and that every shard ends | two shards with a text in common, one turn and a query each, two lives, one retry, one failed lookup |
| `library_run` | backbone as asked, a constant embedder if it has its own endpoint | three calls (the third meets what two left), a system of every class, two models of which one may have its own endpoint |
| `semantic_use` | both forms of the rule agree, no false leak, use implies leak | six tokens, five memories (a long decoy and its gold memory, one with a value, one inside another, a blank one), two signatures: exhaustive over responses |
| `guarded_calls` | nothing degraded, nothing cut without need, calls end | three attempts, two calls, all configurations and answers |

Fairness. `ResumableRun`: weak fairness of the process's own steps (`Step`): the
operating system schedules a process that is not killed, and every agent call
returns or raises. Faults and crashes are not fair. A provider call without a
timeout breaks this assumption, as `worker.py` can (see `logging_worker`).
`WorkerRpc`: both processes are scheduled, agent calls end and a signal reaches
its process. `MemoryAdapter`:
a provider call returns or raises and the agent goes on; restarts and late
ingestion are not fair. `LettaShards`: time passes (`Tick`) and a shard that runs
goes on (`Work`), which includes that `flock` is granted when it stays free; a
stopped shard need not be started. `GuardedCalls`: a request is answered or
times out.

What the clients' properties exclude is part of their statement, and is what
the code does: `CaseIsolation` excludes Memobase (a search without `user_id` may
read a default user) and Hindsight (one bank for all cases); `FreshPass` the
durable services that scope by user only; `NothingLost` clients that swallow a
failed add, drop their buffer or may write to a space they do not search
(Graphiti's default group, Memobase). `CopiesExplained` excludes none: for every
client, a turn is stored twice only after a failed call that took effect. That
there are no more copies than such calls is stated for clients that do not
buffer; one write of a buffer stores many turns.

Runs that find a disagreement between the code and what it says of itself (one
property each, quoted in `PROJECT.json` "findings"):

| run | disagreement |
|---|---|
| `logging_worker` | a worker that logs more than the stderr pipe holds hangs the run |
| `moving_embedder` | without `EMBEDDING_BASE_URL` the embedder follows the chat endpoint of the model injected before |

More of the kind is in the models, as an action or an exception of a property,
without a run of its own:

* with traces, a run that needed a retry past a finished case is refused at
  packaging: skipped cases are re-emitted into a list that already has their
  rows (`benchmark/release/evaluation_artifacts/evaluation.py:581`); this is
  the exception `RefusedRetry` of `RetriesAbsorbFaults`;
* without `--resume`, the first attempt does not look at the file, but a retry
  "resumes from checkpoints when available" (`:280`), whoever wrote them: if the
  first attempt fails before its first answer, the run may return answers of an
  older invocation. They are never mixed with answers of the first attempt, whose
  first checkpoint takes the old ones off the disk (`FirstAttemptOwnsResult`);
* the final save truncates the checkpoint in place (`:586`), so a crash there
  loses the run (`Lose` of `CaseLedger`);
* an answer with an unknown memory operation is durable before its shard is
  validated, so all retries fail on it (`Poisoned` in `RetriesAbsorbFaults`);
* a checkpoint holds only the cases the loop has taken up so far, so a case with
  nothing to skip that stands before finished ones takes these off the disk
  until the loop has passed them: a case that only the resumed invocation
  selects, or one without queries, which is run again every time (validation
  accepts both). A kill at that moment loses finished work, and `run_state.json`
  counts it. A narrower selection drops finished cases for good. Nothing in the
  repository promises otherwise; `DurableCasesAreFinal`, `LiveNeverAheadOfDisk`
  and the refinement are therefore stated for `ResumableRun`'s discipline;
* a recorded failure counts as a prediction: a resumed run does not ask again;
* `--failure-predictions` covers the call of the agent, not a malformed answer
  (`AnswerMalformed`);
* when rows are flushed less often than every query (twelve is the default), a
  crash can leave predictions without any row, and the resume refuses to start
  (`RefuseResume`); at interval 1 a resume still leaves predictions of a partial
  case whose rows are only in memory;
* a line the agent prints to stdout fails the call it falls into (`StrayLine`),
  although the agent did nothing wrong;
* `reset` of the durable services does nothing
  (`providers/framework_sdks/letta.py:49`, for one), while
  `docs/INTEGRATION.md:16` says to "clear all state before a new case starts";
* a run on a release split always ends in an exception (`RunOnSplit`): the
  result, a `PredictionSet`, cannot be serialised by `write_json`
  (`amb/lib/run.py:120`), which has truncated the checkpoint by then.

Every property of a passing run has a mutant of the code (an operator marked
`mutant:` next to the definition it replaces) under which TLC finds it violated.

## 4. Proofs

Everything here holds for all values of the constants that the named assumption
of the module allows; TLC evaluates these assumptions in every run.

`ReleaseRunProofs` (`ReleaseRunAssumption`: any split, selections, options and
bounds):

* `TypeCorrect`: `Spec => []TypeOK`. The only non-trivial parts are the bounds:
  `attempt` stays in range because `AttemptFails` retries only below
  `MaxAttempts`; `completed` stays below `NumCases` because it never exceeds
  the number of the last case taken up, which `TypeInv` adds; a trace row of a
  skipped case is a query of that case (`CaseBounds`).
* `DiskCoherent` and `DiskIsolated`: `Spec => []CaseCoherence`,
  `Spec => []SystemIsolation`. Neither is inductive: a checkpoint is written
  from memory. `SourceInv` carries the argument: what is in memory under a
  running attempt came either from the file it was loaded from (with its
  system and its coherence) or from the current pass; the case being run holds
  only answers of this attempt, and nothing beyond `query`, because `BeginCase`
  dropped the rest; restricting to the queries seen (`OrderedSource`) preserves
  both. The cases are disjoint (`CasesDisjoint`).
* `FreshResultIsOwn`: `Spec => []FirstAttemptOwnsResult`. `OwnInv` follows the
  answers through the file, from which a retry loads them: within a run without
  resume, file and memory mix no answer of the first attempt with one of another
  invocation, and the first attempt holds only its own.
* `CompleteResult`: `Spec => []ResultComplete`. `LoopInv` says that every
  selected case up to the current one is answered, `ShardInv` that the shards
  already validated hold no refused answer; at the end of the loop all selected
  cases are behind.
* `TracesFollowTheLoop`: `Spec => []TraceLedger`, inductive together with what a
  stopped invocation leaves to the next one (`TraceInv`): first attempt, no rows.

Under the hypotheses that `ResumableRun` names (and which its run's instance
satisfies: `ResumableInstance` in `MCResumableRun`):

* `LiveIsOnDisk`: `LiveNeverAheadOfDisk`, for one selection and a run that writes
  checkpoints (several attempts or resume), whether it resumes or not, and also
  between the writes of the two files. `DiskInv`: the finished cases on disk and
  in memory are a prefix of the selection (`Prefix`), nothing lies ahead of the
  loop, and within the loop a case finished in memory is on disk as it is.
  `LiveInv` compares the counter of cases with the number of cases behind the
  loop, `PredictedInv` that of predictions with what memory holds, which the file
  covers.
* `CompleteCasesStay`: `DurableCasesAreFinal`, for one selection and resumed
  invocations. `FinalInv` is the converse of the last part of `DiskInv`: a case
  finished on disk is in memory as it is, because the checkpoint was loaded
  first; so each later checkpoint writes it again unchanged.
* `ResumedRunsKeepTheLedger`: `ImplementsLedger`, with the same hypotheses.
  `InitLedger`, and for each kind of step what it is to the ledger: a step that
  writes nothing stutters; a checkpoint after an answer
  commits at most the case under way, and all before it are committed
  (`AnswerLedger`); the one at the end of a case adds nothing (`EndCaseLedger`); the final save commits and loses nothing,
  as its answers are still in memory (`SaveLedger`); a crash within it is `Lose`
  (`CrashLedger`).

One lemma per action and conjunct (`TypeStep`, `SourceStep`, `LoopStep`,
`TraceStep`, `DiskStep`, `LiveStep`, `PredictedStep`, `OwnStep`, `FinalStep`) and lemmas for what several
actions share (`StopSource`, `FailSource`, `AnswerSource`).

`TraceResumeProofs` (`TraceResumeAssumption`: any cases, selections, flush
intervals and number of runs):

* `TypeCorrect`: `TypeOK` with `PlaceInv`, which places `query` within the case
  under way. Files and rows come from enumerating sets of queries in ascending
  order; `InOrder` chooses the enumeration by its property (every SMT encoding of
  the sort of the library is opaque), and the lemmas from `RankType` to
  `OneListing` show that it exists and is the only one.
* `RowsNeverDoubled`: `NoDuplicateRows`. Preloaded rows end with a case `k`
  (`SafeRows`: `SafeCount` keeps no part of a case), and the loop skips exactly
  the cases up to `k`, since their predictions are held (`RowsInv`, with its
  two halves for preloaded and for re-emitted rows); so the next new row is
  beyond all of them.
* `RowsAddUp`: `RowsMatchResult`, from `RowsInv` and from `HeldInv`: the cases
  behind the loop are held in full.
* `CompleteCasesHaveRows`: `CompleteCasesTraced`. `FilesInv`: with every row
  flushed, the trace file and the rows in memory agree with the predictions file
  up to the end of every case complete in the latter (`Agree`), between the two
  writes of an answer too.

`WorkerRpcProofs` (`WorkerRpcAssumption`: any number of requests, any pipe, any
bounds): `Typed`; `EveryReplyIsItsOwn`. Requests carry no
number, so the proof follows the one request there can be: while the proxy
waits, it is in the pipe, taken up by the worker, or answered by the only valid
reply among the lines on stdout (`InFlight`); while it does not wait, there is
none of these, since a call that fails in any other way ends the use of the
proxy (`failed`).

`MemoryAdapterProofs` (`AdapterAssumption`: any profile of the shape `Profiles`,
so also for clients not written yet; any number of cases, turns, queries,
restarts and faults):

* `SpecCaseIsolation`, `SpecFreshPass`. What a search finds has to be traced back
  to who wrote it: `Origin` says that an entry in a user's space is of that
  user's case, one in an object's space of the pass that built it (`InPlace`),
  that a pass is over one case (`OneCase`), and what an emptied space or
  storage that dies with its object can hold (`Fresh`). All steps inside a pass
  are instances of one relation (`Within`), so `Origin` is proved once for them,
  once for `ResetCase`, once for a new client object.
* `SpecNothingLost`. `Held`: for a lossless client, every acknowledged turn is in
  the buffer or stored in the one space (`Home`) that its calls reach;
  `Progress` says where the loops are, in particular that a search begins with
  an empty buffer and with nothing unsettled.
* `SpecCopiesExplained`. `Clean`: as long as no failed call had an effect, the turn
  about to be written, and the buffered ones, are not in the store. `Counted`
  bounds not the copies alone but also the turns stored ahead of the agent's count
  (`Surplus`), which the retry turns into copies: each failed call adds at most
  one to these together.
* `SpecTypeOK`. The bound on passes is not inductive: `Begun` splits it into the
  cases of the client objects before and those of the present one; `Moved` is
  what a step inside a pass may do to the loops.
* `SpecWholeCase`. `Observed`: until a call fails, only the first form is used,
  which adds to the space it searches, and each turn observed is buffered or
  stored there; with `Progress`, a search begins when all are stored and
  searchable.

`LettaShardsProofs` (`ShardsAssumption`: any number of shards, texts, retries):

* `SpecSpaced`. `Throttle`: exactly the holder of the lock is between reading and
  stamping (`Behind`); what it has left to wait and the age of the stamp make up
  the interval, and an empty file means that the interval is over (`Covered`) –
  the last part is what makes a kill between truncation and stamp harmless.
* `SpecPassComplete`, `SpecOneAgent`. `Kept` and `Owed`: the agent id a client
  object keeps holds all turns it has done, and a shard about to create an
  agent has a failed lookup for every one there is.
* `SpecRequestsPaid`. `Account` counts: while a text is not cached, the answers
  paid for and not lost are those in the hands of shards about to cache them;
  once it is cached, nobody starts to ask for it, so what was paid and the
  shards still asking together are no more than the shards. A shard asks or
  holds, not both (`AskingOrHolding`), which bounds the change from one to the
  other.

`LibraryRunProofs` (`LibraryAssumption`: any registry, families, variables and
environments, provided the first variable of the embedder is not one that is
injected): `SpecBackboneAsAsked` from `RegistryOfStart` (the registry is expanded
before anything was injected) and `Injected`; `SpecOwnEmbedder` from the fact
that no step writes the embedder's first variable.

`SemanticUseProofs` (`SemanticUseAssumption`: any vocabulary and memories):
`SpecBatchAgrees` from `BlankHasNothing` (a blank memory has no unique token, so
the batch form need not test for blanks); `SpecGoldIsNoLeak`; `SpecUseIsLeak`,
which compares the thresholds by cardinalities of finite sets.

`GuardedCallsProofs` (`GuardedAssumption`: any number of attempts and calls):
`SpecNothingDegraded`, inductive as it stands; `SpecCutOnlyIfRefused` from
`TriedInOrder` (the forms before the current one were refused).

Model-checked only: liveness (`Termination`, `RetriesAbsorbFaults`, `Ends`,
`Finishes`, `CallEnds`, `OnlyLogsBlockCalls`, `CloseEndsWorker`, `WorkerFollowsHost`), which TLAPS
cannot prove under fairness, and the runs that find a disagreement.

Two proofs changed a model. `DurableCasesAreFinal` and `LiveNeverAheadOfDisk` were
first stated for all selections; `Prefix` could not be proved, and TLC found the
two counterexamples described in section 3 once the instance had them.
`InOrder` of `TraceResume` was a library sort about which nothing can be proved.

## 5. What is left

* A model of the binding checks of `evaluate_release_split_predictions`
  (metadata, traces, fingerprints) over the files `ReleaseRun` leaves behind. They
  compare finished files in one pass; the states worth checking are those an
  interrupted run leaves, `run_metadata.json` among them, which is written
  before the run (`evaluation.py:568`).

## 6. Not modelled

* **Memory state replay, scoring, metrics, validators, reports, analysis,
  leaderboard**: deterministic functions of finished artifacts, computed in one
  pass. What they compute depends on data the models abstract from.
* **Release builders, splits, packaging, case generation**: single-process
  batch work from a seed, started over when it fails.
* **Agents and framework runtimes**: their loops run inside third-party
  frameworks; the agent is the environment of `ReleaseRun` and the handler of
  `WorkerRpc`.
* **Of the provider clients**: construction of SDK objects, patches of their
  imports, conversion of payloads, and `get_all` and `delete`, which no run
  calls. The SDKs and services are external.
* **Of the adapter**: the alignment of provider ids with memory ids, which
  compares texts.
* **Of the worker**: processes the agent starts that keep the pipes open.
* **Of the isolated runs**: `set_case_reference` is found with `hasattr`, which the
  worker proxy does not forward (`benchmark/evaluation/core/runner.py:37`): the
  content of answers is below the abstraction of `WorkerRpc`.
* **Command line, secrets, configurations, data, docs, scripts**: no behaviour
  over time, except `cmd_run_release_agent`, which `TraceResume` models.
