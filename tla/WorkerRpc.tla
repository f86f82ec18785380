------------------------------ MODULE WorkerRpc ------------------------------
(***************************************************************************)
(* A system run out of process: the proxy WorkerAgent of                   *)
(* lib/adapters/worker.py, driven by one run of lib/run.py, and the child  *)
(* that lib/adapters/worker_entry.py serves it from, joined by three       *)
(* pipes.  The child's library code may write to stdout, which carries the *)
(* replies, and to stderr, which nobody reads while the child lives.       *)
(* A request is reduced to its number, a line of stdout to what the proxy  *)
(* makes of it and the request it answers.                                 *)
(***************************************************************************)
EXTENDS Integers, Sequences

CONSTANTS
    MaxRequests,     \* bound: reset, observe, answer_or_act calls of a run
    StdoutCapacity,  \* lines the stdout pipe holds
    StderrCapacity,  \* log records the stderr pipe holds
    MaxPrints,       \* bound: lines the agent prints to stdout
    MaxLogs,         \* bound: records it writes to stderr
    MaxFaults        \* bound: calls that raise or end the child

ASSUME WorkerRpcAssumption ==
    /\ MaxRequests \in Nat \ {0}
    /\ StdoutCapacity \in Nat \ {0} /\ StderrCapacity \in Nat
    /\ MaxPrints \in Nat /\ MaxLogs \in Nat /\ MaxFaults \in Nat

VARIABLES
    host,      \* where the proxy's process is
    child,     \* where the worker is
    job,       \* the request the worker last took up
    stdin,     \* requests on their way to the worker
    stdout,    \* lines on their way to the proxy
    logged,    \* records in the stderr pipe
    sent,      \* requests made
    accepted,  \* the requests whose reply was returned to the caller, by the
               \* request each reply answers
    failed,    \* a call of the proxy raised
    prints, logs, faults

pipes  == <<stdin, stdout, logged>>
budget == <<prints, logs, faults>>
vars == <<host, child, job, stdin, stdout, logged, sent, accepted, failed,
          prints, logs, faults>>

CloseRequest == 0
Requests == 1..MaxRequests
Line == [kind : {"ready", "ok", "error", "stray"}, of : 0..MaxRequests]

Alive == child # "dead"

-----------------------------------------------------------------------------
(* The host                                                                *)

\* mutant: the run records the failure and goes on with the same worker
CarryOn == host' = "idle" /\ failed' = TRUE

\* WorkerError or JSONDecodeError: the run ends and the proxy is closed, by the
\* finally clause of the run or, when the worker did not start, by the
\* constructor; where the read itself raised there, by the proxy's __del__
Raise == host' = "closing" /\ failed' = TRUE

Init ==
    /\ host = "starting" /\ child = "loading" /\ job = 0
    /\ stdin = <<>> /\ stdout = <<>> /\ logged = 0
    /\ sent = 0 /\ accepted = <<>> /\ failed = FALSE
    /\ prints = 0 /\ logs = 0 /\ faults = 0

Send ==
    /\ host = "idle" /\ sent < MaxRequests
    /\ sent' = sent + 1
    /\ IF Alive
       THEN host' = "waiting" /\ stdin' = Append(stdin, sent') /\ UNCHANGED failed
       ELSE Raise /\ UNCHANGED stdin
    /\ UNCHANGED <<child, job, stdout, logged, accepted, budget>>

\* the first line must say ready, the others ok
Expected == IF host = "starting" THEN "ready" ELSE "ok"

\* mutant: the ready line is taken for the reply to a request
AnyLine == Append(accepted, Head(stdout).of)

\* what has been returned once the next line is accepted
Returned == IF host = "waiting" THEN Append(accepted, Head(stdout).of) ELSE accepted

ReadReply ==
    /\ host \in {"starting", "waiting"} /\ stdout # <<>>
    /\ stdout' = Tail(stdout)
    /\ IF Head(stdout).kind = Expected
       THEN /\ host' = "idle" /\ UNCHANGED failed
            /\ accepted' = Returned
       ELSE Raise /\ UNCHANGED accepted
    /\ UNCHANGED <<child, job, stdin, logged, sent, budget>>

ReadEndOfFile ==
    /\ host \in {"starting", "waiting"} /\ stdout = <<>> /\ ~Alive
    /\ Raise
    /\ UNCHANGED <<child, job, pipes, sent, accepted, budget>>

FinishRun ==
    /\ host = "idle" /\ host' = "closing"
    /\ UNCHANGED <<child, job, pipes, sent, accepted, failed, budget>>

Close ==
    /\ host = "closing"
    /\ IF Alive
       THEN host' = "reaping" /\ stdin' = Append(stdin, CloseRequest)
       ELSE host' = "closed" /\ UNCHANGED stdin
    /\ UNCHANGED <<child, job, stdout, logged, sent, accepted, failed, budget>>

ChildEnded ==
    /\ host = "reaping" /\ ~Alive /\ host' = "closed"
    /\ UNCHANGED <<child, job, pipes, sent, accepted, failed, budget>>

\* mutant: when the wait times out the worker is left alone
LeaveChild == host' = "closed" /\ UNCHANGED child

\* kill() sends the signal; close returns without waiting for its effect
KillChild == host' = "closed" /\ child' = "dying"

\* proc.wait(timeout=10) ran out
CloseTimesOut ==
    /\ host = "reaping" /\ Alive
    /\ KillChild
    /\ UNCHANGED <<job, pipes, sent, accepted, failed, budget>>

\* The host process dies without closing the proxy; its pipe ends close.
HostKilled ==
    /\ host \notin {"closed", "killed"} /\ host' = "killed"
    /\ UNCHANGED <<child, job, pipes, sent, accepted, failed, budget>>

-----------------------------------------------------------------------------
(* The worker.  A write to stdout waits for room; without a reader it      *)
(* raises BrokenPipeError, which ends the worker.                          *)

Reply(kind, n, next) ==
    IF host = "killed"
    THEN child' = "dead" /\ UNCHANGED stdout
    ELSE /\ Len(stdout) < StdoutCapacity
         /\ stdout' = Append(stdout, [kind |-> kind, of |-> n])
         /\ child' = next

LoadAgent ==
    /\ child = "loading"
    /\ Reply("ready", 0, "reading")
    /\ UNCHANGED <<host, job, stdin, logged, sent, accepted, failed, budget>>

\* the config or the system's SDK cannot be loaded
LoadFails ==
    /\ child = "loading" /\ faults < MaxFaults /\ faults' = faults + 1
    /\ Reply("error", 0, "dead")
    /\ UNCHANGED <<host, job, stdin, logged, sent, accepted, failed, prints, logs>>

TakeRequest ==
    /\ child = "reading" /\ stdin # <<>> /\ Head(stdin) # CloseRequest
    /\ stdin' = Tail(stdin) /\ job' = Head(stdin) /\ child' = "handling"
    /\ UNCHANGED <<host, stdout, logged, sent, accepted, failed, budget>>

TakeClose ==
    /\ child = "reading" /\ stdin # <<>> /\ Head(stdin) = CloseRequest
    /\ stdin' = Tail(stdin)
    /\ Reply("ok", 0, "dead")
    /\ UNCHANGED <<host, job, logged, sent, accepted, failed, budget>>

\* mutant: the worker waits for another line after the end of its input
KeepReading == UNCHANGED child

EndLoop == child' = "dead"

InputEnds ==
    /\ child = "reading" /\ stdin = <<>> /\ host = "killed"
    /\ EndLoop
    /\ UNCHANGED <<host, job, pipes, sent, accepted, failed, budget>>

CallReturns ==
    /\ child = "handling"
    /\ Reply("ok", job, "reading")
    /\ UNCHANGED <<host, job, stdin, logged, sent, accepted, failed, budget>>

\* mutant: the reply of a call that raised is not written
SwallowError == child' = "reading" /\ UNCHANGED stdout

ReplyError == Reply("error", job, "reading")

CallRaises ==
    /\ child = "handling" /\ faults < MaxFaults /\ faults' = faults + 1
    /\ ReplyError
    /\ UNCHANGED <<host, job, stdin, logged, sent, accepted, failed, prints, logs>>

\* SystemExit, a crash of native code, or a result json.dumps refuses outside
\* the try: the worker ends without a reply
CallExits ==
    /\ child \in {"loading", "handling"} /\ faults < MaxFaults /\ faults' = faults + 1
    /\ child' = "dead"
    /\ UNCHANGED <<host, job, pipes, sent, accepted, failed, prints, logs>>

\* the agent, or a thread it started, prints a line
StrayLine ==
    /\ Alive /\ host # "killed" /\ prints < MaxPrints /\ prints' = prints + 1
    /\ Len(stdout) < StdoutCapacity
    /\ stdout' = Append(stdout, [kind |-> "stray", of |-> 0])
    /\ UNCHANGED <<host, child, job, stdin, logged, sent, accepted, failed, logs, faults>>

Log ==
    /\ child \in {"loading", "handling"} /\ logs < MaxLogs /\ logs' = logs + 1
    /\ IF logged < StderrCapacity
       THEN logged' = logged + 1 /\ UNCHANGED child
       ELSE child' = "stuck" /\ UNCHANGED logged
    /\ UNCHANGED <<host, job, stdin, stdout, sent, accepted, failed, prints, faults>>

\* the write to stderr returns when its reader is gone
Unblocked ==
    /\ child = "stuck" /\ host = "killed" /\ child' = "dead"
    /\ UNCHANGED <<host, job, pipes, sent, accepted, failed, budget>>

\* the signal of kill() ends it, whatever it was doing
SignalDelivered ==
    /\ child = "dying" /\ child' = "dead"
    /\ UNCHANGED <<host, job, pipes, sent, accepted, failed, budget>>

-----------------------------------------------------------------------------
HostStep ==
    \/ Send \/ ReadReply \/ ReadEndOfFile \/ FinishRun
    \/ Close \/ ChildEnded \/ CloseTimesOut

ChildStep ==
    \/ LoadAgent \/ LoadFails \/ TakeRequest \/ TakeClose \/ InputEnds
    \/ CallReturns \/ CallRaises \/ CallExits \/ Unblocked
    \/ SignalDelivered

Next == HostStep \/ ChildStep \/ StrayLine \/ Log \/ HostKilled

Spec == Init /\ [][Next]_vars

\* Both processes are scheduled, every call of the agent ends, unless a write
\* it makes is blocked, and a signal reaches its process.
FairSpec == Spec /\ WF_vars(HostStep) /\ WF_vars(ChildStep)

-----------------------------------------------------------------------------
TypeOK ==
    /\ host \in {"starting", "idle", "waiting", "closing", "reaping", "closed", "killed"}
    /\ child \in {"loading", "reading", "handling", "stuck", "dying", "dead"}
    /\ job \in 0..MaxRequests
    /\ stdin \in Seq(0..MaxRequests) /\ stdout \in Seq(Line)
    /\ logged \in 0..StderrCapacity /\ sent \in 0..MaxRequests
    /\ accepted \in Seq(Requests) /\ failed \in BOOLEAN
    /\ prints \in 0..MaxPrints /\ logs \in 0..MaxLogs /\ faults \in 0..MaxFaults

\* Whatever else the child writes to stdout, a result that a call of the proxy
\* returns is the result of that very call, although requests carry no number,
\* and a run that did not fail got one for each request.
RepliesMatchRequests ==
    /\ \A i \in 1..Len(accepted) : accepted[i] = i
    /\ ~failed /\ host \in {"idle", "closing", "reaping", "closed"} => Len(accepted) = sent

\* Every call of the proxy ends, and the run with it, unless the host dies or
\* the worker is blocked on its stderr; close ends even then.
OnlyLogsBlockCalls ==
    /\ (host \in {"starting", "waiting"}) ~>
           (host \notin {"starting", "waiting"} \/ child = "stuck")
    /\ (host \in {"closing", "reaping"}) ~> (host \in {"closed", "killed"})

\* A worker that its proxy closes ends, whatever state the run left it in:
\* between requests, inside a call, behind a full pipe, or with an unread
\* reply.  It may still be ending when close returns.
CloseEndsWorker == (host \in {"closing", "reaping", "closed"}) ~> (child = "dead")

\* A worker does not outlive the process that started it.
WorkerFollowsHost == (host = "killed") ~> (child = "dead")

-----------------------------------------------------------------------------
(* What the source says of itself and its code does not do.                *)

\* "predictions - and therefore scores - are identical to an in-process run":
\* a call returns or raises, as it does without the worker in between.
CallsReturn == (host \in {"starting", "waiting"}) ~> (host \notin {"starting", "waiting"})

=============================================================================
