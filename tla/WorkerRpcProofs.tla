---------------------------- MODULE WorkerRpcProofs ----------------------------
(***************************************************************************)
(* Proofs about WorkerRpc, for any number of requests, pipes of any size   *)
(* and any bounds: a result that the proxy returns is the result of the    *)
(* call it is returned from (RepliesMatchRequests).                        *)
(***************************************************************************)
EXTENDS WorkerRpc, SequenceTheorems, TLAPS

(* The proxy still reads replies.                                            *)
Serving == host \in {"starting", "idle", "waiting"}

OkLine(i) == i \in 1 .. Len(stdout) /\ stdout[i].kind = "ok"

NoReply == \A i \in 1 .. Len(stdout) : ~OkLine(i)

(* Where the one request of a waiting proxy can be: on its way, taken up, or *)
(* answered by the only ok line there is.                                    *)
OnItsWay == stdin = <<sent>> /\ child # "handling" /\ NoReply

TakenUp == stdin = <<>> /\ child = "handling" /\ job = sent /\ NoReply

Answered ==
    /\ stdin = <<>> /\ child # "handling"
    /\ \A i \in 1 .. Len(stdout) : OkLine(i) => stdout[i].of = sent
    /\ \A i, j \in 1 .. Len(stdout) : OkLine(i) /\ OkLine(j) => i = j

InFlight ==
    Serving =>
        /\ ~failed
        /\ host = "starting" => sent = 0
        /\ host \in {"starting", "idle"} =>
               stdin = <<>> /\ child # "handling" /\ NoReply /\ Len(accepted) = sent
        /\ host = "waiting" =>
               Len(accepted) + 1 = sent /\ (OnItsWay \/ TakenUp \/ Answered)

RpcInv == TypeOK /\ InFlight /\ RepliesMatchRequests

-----------------------------------------------------------------------------
LEMMA InitRpc == Init => RpcInv
<1> SUFFICES ASSUME Init PROVE RpcInv
  OBVIOUS
<1>1. <<>> \in Seq(0 .. MaxRequests) /\ <<>> \in Seq(Line) /\ <<>> \in Seq(Requests)
  BY EmptySeq
<1>2. TypeOK
  <2>1. stdin \in Seq(0 .. MaxRequests) /\ stdout \in Seq(Line) /\ accepted \in Seq(Requests)
    BY <1>1 DEF Init
  <2>2. /\ job \in 0 .. MaxRequests /\ sent \in 0 .. MaxRequests /\ logged \in 0 .. StderrCapacity
        /\ prints \in 0 .. MaxPrints /\ logs \in 0 .. MaxLogs /\ faults \in 0 .. MaxFaults
    BY WorkerRpcAssumption DEF Init
  <2> QED
    BY <2>1, <2>2 DEF Init, TypeOK
<1>3. InFlight
  BY DEF Init, InFlight, Serving, NoReply, OkLine
<1>4. RepliesMatchRequests
  BY DEF Init, RepliesMatchRequests
<1> QED
  BY <1>2, <1>3, <1>4 DEF RpcInv

-----------------------------------------------------------------------------
(* The pipe of the replies.                                                  *)

(* A line written to it comes after the lines in it.                         *)
LEMMA AppendLine ==
    ASSUME TypeOK, NEW line \in Line, stdout' = Append(stdout, line)
    PROVE  /\ stdout' \in Seq(Line)
           /\ \A i \in 1 .. Len(stdout) : stdout'[i] = stdout[i]
           /\ Len(stdout) \in Nat
           /\ Len(stdout') = Len(stdout) + 1 /\ stdout'[Len(stdout) + 1] = line
BY AppendProperties DEF TypeOK

(* A line that is not ok answers no request.                                 *)
LEMMA OtherLine ==
    ASSUME TypeOK, NEW line \in Line, stdout' = Append(stdout, line), line.kind # "ok"
    PROVE  /\ \A i \in 1 .. Len(stdout') : OkLine(i)' <=> OkLine(i)
           /\ \A i \in 1 .. Len(stdout) : stdout'[i] = stdout[i]
           /\ Len(stdout) \in Nat /\ Len(stdout') = Len(stdout) + 1
BY AppendLine DEF OkLine

(* The proxy takes the first line; the others move up.                       *)
LEMMA TakeLine ==
    ASSUME TypeOK, stdout # <<>>, stdout' = Tail(stdout)
    PROVE  /\ Len(stdout) \in Nat \ {0} /\ Len(stdout') = Len(stdout) - 1
           /\ stdout' \in Seq(Line) /\ Head(stdout) \in Line
           /\ Head(stdout) = stdout[1]
           /\ \A i \in 1 .. Len(stdout') : stdout'[i] = stdout[i + 1]
<1>1. stdout \in Seq(Line) /\ Len(stdout) \in Nat
  BY LenProperties DEF TypeOK
<1>2. Len(stdout) # 0
  BY <1>1, EmptySeq
<1>3. Head(stdout) \in Line /\ Tail(stdout) \in Seq(Line) /\ Head(stdout) = stdout[1]
  BY <1>1, HeadTailProperties
<1>4. Len(Tail(stdout)) = Len(stdout) - 1
      /\ \A i \in 1 .. Len(Tail(stdout)) : Tail(stdout)[i] = stdout[i + 1]
  BY <1>1, HeadTailProperties
<1> QED
  BY <1>1, <1>2, <1>3, <1>4

(* A line that is not ok leaves the request of a waiting proxy where it is,  *)
(* or ends its handling.                                                     *)
LEMMA OtherLineKeepsFlight ==
    ASSUME RpcInv, NEW line \in Line, stdout' = Append(stdout, line), line.kind # "ok",
           UNCHANGED <<host, job, stdin, sent, accepted, failed>>,
           child' = "handling" => child = "handling"
    PROVE  InFlight'
<1>1. /\ \A i \in 1 .. Len(stdout') : OkLine(i)' <=> OkLine(i)
      /\ \A i \in 1 .. Len(stdout) : stdout'[i] = stdout[i]
      /\ Len(stdout) \in Nat /\ Len(stdout') = Len(stdout) + 1
  BY OtherLine DEF RpcInv
<1>2. NoReply => NoReply'
  BY <1>1 DEF NoReply, OkLine
<1>3. OnItsWay => OnItsWay'
  BY <1>2 DEF OnItsWay
<1>4. TakenUp => TakenUp' \/ Answered'
  BY <1>1, <1>2 DEF TakenUp, Answered, NoReply
<1>5. Answered => Answered'
  BY <1>1 DEF Answered, OkLine
<1> QED
  BY <1>2, <1>3, <1>4, <1>5 DEF RpcInv, InFlight, Serving

(* A step outside the pipes that does not start to handle a request.         *)
LEMMA QuietKeepsFlight ==
    ASSUME RpcInv, UNCHANGED <<host, job, stdin, stdout, sent, accepted, failed>>,
           child' = "handling" => child = "handling"
    PROVE  InFlight'
<1>1. NoReply => NoReply'
  BY DEF NoReply, OkLine
<1>2. OnItsWay => OnItsWay'
  BY <1>1 DEF OnItsWay
<1>3. TakenUp => TakenUp' \/ Answered'
  BY <1>1 DEF TakenUp, Answered, NoReply, OkLine
<1>4. Answered => Answered'
  BY DEF Answered, OkLine
<1> QED
  BY <1>1, <1>2, <1>3, <1>4 DEF RpcInv, InFlight, Serving

(* The pipe of the requests.                                                 *)
LEMMA AppendRequest ==
    ASSUME TypeOK, NEW n \in 0 .. MaxRequests
    PROVE  /\ Append(stdin, n) \in Seq(0 .. MaxRequests)
           /\ stdin = <<>> => Append(stdin, n) = <<n>>
<1>1. stdin \in Seq(0 .. MaxRequests)
  BY DEF TypeOK
<1>2. Append(stdin, n) \in Seq(0 .. MaxRequests)
  BY <1>1, AppendProperties
<1>3. stdin = <<>> => Append(stdin, n) = <<n>>
  OBVIOUS
<1> QED
  BY <1>2, <1>3

LEMMA TakeOne ==
    ASSUME TypeOK, stdin # <<>>
    PROVE  /\ Head(stdin) \in 0 .. MaxRequests /\ Tail(stdin) \in Seq(0 .. MaxRequests)
           /\ \A n : stdin = <<n>> => Head(stdin) = n /\ Tail(stdin) = <<>>
<1>1. Head(stdin) \in 0 .. MaxRequests /\ Tail(stdin) \in Seq(0 .. MaxRequests)
  BY HeadTailProperties DEF TypeOK
<1>2. ASSUME NEW n, stdin = <<n>> PROVE Head(stdin) = n /\ Tail(stdin) = <<>>
  BY <1>2
<1> QED
  BY <1>1, <1>2

-----------------------------------------------------------------------------
(* The steps of the proxy.                                                   *)

LEMMA SendRpc == RpcInv /\ Send => RpcInv'
<1> SUFFICES ASSUME RpcInv, Send PROVE RpcInv'
  OBVIOUS
<1>1. /\ sent \in Nat /\ sent' = sent + 1 /\ sent' \in 0 .. MaxRequests
      /\ stdin = <<>> /\ Len(accepted) = sent /\ host = "idle"
  BY WorkerRpcAssumption DEF RpcInv, TypeOK, InFlight, Serving, Send
<1>2. Append(stdin, sent') \in Seq(0 .. MaxRequests) /\ Append(stdin, sent') = <<sent'>>
  BY <1>1, AppendRequest DEF RpcInv
<1>3. TypeOK'
  BY <1>1, <1>2 DEF RpcInv, TypeOK, Send, Raise, budget
<1>4. InFlight'
  <2>1. CASE Alive
    <3>1. OnItsWay'
      BY <1>1, <1>2, <2>1 DEF RpcInv, InFlight, Serving, OnItsWay, NoReply, OkLine, Send
    <3> QED
      BY <1>1, <2>1, <3>1 DEF RpcInv, InFlight, Serving, Send
  <2>2. CASE ~Alive
    BY <2>2 DEF InFlight, Serving, Send, Raise
  <2> QED
    BY <2>1, <2>2
<1>5. RepliesMatchRequests'
  BY DEF RpcInv, RepliesMatchRequests, Send, Raise
<1> QED
  BY <1>3, <1>4, <1>5 DEF RpcInv

LEMMA ReadReplyRpc == RpcInv /\ ReadReply => RpcInv'
<1> SUFFICES ASSUME RpcInv, ReadReply PROVE RpcInv'
  OBVIOUS
<1>1. /\ Len(stdout) \in Nat \ {0} /\ Len(stdout') = Len(stdout) - 1
      /\ stdout' \in Seq(Line) /\ Head(stdout) \in Line
      /\ Head(stdout) = stdout[1]
      /\ \A i \in 1 .. Len(stdout') : stdout'[i] = stdout[i + 1]
  BY TakeLine DEF RpcInv, ReadReply
<1>2. accepted \in Seq(Requests) /\ Len(accepted) \in Nat /\ sent \in 0 .. MaxRequests
  BY LenProperties DEF RpcInv, TypeOK
<1>3. CASE Head(stdout).kind # Expected
  <2>1. host' = "closing" /\ failed' = TRUE /\ UNCHANGED <<accepted, child, sent>>
    BY <1>3 DEF ReadReply, Raise
  <2> QED
    BY <1>1, <2>1 DEF RpcInv, TypeOK, InFlight, Serving, RepliesMatchRequests,
                      ReadReply, budget
<1>4. CASE Head(stdout).kind = Expected /\ host = "starting"
  <2>1. host' = "idle" /\ UNCHANGED <<accepted, failed, child, sent, stdin>>
    BY <1>4 DEF ReadReply, Returned
  <2>2. NoReply'
    BY <1>1, <1>4 DEF RpcInv, InFlight, Serving, NoReply, OkLine
  <2>3. InFlight'
    BY <1>4, <2>1, <2>2 DEF RpcInv, InFlight, Serving
  <2>4. RepliesMatchRequests'
    BY <1>4, <2>1 DEF RpcInv, InFlight, Serving, RepliesMatchRequests
  <2> QED
    BY <1>1, <2>1, <2>3, <2>4 DEF RpcInv, TypeOK, ReadReply, budget
<1>5. CASE Head(stdout).kind = Expected /\ host = "waiting"
  <2>1. /\ host' = "idle" /\ UNCHANGED <<failed, child, job, sent, stdin>>
        /\ accepted' = Append(accepted, stdout[1].of)
    BY <1>1, <1>5 DEF ReadReply, Returned
  <2>2. OkLine(1)
    BY <1>1, <1>5 DEF Expected, OkLine
  <2>3. Answered /\ Len(accepted) + 1 = sent /\ ~failed
    BY <1>1, <1>5, <2>2 DEF RpcInv, InFlight, Serving, OnItsWay, TakenUp, NoReply
  <2>4. stdout[1].of = sent /\ sent \in Requests
    BY <1>1, <1>2, <2>2, <2>3 DEF Answered, OkLine, Requests
  <2>5. /\ accepted' \in Seq(Requests) /\ Len(accepted') = Len(accepted) + 1
        /\ \A i \in 1 .. Len(accepted) : accepted'[i] = accepted[i]
        /\ accepted'[Len(accepted) + 1] = sent
    BY <1>2, <2>1, <2>4, AppendProperties
  <2>6. NoReply'
    <3>1. ASSUME NEW i \in 1 .. Len(stdout'), OkLine(i)' PROVE FALSE
      <4>1. i + 1 \in 1 .. Len(stdout) /\ OkLine(i + 1) /\ i + 1 # 1
        BY <1>1, <3>1 DEF OkLine
      <4> QED
        BY <1>1, <2>2, <2>3, <4>1 DEF Answered
    <3> QED
      BY <3>1 DEF NoReply
  <2>7. InFlight'
    BY <2>1, <2>3, <2>5, <2>6 DEF InFlight, Serving, Answered
  <2>8. RepliesMatchRequests'
    BY <1>2, <2>1, <2>3, <2>5 DEF RpcInv, RepliesMatchRequests
  <2> QED
    BY <1>1, <2>1, <2>5, <2>7, <2>8 DEF RpcInv, TypeOK, ReadReply, budget
<1> QED
  BY <1>3, <1>4, <1>5 DEF ReadReply

(* The steps after which the proxy reads no more replies.                    *)
LEMMA EndOfCallsRpc ==
    RpcInv /\ (ReadEndOfFile \/ FinishRun \/ Close \/ ChildEnded \/ CloseTimesOut \/ HostKilled)
        => RpcInv'
<1> SUFFICES ASSUME RpcInv,
                    ReadEndOfFile \/ FinishRun \/ Close \/ ChildEnded \/ CloseTimesOut \/ HostKilled
             PROVE  RpcInv'
  OBVIOUS
<1>1. CASE ReadEndOfFile
  BY <1>1 DEF RpcInv, TypeOK, InFlight, Serving, RepliesMatchRequests,
              ReadEndOfFile, Raise, pipes, budget
<1>2. CASE FinishRun
  BY <1>2 DEF RpcInv, TypeOK, InFlight, Serving, RepliesMatchRequests,
              FinishRun, pipes, budget
<1>3. CASE Close
  <2>1. CloseRequest \in 0 .. MaxRequests
    BY WorkerRpcAssumption DEF CloseRequest
  <2>2. Append(stdin, CloseRequest) \in Seq(0 .. MaxRequests)
    BY <2>1, AppendRequest DEF RpcInv
  <2> QED
    BY <1>3, <2>2 DEF RpcInv, TypeOK, InFlight, Serving, RepliesMatchRequests,
                      Close, Alive, budget
<1>4. CASE ChildEnded
  BY <1>4 DEF RpcInv, TypeOK, InFlight, Serving, RepliesMatchRequests,
              ChildEnded, Alive, pipes, budget
<1>5. CASE CloseTimesOut
  BY <1>5 DEF RpcInv, TypeOK, InFlight, Serving, RepliesMatchRequests,
              CloseTimesOut, KillChild, pipes, budget
<1>6. CASE HostKilled
  BY <1>6 DEF RpcInv, TypeOK, InFlight, Serving, RepliesMatchRequests,
              HostKilled, pipes, budget
<1> QED
  BY <1>1, <1>2, <1>3, <1>4, <1>5, <1>6

-----------------------------------------------------------------------------
(* The steps of the worker.                                                  *)

LEMMA LoadRpc == RpcInv /\ (LoadAgent \/ LoadFails) => RpcInv'
<1> SUFFICES ASSUME RpcInv, NEW kind \in {"ready", "error"}, NEW next \in {"reading", "dead"},
                    child = "loading", Reply(kind, 0, next),
                    UNCHANGED <<host, job, stdin, logged, sent, accepted, failed, prints, logs>>,
                    faults' = faults \/ (faults < MaxFaults /\ faults' = faults + 1)
             PROVE  RpcInv'
  BY DEF LoadAgent, LoadFails, budget
<1> DEFINE line == [kind |-> kind, of |-> 0]
<1>1. line \in Line
  BY WorkerRpcAssumption DEF Line
<1>2. faults' \in 0 .. MaxFaults /\ child' \in {"reading", "dead"}
  BY WorkerRpcAssumption DEF RpcInv, TypeOK, Reply
<1>3. (host = "killed" /\ child' = "dead" /\ stdout' = stdout)
        \/ (host # "killed" /\ stdout' = Append(stdout, line))
  BY DEF Reply
<1>4. stdout' \in Seq(Line)
  BY <1>1, <1>3, AppendLine DEF RpcInv, TypeOK
<1>5. InFlight'
  <2>1. CASE stdout' = stdout
    BY <1>2, <2>1, QuietKeepsFlight
  <2>2. CASE stdout' = Append(stdout, line)
    <3>1. line.kind # "ok"
      OBVIOUS
    <3> QED
      BY <1>1, <1>2, <2>2, <3>1, OtherLineKeepsFlight
  <2> QED
    BY <1>3, <2>1, <2>2
<1> QED
  BY <1>2, <1>4, <1>5 DEF RpcInv, TypeOK, RepliesMatchRequests

LEMMA TakeRequestRpc == RpcInv /\ TakeRequest => RpcInv'
<1> SUFFICES ASSUME RpcInv, TakeRequest PROVE RpcInv'
  OBVIOUS
<1>1. /\ Head(stdin) \in 0 .. MaxRequests /\ Tail(stdin) \in Seq(0 .. MaxRequests)
      /\ \A n : stdin = <<n>> => Head(stdin) = n /\ Tail(stdin) = <<>>
  BY TakeOne DEF RpcInv, TakeRequest
<1>2. TypeOK'
  BY <1>1 DEF RpcInv, TypeOK, TakeRequest, budget
<1>3. InFlight'
  <2>1. CASE Serving
    <3>1. host = "waiting" /\ OnItsWay
      BY <2>1 DEF RpcInv, InFlight, Serving, TakenUp, Answered, TakeRequest
    <3>2. TakenUp'
      BY <1>1, <3>1 DEF OnItsWay, TakenUp, NoReply, OkLine, TakeRequest
    <3> QED
      BY <3>1, <3>2 DEF RpcInv, InFlight, Serving, TakeRequest
  <2>2. CASE ~Serving
    BY <2>2 DEF InFlight, Serving, TakeRequest
  <2> QED
    BY <2>1, <2>2
<1>4. RepliesMatchRequests'
  BY DEF RpcInv, RepliesMatchRequests, TakeRequest
<1> QED
  BY <1>2, <1>3, <1>4 DEF RpcInv

(* The worker is asked to close only by a proxy that reads no more replies.  *)
LEMMA TakeCloseRpc == RpcInv /\ TakeClose => RpcInv'
<1> SUFFICES ASSUME RpcInv, TakeClose PROVE RpcInv'
  OBVIOUS
<1> DEFINE line == [kind |-> "ok", of |-> 0]
<1>1. /\ Head(stdin) \in 0 .. MaxRequests /\ Tail(stdin) \in Seq(0 .. MaxRequests)
      /\ \A n : stdin = <<n>> => Head(stdin) = n /\ Tail(stdin) = <<>>
  BY TakeOne DEF RpcInv, TakeClose
<1>2. line \in Line
  BY WorkerRpcAssumption DEF Line
<1>3. stdout' \in Seq(Line) /\ child' = "dead"
  BY <1>2, AppendLine DEF RpcInv, TypeOK, TakeClose, Reply
<1>4. ~Serving
  <2>1. SUFFICES ASSUME Serving PROVE FALSE
    OBVIOUS
  <2>2. host = "waiting" /\ stdin = <<sent>> /\ Len(accepted) + 1 = sent
    BY <2>1 DEF RpcInv, InFlight, Serving, OnItsWay, TakenUp, Answered, TakeClose
  <2>3. Len(accepted) \in Nat
    BY LenProperties DEF RpcInv, TypeOK
  <2> QED
    BY <1>1, <2>2, <2>3 DEF TakeClose, CloseRequest
<1>5. InFlight' /\ RepliesMatchRequests'
  BY <1>3, <1>4 DEF RpcInv, InFlight, Serving, RepliesMatchRequests, TakeClose
<1> QED
  BY <1>1, <1>3, <1>5 DEF RpcInv, TypeOK, TakeClose, budget

LEMMA CallReturnsRpc == RpcInv /\ CallReturns => RpcInv'
<1> SUFFICES ASSUME RpcInv, CallReturns PROVE RpcInv'
  OBVIOUS
<1> DEFINE line == [kind |-> "ok", of |-> job]
<1>1. line \in Line
  BY DEF RpcInv, TypeOK, Line
<1>2. stdout' = Append(stdout, line) \/ (host = "killed" /\ stdout' = stdout)
  BY DEF CallReturns, Reply
<1>3. stdout' \in Seq(Line) /\ child' \in {"reading", "dead"}
  BY <1>1, <1>2, AppendLine DEF RpcInv, TypeOK, CallReturns, Reply
<1>4. InFlight'
  <2>1. CASE Serving
    <3>1. host = "waiting" /\ TakenUp /\ stdout' = Append(stdout, line)
      BY <1>2, <2>1 DEF RpcInv, InFlight, Serving, OnItsWay, Answered, CallReturns
    <3>2. /\ \A i \in 1 .. Len(stdout) : stdout'[i] = stdout[i]
          /\ Len(stdout) \in Nat
          /\ Len(stdout') = Len(stdout) + 1 /\ stdout'[Len(stdout) + 1] = line
      BY <1>1, <3>1, AppendLine DEF RpcInv
    <3>3. ASSUME NEW i \in 1 .. Len(stdout'), OkLine(i)' PROVE i = Len(stdout) + 1
      BY <3>1, <3>2, <3>3 DEF TakenUp, NoReply, OkLine
    <3>4. Answered'
      <4>1. stdin' = <<>> /\ child' # "handling" /\ sent' = sent /\ job = sent
        BY <1>3, <3>1 DEF TakenUp, CallReturns
      <4> QED
        BY <3>2, <3>3, <4>1 DEF Answered
    <3> QED
      BY <3>1, <3>4 DEF RpcInv, InFlight, Serving, CallReturns
  <2>2. CASE ~Serving
    BY <2>2 DEF InFlight, Serving, CallReturns
  <2> QED
    BY <2>1, <2>2
<1>5. RepliesMatchRequests'
  BY DEF RpcInv, RepliesMatchRequests, CallReturns
<1> QED
  BY <1>3, <1>4, <1>5 DEF RpcInv, TypeOK, CallReturns, budget

LEMMA CallRaisesRpc == RpcInv /\ CallRaises => RpcInv'
<1> SUFFICES ASSUME RpcInv, CallRaises PROVE RpcInv'
  OBVIOUS
<1> DEFINE line == [kind |-> "error", of |-> job]
<1>1. line \in Line /\ line.kind # "ok"
  BY DEF RpcInv, TypeOK, Line
<1>2. stdout' = Append(stdout, line) \/ stdout' = stdout
  BY DEF CallRaises, ReplyError, Reply
<1>3. child' \in {"reading", "dead"} /\ faults' \in 0 .. MaxFaults
  BY WorkerRpcAssumption DEF RpcInv, TypeOK, CallRaises, ReplyError, Reply
<1>4. stdout' \in Seq(Line)
  BY <1>1, <1>2, AppendLine DEF RpcInv, TypeOK
<1>5. InFlight'
  BY <1>1, <1>2, <1>3, QuietKeepsFlight, OtherLineKeepsFlight DEF CallRaises
<1>6. RepliesMatchRequests'
  BY DEF RpcInv, RepliesMatchRequests, CallRaises
<1> QED
  BY <1>3, <1>4, <1>5, <1>6 DEF RpcInv, TypeOK, CallRaises

LEMMA StrayLineRpc == RpcInv /\ StrayLine => RpcInv'
<1> SUFFICES ASSUME RpcInv, StrayLine PROVE RpcInv'
  OBVIOUS
<1> DEFINE line == [kind |-> "stray", of |-> 0]
<1>1. line \in Line /\ line.kind # "ok" /\ stdout' = Append(stdout, line)
  BY WorkerRpcAssumption DEF Line, StrayLine
<1>2. stdout' \in Seq(Line) /\ prints' \in 0 .. MaxPrints
  BY <1>1, AppendLine, WorkerRpcAssumption DEF RpcInv, TypeOK, StrayLine
<1>3. InFlight'
  BY <1>1, OtherLineKeepsFlight DEF StrayLine
<1>4. RepliesMatchRequests'
  BY DEF RpcInv, RepliesMatchRequests, StrayLine
<1> QED
  BY <1>2, <1>3, <1>4 DEF RpcInv, TypeOK, StrayLine

(* The steps at which the worker ends or gets stuck without a line.          *)
LEMMA SilentRpc == RpcInv /\ (InputEnds \/ CallExits \/ Unblocked \/ SignalDelivered \/ Log) => RpcInv'
<1> SUFFICES ASSUME RpcInv, InputEnds \/ CallExits \/ Unblocked \/ SignalDelivered \/ Log
             PROVE  RpcInv'
  OBVIOUS
<1>1. /\ UNCHANGED <<host, job, stdin, stdout, sent, accepted, failed>>
      /\ child' = "handling" => child = "handling"
  BY DEF InputEnds, EndLoop, CallExits, Unblocked, SignalDelivered, Log, pipes
<1>2. InFlight'
  BY <1>1, QuietKeepsFlight
<1>3. RepliesMatchRequests'
  BY <1>1 DEF RpcInv, RepliesMatchRequests
<1>4. /\ child' \in {child, "stuck", "dead"} /\ logged' \in 0 .. StderrCapacity
      /\ prints' \in 0 .. MaxPrints /\ logs' \in 0 .. MaxLogs /\ faults' \in 0 .. MaxFaults
  <2>1. CASE InputEnds \/ Unblocked \/ SignalDelivered
    BY <2>1 DEF RpcInv, TypeOK, InputEnds, EndLoop, Unblocked, SignalDelivered, pipes, budget
  <2>2. CASE CallExits
    BY <2>2, WorkerRpcAssumption DEF RpcInv, TypeOK, CallExits, pipes
  <2>3. CASE Log
    BY <2>3, WorkerRpcAssumption DEF RpcInv, TypeOK, Log
  <2> QED
    BY <2>1, <2>2, <2>3
<1> QED
  BY <1>1, <1>2, <1>3, <1>4 DEF RpcInv, TypeOK

-----------------------------------------------------------------------------
LEMMA NextRpc == RpcInv /\ [Next]_vars => RpcInv'
<1> SUFFICES ASSUME RpcInv, [Next]_vars PROVE RpcInv'
  OBVIOUS
<1>1. CASE HostStep
  BY <1>1, SendRpc, ReadReplyRpc, EndOfCallsRpc DEF HostStep
<1>2. CASE ChildStep
  BY <1>2, LoadRpc, TakeRequestRpc, TakeCloseRpc, CallReturnsRpc, CallRaisesRpc, SilentRpc
     DEF ChildStep
<1>3. CASE StrayLine \/ Log \/ HostKilled
  BY <1>3, StrayLineRpc, SilentRpc, EndOfCallsRpc
<1>4. CASE UNCHANGED vars
  <2>1. InFlight'
    BY <1>4, QuietKeepsFlight DEF vars
  <2> QED
    BY <1>4, <2>1 DEF RpcInv, TypeOK, RepliesMatchRequests, vars
<1> QED
  BY <1>1, <1>2, <1>3, <1>4 DEF Next

LEMMA RpcInvariant == Spec => []RpcInv
BY InitRpc, NextRpc, PTL DEF Spec

(* Every line in a pipe is a request of the run or a reply to one, and no    *)
(* counter leaves its bounds.                                                *)
THEOREM Typed == Spec => []TypeOK
<1>1. RpcInv => TypeOK
  BY DEF RpcInv
<1> QED
  BY <1>1, RpcInvariant, PTL

(* However many requests a run makes and whatever else the worker prints,    *)
(* a reply that the proxy of lib/adapters/worker.py returns is the reply to  *)
(* the very request, in spite of requests and replies that carry no number.  *)
THEOREM EveryReplyIsItsOwn == Spec => []RepliesMatchRequests
<1>1. RpcInv => RepliesMatchRequests
  BY DEF RpcInv
<1> QED
  BY <1>1, RpcInvariant, PTL
=============================================================================
