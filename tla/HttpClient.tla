----------------------------- MODULE HttpClient -----------------------------
(***************************************************************************)
(* BenchmarkClientHttpImpl (engine/source/client/benchmark_client_impl.cc) *)
(* with the StreamDecoder that follows each request (stream_decoder.cc),   *)
(* from the worker's warmup to terminate(). The connection pool and the    *)
(* server are the environment: a request may be queued, sent at once or    *)
(* turned away, and answered, reset or left alone. The sequencer is        *)
(* reduced to when it starts requests and when it stops.                   *)
(***************************************************************************)
EXTENDS Integers, FiniteSets, FiniteSetsExt

CONSTANTS
    Requests,     \* bound: the requests of a run
    Codes,        \* response codes
    GrpcStatuses, \* values of grpc-status, "ok" among them
    Reasons,      \* reasons of a stream reset
    MaxInFlight,  \* max_pending_requests_ + max_active_requests or connection_limit_
    ClosedLoop,   \* provide_resource_backpressure_
    Grpc,         \* grpc_
    SimpleWarmup, \* --simple-warmup
    Waits,        \* timeout_ > 0
    PluginFails   \* a user defined output plugin is there, and fails

VARIABLES
    phase,        \* where ClientWorkerImpl::work() and shutdownThread() are
    req,          \* the decoder of each request
    initiated, completed, outstanding, \* requests_*_
    count,        \* the counters of the client
    stat,         \* how many values each statistic has
    abandon,      \* abandon_outstanding_
    timedOut,     \* finish_timed_out_
    cancelled,    \* a cancellation has been posted and run
    exiting       \* dispatcher exit() called, run() not returned

vars == <<phase, req, initiated, completed, outstanding, count, stat, abandon, timedOut,
          cancelled, exiting>>

StreamResetReasons ==
    {"local_reset", "local_refused_stream_reset", "remote_reset", "remote_refused_stream_reset",
     "local_connection_failure", "remote_connection_failure", "connection_timeout",
     "connection_termination", "overflow", "connect_error", "protocol_error",
     "overload_manager", "http1_premature_upstream_half_close", "remote_reset_no_error"}

NoStatus == "missing"
PoolFailures == {"overflow", "local_connection_failure", "remote_connection_failure", "timeout"}
Classes == {"1xx", "2xx", "3xx", "4xx", "5xx", "xxx"}
Dispatching == {"warmup", "running", "finishing", "terminating"}

ClassOf(code) ==
    CASE code \in 100 .. 199 -> "1xx"
      [] code \in 200 .. 299 -> "2xx"
      [] code \in 300 .. 399 -> "3xx"
      [] code \in 400 .. 499 -> "4xx"
      [] code \in 500 .. 599 -> "5xx"
      [] OTHER -> "xxx"

\* exportLatency has the same ladder again.
LatencyClass(code) == ClassOf(code)

Total(f) == MapThenSumSet(LAMBDA k : f[k], DOMAIN f)
New == [at |-> "new", measured |-> FALSE, code |-> 0, grpc |-> NoStatus]
Done == [New EXCEPT !.at = "done"]
At(S) == {r \in Requests : req[r].at \in S}

TypeOK ==
    /\ Reasons \subseteq StreamResetReasons
    /\ phase \in Dispatching \cup {"start", "finished", "terminated"}
    /\ req \in [Requests -> [at : {"new", "queued", "sent", "headers", "done"},
                             measured : BOOLEAN, code : Codes \cup {0},
                             grpc : GrpcStatuses \cup {NoStatus}]]
    /\ initiated \in Nat /\ completed \in Nat
    /\ outstanding = Cardinality(At({"queued", "sent", "headers"}))
    /\ {abandon, timedOut, cancelled, exiting} \subseteq BOOLEAN

Init ==
    /\ phase = "start"
    /\ req = [r \in Requests |-> New]
    /\ initiated = 0 /\ completed = 0 /\ outstanding = 0
    /\ count = [http |-> [c \in Classes |-> 0], resets |-> 0, beforeHeaders |-> 0,
                incompleteBody |-> 0, reason |-> [x \in Reasons |-> 0],
                pool |-> [f \in PoolFailures |-> 0], connectionFailure |-> 0,
                grpc |-> [s \in GrpcStatuses \cup {NoStatus} |-> 0], grpcError |-> 0,
                lost |-> 0, headersFailure |-> 0, dataFailure |-> 0]
    /\ stat = [connect |-> 0, response |-> 0, headerSize |-> 0, bodySize |-> 0, grpcOk |-> 0,
               class |-> [c \in Classes |-> 0]]
    /\ abandon = FALSE /\ timedOut = FALSE /\ cancelled = FALSE /\ exiting = FALSE

(***************************************************************************)
(* What the decoder's callbacks do to the client                           *)
(***************************************************************************)
\* The end of a request, and of the run() that waits for it: the warmup's own callback, or the
\* last of those that finish() waits for.
OnRequestDone ==
    /\ outstanding' = outstanding - 1
    /\ exiting' = (exiting \/ phase = "warmup" \/ (phase = "finishing" /\ outstanding' = 0))

TrackGrpcStatus(c, status) ==
    [c EXCEPT !.grpc[status] = @ + 1, !.grpcError = @ + (IF status = "ok" THEN 0 ELSE 1)]

IfGrpc(c, status) == IF Grpc THEN TrackGrpcStatus(c, status) ELSE c

CountResponse(c, code, status) ==
    IF ClassOf(code) = "2xx" /\ Grpc /\ status # "ok"
    THEN IfGrpc(c, status)
    ELSE [IfGrpc(c, status) EXCEPT !.http[ClassOf(code)] = @ + 1]

PluginHeaders(c) == [c EXCEPT !.headersFailure = @ + (IF PluginFails THEN 1 ELSE 0)]
PluginData(c) == [c EXCEPT !.dataFailure = @ + (IF PluginFails THEN 1 ELSE 0)]

ExportLatency(s, code, status) ==
    [s EXCEPT !.class[LatencyClass(code)] = @ + 1,
              !.grpcOk = @ + (IF Grpc /\ status = "ok" THEN 1 ELSE 0)]

\* onComplete(true) for a response with this code and status.
CompleteWith(r, code, status, s, c) ==
    /\ completed' = completed + 1
    /\ OnRequestDone
    /\ count' = PluginHeaders(CountResponse(c, code, status))
    /\ stat' = [(IF req[r].measured
                 THEN ExportLatency([s EXCEPT !.response = @ + 1], code, status)
                 ELSE s) EXCEPT !.bodySize = @ + 1]
    /\ req' = [req EXCEPT ![r] = Done]

CountPoolFailure(c, failure) ==
    [c EXCEPT !.pool[failure] = @ + 1,
              !.connectionFailure = @ + (IF failure \in {"overflow", "timeout"} THEN 0 ELSE 1)]

ConnectValue(s, measured) == IF measured THEN [s EXCEPT !.connect = @ + 1] ELSE s

(***************************************************************************)
(* Starting requests                                                       *)
(***************************************************************************)
\* newStream() on the pool: the request waits for a connection, gets one, or is refused.
NewStream(r, measured) ==
    /\ req[r].at = "new"
    /\ initiated' = initiated + 1
    /\ UNCHANGED <<completed, abandon, timedOut, cancelled>>
    /\ \/ /\ req' = [req EXCEPT ![r] = [New EXCEPT !.at = "queued", !.measured = measured]]
          /\ outstanding' = outstanding + 1
          /\ UNCHANGED <<count, stat, exiting>>
       \/ /\ req' = [req EXCEPT ![r] = [New EXCEPT !.at = "sent", !.measured = measured]]
          /\ outstanding' = outstanding + 1
          /\ stat' = ConnectValue(stat, measured)
          /\ UNCHANGED <<count, exiting>>
       \/ /\ req' = [req EXCEPT ![r] = Done]
          /\ count' = CountPoolFailure(count, "overflow")
          /\ exiting' = (exiting \/ phase = "start")
          /\ UNCHANGED <<outstanding, stat>>

HasCapacity == ~ClosedLoop \/ initiated - completed < MaxInFlight

\* simpleWarmup(): one request, not measured, waited for without a limit.
Warmup(r) ==
    /\ phase = "start" /\ SimpleWarmup
    /\ phase' = "warmup"
    /\ NewStream(r, FALSE)

\* The warmup returns, or could not be started, or is not asked for.
WarmupDone ==
    /\ \/ phase = "start"
       \/ phase = "warmup" /\ exiting
    /\ phase' = "running" /\ exiting' = FALSE
    /\ UNCHANGED <<req, initiated, completed, outstanding, count, stat, abandon, timedOut, cancelled>>

TryStartRequest(r) ==
    /\ phase = "running" /\ HasCapacity
    /\ NewStream(r, TRUE)
    /\ UNCHANGED phase

(***************************************************************************)
(* StreamDecoder                                                           *)
(***************************************************************************)
OnPoolReady(r) ==
    /\ phase \in Dispatching /\ req[r].at = "queued"
    /\ req' = [req EXCEPT ![r].at = "sent"]
    /\ stat' = ConnectValue(stat, req[r].measured)
    /\ UNCHANGED <<phase, initiated, completed, outstanding, count, abandon, timedOut, cancelled, exiting>>

PoolFailureDone == OnRequestDone

OnPoolFailure(r, failure) ==
    /\ phase \in Dispatching /\ req[r].at = "queued"
    /\ count' = CountPoolFailure(count, failure)
    /\ PoolFailureDone
    /\ req' = [req EXCEPT ![r] = Done]
    /\ UNCHANGED <<phase, initiated, completed, stat, abandon, timedOut, cancelled>>

DecodeHeaders(r, code, status, end) ==
    /\ phase \in Dispatching /\ req[r].at = "sent"
    /\ LET s == [stat EXCEPT !.headerSize = @ + 1]
       IN  IF end THEN CompleteWith(r, code, status, s, count)
           ELSE /\ req' = [req EXCEPT ![r].at = "headers", ![r].code = code, ![r].grpc = status]
                /\ stat' = s
                /\ UNCHANGED <<completed, outstanding, count, exiting>>
    /\ UNCHANGED <<phase, initiated, abandon, timedOut, cancelled>>

\* The chunk that ends a response; the ones before it only reach the plugin.
DecodeData(r) ==
    /\ phase \in Dispatching /\ req[r].at = "headers"
    /\ CompleteWith(r, req[r].code, req[r].grpc, stat, PluginData(count))
    /\ UNCHANGED <<phase, initiated, abandon, timedOut, cancelled>>

TrailersStatus(headers, trailers) == IF trailers = NoStatus THEN headers ELSE trailers

DecodeTrailers(r, status) ==
    /\ phase \in Dispatching /\ req[r].at = "headers"
    /\ CompleteWith(r, req[r].code, TrailersStatus(req[r].grpc, status), stat, count)
    /\ UNCHANGED <<phase, initiated, abandon, timedOut, cancelled>>

CountReset(c, at, reason) ==
    [c EXCEPT !.reason[reason] = @ + 1, !.resets = @ + 1,
              !.beforeHeaders = @ + (IF at = "sent" THEN 1 ELSE 0),
              !.incompleteBody = @ + (IF at = "headers" THEN 1 ELSE 0)]

OnResetStream(r, reason) ==
    /\ phase \in Dispatching /\ req[r].at \in {"sent", "headers"}
    /\ completed' = completed + 1
    /\ OnRequestDone
    /\ count' = PluginHeaders(IfGrpc(CountReset(count, req[r].at, reason), req[r].grpc))
    /\ stat' = [stat EXCEPT !.bodySize = @ + 1]
    /\ req' = [req EXCEPT ![r] = Done]
    /\ UNCHANGED <<phase, initiated, abandon, timedOut, cancelled>>

CountLost(c, n) == [c EXCEPT !.lost = @ + n]

\* The sequencer stops, by a failure predicate or otherwise, and perhaps with the dispatcher's
\* exit still to come; then finish() begins.
PhaseEnds(failed, stale) ==
    /\ phase = "running"
    /\ abandon' = (abandon \/ failed)
    /\ exiting' = stale
    /\ IF outstanding > 0 /\ ~abandon' /\ Waits
       THEN phase' = "finishing" /\ UNCHANGED count
       ELSE phase' = "finished" /\ count' = CountLost(count, outstanding)
    /\ UNCHANGED <<req, initiated, completed, outstanding, stat, timedOut, cancelled>>

KeepsWaiting == outstanding > 0 /\ ~timedOut /\ ~abandon

\* run() returns to the loop in finish().
RunReturns ==
    /\ phase = "finishing" /\ exiting
    /\ exiting' = FALSE
    /\ IF KeepsWaiting
       THEN UNCHANGED <<phase, count>>
       ELSE phase' = "finished" /\ count' = CountLost(count, outstanding)
    /\ UNCHANGED <<req, initiated, completed, outstanding, stat, abandon, timedOut, cancelled>>

TimerFires == timedOut' = TRUE /\ exiting' = TRUE
FinishTimer ==
    /\ phase = "finishing" /\ ~timedOut
    /\ TimerFires
    /\ UNCHANGED <<phase, req, initiated, completed, outstanding, count, stat, abandon, cancelled>>

\* requestExecutionCancellation(), as it runs on the worker's dispatcher.
AbandonExit == exiting \/ phase = "finishing"
Cancel ==
    /\ phase \in Dispatching /\ ~cancelled
    /\ cancelled' = TRUE /\ abandon' = TRUE
    /\ exiting' = AbandonExit
    /\ UNCHANGED <<phase, req, initiated, completed, outstanding, count, stat, timedOut>>

\* terminate(): the pool is drained if it has connections, one that is in use for certain.
Terminate ==
    /\ phase = "finished"
    /\ \/ phase' = "terminating"
       \/ At({"sent", "headers"}) = {} /\ phase' = "terminated"
    /\ UNCHANGED <<req, initiated, completed, outstanding, count, stat, abandon, timedOut, cancelled, exiting>>

\* The pool is idle, or the drain timer fires.
PoolDrained ==
    /\ phase = "terminating" /\ ~exiting
    /\ exiting' = TRUE
    /\ UNCHANGED <<phase, req, initiated, completed, outstanding, count, stat, abandon, timedOut, cancelled>>

TerminateReturns ==
    /\ phase = "terminating" /\ exiting
    /\ phase' = "terminated" /\ exiting' = FALSE
    /\ UNCHANGED <<req, initiated, completed, outstanding, count, stat, abandon, timedOut, cancelled>>

Next ==
    \/ \E r \in Requests : Warmup(r)
    \/ WarmupDone
    \/ \E r \in Requests : TryStartRequest(r)
    \/ \E r \in Requests : OnPoolReady(r)
    \/ \E r \in Requests, f \in PoolFailures \ {"overflow"} : OnPoolFailure(r, f)
    \/ \E r \in Requests, code \in Codes, s \in GrpcStatuses \cup {NoStatus}, end \in BOOLEAN :
           DecodeHeaders(r, code, s, end)
    \/ \E r \in Requests : DecodeData(r)
    \/ \E r \in Requests, s \in GrpcStatuses \cup {NoStatus} : DecodeTrailers(r, s)
    \/ \E r \in Requests, x \in Reasons : OnResetStream(r, x)
    \/ \E failed, stale \in BOOLEAN : PhaseEnds(failed, stale)
    \/ RunReturns
    \/ FinishTimer
    \/ Cancel
    \/ Terminate
    \/ PoolDrained
    \/ TerminateReturns

Spec == Init /\ [][Next]_vars

\* The worker's thread runs what is ready, timers included; nothing is assumed of the server.
FairSpec ==
    /\ Spec
    /\ WF_vars(WarmupDone) /\ WF_vars(\E failed, stale \in BOOLEAN : PhaseEnds(failed, stale))
    /\ WF_vars(RunReturns) /\ WF_vars(FinishTimer)
    /\ WF_vars(Terminate) /\ WF_vars(PoolDrained) /\ WF_vars(TerminateReturns)

(***************************************************************************)
(* Properties                                                              *)
(***************************************************************************)
Responses == Total(count.http)
Failures == Total(count.pool)


\* A request is lost only after the whole wait, or when the run was cancelled or failed: an exit
\* left over from the sequencer does not end finish() early.
LostOnlyAfterWait ==
    phase = "finished" /\ count.lost > 0 => timedOut \/ abandon \/ ~Waits

\* finish() does not sit in run() with nothing to wait for.
NoIdleWait == phase = "finishing" /\ (outstanding = 0 \/ timedOut \/ abandon) => exiting

\* The phase counters sum to stream_resets, and so do the reason counters; pool failures split
\* the same way, with the overflow and the timeout outside pool_connection_failure.
ResetsAddUp ==
    /\ count.resets = count.beforeHeaders + count.incompleteBody
    /\ count.resets = Total(count.reason)
    /\ count.connectionFailure = Failures - count.pool["overflow"] - count.pool["timeout"]

\* With no warmup every response is timed, once and in the class it is counted in, and every
\* request that got a connection has its time to connect.
EveryResponseTimed ==
    /\ stat.response = Total(stat.class)
    /\ ~SimpleWarmup => /\ stat.connect = stat.response + count.resets + Cardinality(At({"sent", "headers"}))
                        /\ stat.response = completed - count.resets
                        /\ ~Grpc => stat.class = count.http

\* grpc-status decides: what has another status or none is an error and no 2xx, and a 2xx is in
\* latency_grpc_ok, unless it was the warmup.
GrpcScored ==
    Grpc =>
        /\ count.grpcError = completed - count.grpc["ok"]
        /\ count.http["2xx"] <= stat.grpcOk + (IF SimpleWarmup THEN 1 ELSE 0)
        /\ stat.grpcOk <= count.grpc["ok"]

\* In closed loop no more than MaxInFlight requests are outstanding, and each pool failure takes
\* one of these places for the rest of the run: requests_completed_ does not see it.
ClosedLoopBound == ClosedLoop => outstanding + Failures <= MaxInFlight
=============================================================================
