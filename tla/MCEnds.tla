------------------------------- MODULE MCEnds -------------------------------
(***************************************************************************)
(* What comes to an end, for TLC, side by side: the components whose steps *)
(* wait for something, each under the fairness its own module states. They *)
(* share no state: a behaviour is one of a single part, which is chosen at *)
(* the start; the others stay as they are at first, and only the part that *)
(* moves is treated fairly.                                                *)
(***************************************************************************)
EXTENDS EncapTunnel

CONSTANT None  \* no value

VARIABLES
    part,
    processMain, processCancelled, workersRunning, worker, processSignalled, stopAsked,
    cancelPosts, snapshotPosts, taken, waiting, outstanding, flush, flushSignalled, exitAsked,
    signalMain, thread, arrival, installed, delegate, destructing, readEnd, writeEnd, sized,
    bytes, calls, fate,
    phase, exiting, expectEcho, link, retry, nextSlot, pendingOpens, attempts, opened,
    initials, reconnects, rotated, sent, received, lost,
    httpPhase, req, initiated, completed, httpOutstanding, count, stat, abandon, timedOut,
    httpCancelled, httpExiting,
    now, strategy, state, periodic, spin, limiter, sequencerInitiated, sequencerCompleted,
    good, bad, cancelAt, blockedStart, blockedTime, failed, stoppedAfter,
    sourcePhase, open, messages, inflight, sourceReceived, asks, quantities, owed, wire,
    written, sourceTaken,
    clock, chain, instances, stopwatch, first, serverReq,
    pc, cause, caller, gotten, executeCancelled, executeResult, toService, toClient, service,
    outcome, executeLink, inTime

processVars ==
    <<processMain, processCancelled, workersRunning, worker, processSignalled, stopAsked,
      cancelPosts, snapshotPosts, taken, waiting, outstanding, flush, flushSignalled,
      exitAsked>>
signalVars ==
    <<signalMain, thread, arrival, installed, delegate, destructing, readEnd, writeEnd, sized,
      bytes, calls, fate>>
tcpVars ==
    <<phase, exiting, expectEcho, link, retry, nextSlot, pendingOpens, attempts, opened,
      initials, reconnects, rotated, sent, received, lost>>
httpVars ==
    <<httpPhase, req, initiated, completed, httpOutstanding, count, stat, abandon, timedOut,
      httpCancelled, httpExiting>>
sequencerVars ==
    <<now, strategy, state, periodic, spin, limiter, sequencerInitiated, sequencerCompleted,
      good, bad, cancelAt, blockedStart, blockedTime, failed, stoppedAfter>>
sourceVars ==
    <<sourcePhase, open, messages, inflight, sourceReceived, asks, quantities, owed, wire,
      written, sourceTaken>>
serverVars == <<clock, chain, instances, stopwatch, first, serverReq>>
executeVars ==
    <<pc, cause, caller, gotten, executeCancelled, executeResult, toService, toClient, service,
      outcome, executeLink, inTime>>

StartupConfig ==
    [delay |-> [kind |-> "linear", minimal |-> 0, factor |-> 500], echo |-> FALSE, emit |-> TRUE]
RequestShape == [config |-> "absent", body |-> "data", delay |-> None, echo |-> FALSE, emit |-> FALSE]

\* Without stats sinks, whose flush worker may hold a run up.
Process == INSTANCE ProcessLifecycle
    WITH Workers <- 1 .. 2, StatsSinks <- FALSE, MaxSnapshots <- 2, main <- processMain,
         cancelled <- processCancelled, signalled <- processSignalled
Signal == INSTANCE SignalHandler WITH Arrivals <- 1 .. 2, main <- signalMain
Tcp == INSTANCE TcpClient
    WITH Connections <- 2, MaxInflight <- 1, RotateAfter <- 1, MaxOpens <- 2, MaxSends <- 1
Http == INSTANCE HttpClient
    WITH Requests <- 1 .. 2, Codes <- {200}, GrpcStatuses <- {"ok"},
         Reasons <- {"remote_reset"}, MaxInFlight <- 2, ClosedLoop <- FALSE, Grpc <- FALSE,
         SimpleWarmup <- FALSE, Waits <- TRUE, PluginFails <- FALSE, phase <- httpPhase,
         outstanding <- httpOutstanding, cancelled <- httpCancelled, exiting <- httpExiting
Sequencer == INSTANCE Sequencer
    WITH Ramping <- FALSE, Interval <- 2, RampTime <- 1, StartAt <- 1, BurstSize <- 0,
         Jitter <- 0, MaxTime <- 7, Strategies <- {"SPIN", "POLL", "SLEEP", "WAIT"},
         MaxIdleWait <- 2, SleepTime <- 2, Capacity <- 1, Duration <- 3, FailLimit <- 0,
         TermLimit <- 0, initiated <- sequencerInitiated, completed <- sequencerCompleted
Source == INSTANCE RequestStream
    WITH BufferLength <- 2, MaxAsks <- 3, phase <- sourcePhase, received <- sourceReceived,
         taken <- sourceTaken
\* Two requests with a body, delayed by half a millisecond for each request, rounded.
Server == INSTANCE TestServer
    WITH Requests <- 1 .. 2, Shapes <- {RequestShape}, Chains <- {<<"time", "delay", "test">>},
         Startup <- StartupConfig, MaxTime <- 1, req <- serverReq
Exec == INSTANCE ExecuteCall
    WITH cancelled <- executeCancelled, result <- executeResult, link <- executeLink

PartsInit ==
    /\ part \in {"tunnel", "process", "signal", "tcp", "http", "sequencer", "source", "server",
                 "execute"}
    /\ Init
    /\ Process!Init
    /\ Signal!Init
    /\ Tcp!Init
    /\ Http!Init
    /\ Sequencer!Init /\ (part = "sequencer" \/ strategy = "SPIN")
    /\ Source!Init
    /\ Server!Init
    /\ Exec!Init

TunnelStep ==
    /\ part = "tunnel" /\ Next
    /\ UNCHANGED <<part, processVars, signalVars, tcpVars, httpVars, sequencerVars, sourceVars,
                   serverVars, executeVars>>
ProcessStep ==
    /\ part = "process" /\ Process!Next
    /\ UNCHANGED <<part, vars, signalVars, tcpVars, httpVars, sequencerVars, sourceVars,
                   serverVars, executeVars>>
SignalStep ==
    /\ part = "signal" /\ Signal!Next
    /\ UNCHANGED <<part, vars, processVars, tcpVars, httpVars, sequencerVars, sourceVars,
                   serverVars, executeVars>>
TcpStep ==
    /\ part = "tcp" /\ Tcp!Next
    /\ UNCHANGED <<part, vars, processVars, signalVars, httpVars, sequencerVars, sourceVars,
                   serverVars, executeVars>>
HttpStep ==
    /\ part = "http" /\ Http!Next
    /\ UNCHANGED <<part, vars, processVars, signalVars, tcpVars, sequencerVars, sourceVars,
                   serverVars, executeVars>>
SequencerStep ==
    /\ part = "sequencer" /\ Sequencer!Next
    /\ UNCHANGED <<part, vars, processVars, signalVars, tcpVars, httpVars, sourceVars,
                   serverVars, executeVars>>
SourceStep ==
    /\ part = "source" /\ Source!Next
    /\ UNCHANGED <<part, vars, processVars, signalVars, tcpVars, httpVars, sequencerVars,
                   serverVars, executeVars>>
ServerStep ==
    /\ part = "server" /\ Server!Next
    /\ UNCHANGED <<part, vars, processVars, signalVars, tcpVars, httpVars, sequencerVars,
                   sourceVars, executeVars>>
ExecuteStep ==
    /\ part = "execute" /\ Exec!Next
    /\ UNCHANGED <<part, vars, processVars, signalVars, tcpVars, httpVars, sequencerVars,
                   sourceVars, serverVars>>

PartsNext ==
    \/ TunnelStep \/ ProcessStep \/ SignalStep \/ TcpStep \/ HttpStep
    \/ SequencerStep \/ SourceStep \/ ServerStep \/ ExecuteStep

partsVars == <<part, vars, processVars, signalVars, tcpVars, httpVars, sequencerVars, sourceVars,
               serverVars, executeVars>>

PartsSpec == PartsInit /\ [][PartsNext]_partsVars

\* What is treated fairly in each part, numbered: the fairness of its own module, where the reasons
\* for it are. A part never changes, so one that is weakly fair to n is so to every part's n.
FairThread(n) ==
  /\ UNCHANGED part
  /\ \/ /\ part = "process"
        /\ \/ n = 1 /\ Process!Main
           \/ n = 2 /\ Process!EndSnapshot
           \/ n = 3 /\ Process!Flush
           \/ n \in 4 .. 5 /\
                 LET w == n - 3
                 IN  \/ Process!Begin(w) \/ Process!RunCancellation(w)
                     \/ Process!RunSnapshot(w) \/ Process!ExitThread(w)
           \/ n \in 6 .. 7 /\ LET w == n - 5 IN w \in stopAsked /\ Process!Complete(w)
     \/ /\ part = "signal"
        /\ \/ n = 1 /\ Signal!Destructor
           \/ n = 2 /\ Signal!ShutdownThread
           \/ n \in 3 .. 4 /\ Signal!Handler(n - 2)
     \/ /\ part = "tcp"
        /\ \/ n = 1 /\ Tcp!PrepareReturns
           \/ n = 2 /\ Tcp!DrainReturns
           \/ n - 2 \in Tcp!LinkIds /\ Tcp!OnTimer(n - 2)
     \/ /\ part = "http"
        /\ \/ n = 1 /\ Http!WarmupDone
           \/ n = 2 /\ \E fails, stale \in BOOLEAN : Http!PhaseEnds(fails, stale)
           \/ n = 3 /\ Http!RunReturns
           \/ n = 4 /\ Http!FinishTimer
           \/ n = 5 /\ Http!Terminate
           \/ n = 6 /\ Http!PoolDrained
           \/ n = 7 /\ Http!TerminateReturns
     \/ /\ part = "sequencer"
        /\ \/ n = 1 /\ \E sync \in BOOLEAN : Sequencer!Start(sync)
           \/ n = 2 /\ Sequencer!Tick
           \/ n = 3 /\ \E sync \in BOOLEAN : Sequencer!PeriodicTimer(sync)
           \/ n = 4 /\ \E sync \in BOOLEAN : Sequencer!SpinTimer(sync)
     \/ /\ part = "source"
        /\ \/ n = 1 /\ Source!OnReceiveMessage
           \/ n = 2 /\ Source!ServiceReads
           \/ n = 3 /\ Source!ServiceWrites
     \/ /\ part = "server"
        /\ \/ n = 1 /\ Server!Tick
           \/ n \in 2 .. 3 /\
                 LET r == n - 1
                 IN  \/ Server!SetDecoderFilterCallbacks(r) \/ Server!DecodeHeaders(r)
                     \/ Server!DecodeData(r) \/ Server!DelayOver(r)
     \/ /\ part = "execute"
        /\ \/ n = 1 /\ Exec!Execute
           \/ n = 2 /\ Exec!Read
           \/ n = 3 /\ (Exec!Accept \/ Exec!Refuse \/ Exec!ReadCancel \/ Exec!EndStream)

\* The variables of the part that moves.
moving ==
    CASE part = "process" -> processVars
      [] part = "signal" -> signalVars
      [] part = "tcp" -> tcpVars
      [] part = "http" -> httpVars
      [] part = "sequencer" -> sequencerVars
      [] part = "source" -> sourceVars
      [] part = "server" -> serverVars
      [] part = "execute" -> executeVars
      [] OTHER -> vars

FairPartsSpec ==
    /\ PartsSpec
    /\ WF_vars(part = "tunnel" /\ MainStep)
    /\ \A t \in Threads : WF_vars(part = "tunnel" /\ Terminate(t))
    /\ \A c \in Cancellers : WF_vars(part = "tunnel" /\ (Terminated(c) \/ CancelReturns(c)))
    /\ \A n \in 1 .. 7 : WF_moving(FairThread(n))

-----------------------------------------------------------------------------
\* A cancellation is heeded whenever it comes. ProcessLifecycle: run() returns, also when it is
\* cancelled before the workers exist or before their threads run. HttpClient: it is not held
\* up by requests that have no response. ExecuteCall: once its context has ended, Execute's
\* wait for the answer is bounded, whether or not the service can still be heard.
CancellationHeeded ==
    (CASE part = "process" -> processCancelled
       [] part = "http" -> httpCancelled
       [] part = "execute" -> cause # "none"
       [] OTHER -> FALSE)
    ~> (CASE part = "process" -> processMain \in {"returned", "flushing", "joining", "shut"}
          [] part = "http" -> httpPhase \in {"finished", "terminating", "terminated"}
          [] part = "execute" -> pc \in {"drain", "returned"}
          [] OTHER -> TRUE)

\* What has begun to finish does. TcpClient: finish() returns, by the last echo, by the loss of
\* the links or by the drain timer. HttpClient: so do finish() and terminate(), whatever the
\* server does. SignalHandler: its destructor returns, whatever the signals do, unless the
\* process ends first. EncapTunnel: once the child has posted the semaphore, the run and its
\* shutdown come to an end, whatever becomes of the child and of the cancellations.
FinishEnds ==
    (CASE part = "tcp" -> phase = "draining"
       [] part = "http" -> httpPhase = "finishing"
       [] part = "signal" -> signalMain = "destroy"
       [] part = "tunnel" -> sem = 1
       [] OTHER -> FALSE)
    ~> (CASE part = "tcp" -> phase = "finished"
          [] part = "http" -> httpPhase = "terminated"
          [] part = "signal" -> signalMain = "done" \/ ~Signal!Alive
          [] part = "tunnel" -> main = "end"
          [] OTHER -> TRUE)

\* What is waited for comes. ProcessLifecycle: snapshot() returns, although a worker whose
\* dispatcher has left work() never runs its job. TcpClient: prepare() returns, "every connect
\* is bounded by the timeout". SignalHandler: the first signal leads to the callback, unless
\* the run is over before the thread gets there. Sequencer: an execution ends. RequestStream: a
\* source that has run dry gets more, as long as the stream is open. TestServer: a request whose
\* end the filters see is answered, unless its client leaves.
WaitEnds ==
    /\ part = "server" => Server!EveryRequestAnswered
    /\ (CASE part = "process" -> waiting
          [] part = "tcp" -> phase = "preparing"
          [] part = "signal" -> \E a \in 1 .. 2 : arrival[a] = "entered"
          [] part = "sequencer" -> state # "stopped"
          [] part = "source" -> open /\ messages = <<>>
          [] OTHER -> FALSE)
       ~> (CASE part = "process" -> ~waiting
             [] part = "tcp" -> phase = "running"
             [] part = "signal" -> calls = 1 \/ destructing \/ ~Signal!Alive
             [] part = "sequencer" -> state = "stopped"
             [] part = "source" -> messages # <<>> \/ ~open
             [] OTHER -> TRUE)
=============================================================================
