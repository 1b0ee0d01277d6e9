-------------------------- MODULE ExecutionService --------------------------
(***************************************************************************)
(* The engine's gRPC service (engine/source/client/service_impl.cc): the   *)
(* handler thread of every ExecutionStream RPC, the run thread each        *)
(* accepted start spawns (handleExecutionRequest) and the progress thread  *)
(* of a run that asked for progress.                                       *)
(*                                                                         *)
(* A stream has at most one execution whose thread is still running (the   *)
(* handler joins the previous one before it starts the next), so the state *)
(* of the execution, and of its two threads, is indexed by the stream.     *)
(* execution->lock and active_lock_ guard short critical sections, each of *)
(* which is one step; the one section that can block, a cancellation       *)
(* calling into the Process, holds execution->lock across two steps        *)
(* (streamPc = "cancelling").                                              *)
(***************************************************************************)
EXTENDS Integers, FiniteSets

CONSTANTS
    Streams,                  \* RPC handlers; a closed one may serve a new RPC
    MaxConcurrentExecutions,  \* max_concurrent_executions_
    RunMayThrow               \* may Process::run() rethrow an exception?

ASSUME StreamsFinite == IsFiniteSet(Streams)
ASSUME CapPositive == MaxConcurrentExecutions \in Nat \ {0}
ASSUME RunMayThrowBoolean == RunMayThrow \in BOOLEAN

VARIABLES
    active,           \* active_executions_
    streamPc,         \* where the handler thread of the stream is
    runPc,            \* where the run thread is; "none": no execution
    outcome,          \* how the run ends: it writes an answer, or unwinds
    process,          \* execution->process # nullptr
    cancelRequested,  \* execution->cancel_requested
    done,             \* execution->done
    object,           \* the ProcessImpl: none, or by its shutdown_ flag
    cancelled,        \* ProcessImpl::cancelled_
    progress,         \* where the progress thread is
    stopProgress,     \* stop_progress
    aborted,          \* a RELEASE_ASSERT failed: the whole service is gone
    asked,            \* history: a cancellation was read before the run was done
    answered          \* history: the final response is (being) written
\* A flag of an execution is the set of the streams for which it is set.

cancelVars == <<cancelRequested, cancelled, asked>>
processVars == <<process, object>>
progressVars == <<progress, stopProgress>>
answerVars == <<outcome, done, answered>>
execVars == <<runPc, cancelVars, processVars, progressVars, answerVars>>
vars == <<active, aborted, streamPc, execVars>>

StreamPcs == {"closed", "reading", "joinPrevious", "takeSlot", "launching",
              "cancelling", "finishing"}
RunPcs == {"none", "setup", "publish", "running", "stopProgress",
           "joinProgress", "shutdown", "unpublish", "destroy", "release",
           "markDone", "write", "writing", "wrapUp", "ended"}

TypeOK ==
    /\ active \in Nat
    /\ streamPc \in [Streams -> StreamPcs]
    /\ runPc \in [Streams -> RunPcs]
    /\ outcome \in [Streams -> {"answer", "throw"}]
    /\ process \subseteq Streams
    /\ cancelRequested \subseteq Streams
    /\ done \subseteq Streams
    /\ object \in [Streams -> {"none", "shut", "live"}]
    /\ cancelled \subseteq Streams
    /\ progress \in [Streams -> {"off", "waiting", "snapshot", "writing"}]
    /\ stopProgress \subseteq Streams
    /\ aborted \in BOOLEAN
    /\ asked \subseteq Streams
    /\ answered \subseteq Streams

Init ==
    /\ active = 0
    /\ streamPc = [s \in Streams |-> "closed"]
    /\ runPc = [s \in Streams |-> "none"]
    /\ outcome = [s \in Streams |-> "answer"]
    /\ process = {}
    /\ cancelRequested = {}
    /\ done = {}
    /\ object = [s \in Streams |-> "none"]
    /\ cancelled = {}
    /\ progress = [s \in Streams |-> "off"]
    /\ stopProgress = {}
    /\ aborted = FALSE
    /\ asked = {}
    /\ answered = {}

-----------------------------------------------------------------------------
(* ExecutionStream: the handler thread of a stream.                        *)

\* The handler at `from` goes to `to`; nothing of the execution changes.
StreamStep(s, from, to) ==
    /\ ~aborted
    /\ streamPc[s] = from
    /\ streamPc' = [streamPc EXCEPT ![s] = to]
    /\ UNCHANGED aborted

\* Fault: the Execution is reused, with the note left for the previous run.
FreshExecutionReused(s, pc) ==
    /\ runPc' = [runPc EXCEPT ![s] = pc]
    /\ outcome' = [outcome EXCEPT ![s] = "answer"]
    /\ process' = process \ {s}
    /\ done' = done \ {s}
    /\ cancelled' = cancelled \ {s}
    /\ stopProgress' = stopProgress \ {s}
    /\ asked' = asked \ {s}
    /\ answered' = answered \ {s}
    /\ UNCHANGED <<object, progress, cancelRequested>>

\* A fresh Execution (pc = "setup"), or none (pc = "none").
FreshExecution(s, pc) ==
    /\ runPc' = [runPc EXCEPT ![s] = pc]
    /\ outcome' = [outcome EXCEPT ![s] = "answer"]
    /\ process' = process \ {s}
    /\ cancelRequested' = cancelRequested \ {s}
    /\ done' = done \ {s}
    /\ cancelled' = cancelled \ {s}
    /\ stopProgress' = stopProgress \ {s}
    /\ asked' = asked \ {s}
    /\ answered' = answered \ {s}
    /\ UNCHANGED <<object, progress>>

\* A new RPC: the handler starts with no execution of its own.
Open(s) ==
    /\ StreamStep(s, "closed", "reading")
    /\ FreshExecution(s, "none")
    /\ UNCHANGED active

\* A start_request while this stream's execution is not done ends the stream.
ReadStartTooEarly(s) ==
    /\ StreamStep(s, "reading", "finishing")
    /\ runPc[s] # "none" /\ s \notin done
    /\ UNCHANGED <<active, execVars>>

\* A start_request with no execution, or with one that is done and is joined.
ReadStart(s) ==
    /\ \/ runPc[s] = "none" /\ StreamStep(s, "reading", "takeSlot")
       \/ runPc[s] # "none" /\ s \in done /\ StreamStep(s, "reading", "joinPrevious")
    /\ UNCHANGED <<active, execVars>>

\* Fault: the next start does not wait for the previous run's thread.
JoinPreviousNoWait(s) ==
    /\ StreamStep(s, "joinPrevious", "takeSlot")
    /\ UNCHANGED <<active, execVars>>

\* execution->future.wait()
JoinPrevious(s) ==
    /\ runPc[s] = "ended"
    /\ StreamStep(s, "joinPrevious", "takeSlot")
    /\ UNCHANGED <<active, execVars>>

\* The slot is counted under active_lock_, before the run's thread exists.
TakeSlot(s) ==
    /\ active < MaxConcurrentExecutions
    /\ StreamStep(s, "takeSlot", "launching")
    /\ active' = active + 1
    /\ UNCHANGED execVars

\* At the cap the start is refused and the stream ends.
Refuse(s) ==
    /\ active >= MaxConcurrentExecutions
    /\ StreamStep(s, "takeSlot", "closed")
    /\ UNCHANGED <<active, execVars>>

\* The run's thread is created (std::async), with an Execution of its own.
Launch(s) ==
    /\ StreamStep(s, "launching", "reading")
    /\ FreshExecution(s, "setup")
    /\ UNCHANGED active

\* Fault: the slot is not given back when the thread cannot be created.
LaunchFailsKeepsSlot(s) ==
    /\ StreamStep(s, "launching", "closed")
    /\ FreshExecution(s, "none")
    /\ UNCHANGED active

\* The allocation or the thread throws: the slot is given back.
LaunchFails(s) ==
    /\ StreamStep(s, "launching", "closed")
    /\ active' = active - 1
    /\ FreshExecution(s, "none")

\* Fault: a cancellation that finds no Process is dropped.
ReadCancellationDropped(s) ==
    /\ runPc[s] # "none" /\ s \notin done
    /\ IF s \in process
       THEN StreamStep(s, "reading", "cancelling")
       ELSE StreamStep(s, "reading", "reading")
    /\ asked' = asked \cup {s}
    /\ UNCHANGED <<active, runPc, cancelRequested, cancelled, processVars,
                   progressVars, answerVars>>

\* A cancellation_request for an execution that is not done: left as a note
\* when there is no Process, else execution->lock is held for the call.
ReadCancellation(s) ==
    /\ runPc[s] # "none" /\ s \notin done
    /\ IF s \in process
       THEN /\ StreamStep(s, "reading", "cancelling")
            /\ UNCHANGED cancelRequested
       ELSE /\ StreamStep(s, "reading", "reading")
            /\ cancelRequested' = cancelRequested \cup {s}
    /\ asked' = asked \cup {s}
    /\ UNCHANGED <<active, runPc, cancelled, processVars, progressVars, answerVars>>

\* A cancellation_request with nothing to cancel is ignored.
IgnoreCancellation(s) ==
    /\ runPc[s] = "none" \/ s \in done
    /\ StreamStep(s, "reading", "reading")
    /\ UNCHANGED <<active, execVars>>

\* process->requestExecutionCancellation(), which waits for workers_lock_:
\* ProcessImpl::shutdown() holds that while it joins the workers.
Cancel(s) ==
    /\ runPc[s] # "shutdown"
    /\ StreamStep(s, "cancelling", "reading")
    /\ cancelled' = cancelled \cup {s}
    /\ UNCHANGED <<active, runPc, cancelRequested, asked, processVars, progressVars,
                   answerVars>>

\* An update_request, or the end of the client's requests.
ReadLast(s) ==
    /\ StreamStep(s, "reading", "finishing")
    /\ UNCHANGED <<active, execVars>>

\* finishGrpcStream: the run is joined before the stream is finished.
FinishGrpcStream(s) ==
    /\ runPc[s] \in {"none", "ended"}
    /\ StreamStep(s, "finishing", "closed")
    /\ UNCHANGED <<active, execVars>>

-----------------------------------------------------------------------------
(* handleExecutionRequest: the run thread of the stream's execution.       *)

\* The run thread at `from` goes to `to`; the handler does not move.
RunStep(s, from, to) ==
    /\ ~aborted
    /\ runPc[s] = from
    /\ runPc' = [runPc EXCEPT ![s] = to]
    /\ UNCHANGED streamPc

\* execution->lock is free: the handler is not inside a cancellation.
LockFree(s) == streamPc[s] # "cancelling"

\* Options, progress_interval and CreateProcessImpl: each failure is answered
\* (write_final); an exception none of the handlers catches unwinds.
SetUp(s) ==
    /\ \/ /\ RunStep(s, "setup", "publish")
          /\ object' = [object EXCEPT ![s] = "shut"]
          /\ UNCHANGED outcome
       \/ /\ RunStep(s, "setup", "release")
          /\ UNCHANGED <<object, outcome>>
       \/ /\ RunMayThrow
          /\ RunStep(s, "setup", "release")
          /\ outcome' = [outcome EXCEPT ![s] = "throw"]
          /\ UNCHANGED object
    /\ UNCHANGED <<active, aborted, process, done, answered, cancelVars, progressVars>>

\* The Process is published under execution->lock, a noted cancellation is
\* passed on, and the progress thread is started if the request asked for it.
Publish(s) ==
    /\ LockFree(s)
    /\ RunStep(s, "publish", "running")
    /\ process' = process \cup {s}
    /\ cancelled' = IF s \in cancelRequested THEN cancelled \cup {s} ELSE cancelled
    /\ \E p \in {"off", "waiting"} : progress' = [progress EXCEPT ![s] = p]
    /\ UNCHANGED <<active, aborted, cancelRequested, object, stopProgress, asked,
                   answerVars>>

\* Process::run() starts the workers, unless it was cancelled before.
StartWorkers(s) ==
    /\ object[s] = "shut" /\ s \notin cancelled
    /\ RunStep(s, "running", "running")
    /\ object' = [object EXCEPT ![s] = "live"]
    /\ UNCHANGED <<active, aborted, process, cancelVars, progressVars, answerVars>>

\* Process::run() returns, with or without workers having been started.
RunReturns(s) ==
    /\ RunStep(s, "running", "stopProgress")
    /\ UNCHANGED <<active, aborted, cancelVars, processVars, progressVars, answerVars>>

\* Process::run() (or the thread for the progress) throws: the stack unwinds.
RunThrows(s) ==
    /\ RunMayThrow
    /\ RunStep(s, "running", "stopProgress")
    /\ outcome' = [outcome EXCEPT ![s] = "throw"]
    /\ UNCHANGED <<active, aborted, done, answered, cancelVars, processVars, progressVars>>

\* Fault: the progress thread is notified and its flag is not set.
StopProgressNotifiesOnly(s) ==
    /\ progress[s] \in {"off", "waiting"}
    /\ RunStep(s, "stopProgress", "joinProgress")
    /\ UNCHANGED <<active, aborted, cancelVars, processVars, progressVars, answerVars>>

\* stop_progress_thread sets the flag under progress_lock, which the progress
\* thread holds except in its timed wait.
StopProgress(s) ==
    /\ progress[s] \in {"off", "waiting"}
    /\ RunStep(s, "stopProgress", "joinProgress")
    /\ stopProgress' = stopProgress \cup {s}
    /\ UNCHANGED <<active, aborted, progress, cancelVars, processVars, answerVars>>

\* Fault: the flag is set and the thread is not joined.
JoinProgressNoWait(s) ==
    /\ \/ outcome[s] = "answer" /\ RunStep(s, "joinProgress", "shutdown")
       \/ outcome[s] = "throw" /\ RunStep(s, "joinProgress", "unpublish")
    /\ UNCHANGED <<active, aborted, cancelVars, processVars, progressVars, answerVars>>

\* progress_thread.join(); only a run that returned is shut down.
JoinProgress(s) ==
    /\ progress[s] = "off"
    /\ \/ outcome[s] = "answer" /\ RunStep(s, "joinProgress", "shutdown")
       \/ outcome[s] = "throw" /\ RunStep(s, "joinProgress", "unpublish")
    /\ UNCHANGED <<active, aborted, cancelVars, processVars, progressVars, answerVars>>

\* process->shutdown() returns: the workers are joined, shutdown_ is set.
ShutDown(s) ==
    /\ RunStep(s, "shutdown", "unpublish")
    /\ object' = [object EXCEPT ![s] = "shut"]
    /\ UNCHANGED <<active, aborted, process, cancelVars, progressVars, answerVars>>

\* Fault: the Process stays published while the stack unwinds.
UnpublishSkipped(s) ==
    /\ LockFree(s)
    /\ \/ outcome[s] = "answer" /\ RunStep(s, "unpublish", "release")
       \/ outcome[s] = "throw" /\ RunStep(s, "unpublish", "destroy")
    /\ process' = IF outcome[s] = "answer" THEN process \ {s} ELSE process
    /\ UNCHANGED <<active, aborted, object, cancelVars, progressVars, answerVars>>

\* execution->process = nullptr, under execution->lock. An unwinding stack
\* destroys the Process next, a returning one only after the answer.
Unpublish(s) ==
    /\ LockFree(s)
    /\ \/ outcome[s] = "answer" /\ RunStep(s, "unpublish", "release")
       \/ outcome[s] = "throw" /\ RunStep(s, "unpublish", "destroy")
    /\ process' = process \ {s}
    /\ UNCHANGED <<active, aborted, object, cancelVars, progressVars, answerVars>>

\* ~ProcessImpl: RELEASE_ASSERT(shutdown_) aborts the service.
Destroy(s) ==
    /\ \/ RunStep(s, "destroy", "release")
       \/ RunStep(s, "wrapUp", "ended")
    /\ aborted' = (object[s] = "live")
    /\ object' = [object EXCEPT ![s] = "none"]
    /\ UNCHANGED <<active, process, cancelVars, progressVars, answerVars>>

\* Fault: the answer is written first and the slot given back after it.
ReleaseAfterAnswer(s) ==
    /\ \/ /\ s \notin answered
          /\ RunStep(s, "release", "release")
          /\ answered' = answered \cup {s}
          /\ UNCHANGED active
       \/ /\ s \in answered
          /\ RunStep(s, "release", "markDone")
          /\ active' = active - 1
          /\ UNCHANGED answered
    /\ UNCHANGED <<aborted, outcome, done, cancelVars, processVars, progressVars>>

\* release(): the slot is given back under active_lock_ ...
Release(s) ==
    /\ RunStep(s, "release", "markDone")
    /\ active' = active - 1
    /\ UNCHANGED <<aborted, cancelVars, processVars, progressVars, answerVars>>

\* Fault: release() is not idempotent, the slot is given back twice.
MarkDoneReleasesAgain(s) ==
    /\ LockFree(s)
    /\ \/ outcome[s] = "answer" /\ RunStep(s, "markDone", "write")
       \/ outcome[s] = "throw" /\ RunStep(s, "markDone", "ended")
    /\ done' = done \cup {s}
    /\ active' = active - 1
    /\ UNCHANGED <<aborted, outcome, answered, cancelVars, processVars, progressVars>>

\* ... and then done is set under execution->lock.
MarkDone(s) ==
    /\ LockFree(s)
    /\ \/ outcome[s] = "answer" /\ RunStep(s, "markDone", "write")
       \/ outcome[s] = "throw" /\ RunStep(s, "markDone", "ended")
    /\ done' = done \cup {s}
    /\ UNCHANGED <<active, aborted, outcome, answered, cancelVars, processVars,
                   progressVars>>

\* writeResponse of the final response; the client may read it from now on.
WriteFinal(s) ==
    /\ RunStep(s, "write", "writing")
    /\ answered' = answered \cup {s}
    /\ UNCHANGED <<active, aborted, outcome, done, cancelVars, processVars, progressVars>>

\* stream->Write returns, true or false.
FinalWritten(s) ==
    /\ RunStep(s, "writing", "wrapUp")
    /\ UNCHANGED <<active, aborted, cancelVars, processVars, progressVars, answerVars>>

-----------------------------------------------------------------------------
(* The progress thread. It holds progress_lock but for the timed wait.     *)

ProgressStep(s, from, to) ==
    /\ ~aborted
    /\ progress[s] = from
    /\ progress' = [progress EXCEPT ![s] = to]
    /\ UNCHANGED <<active, aborted, streamPc, runPc, stopProgress, cancelVars,
                   processVars, answerVars>>

\* The wait ends, by the interval or the notification.
ProgressWakes(s) ==
    \/ s \in stopProgress /\ ProgressStep(s, "waiting", "off")
    \/ s \notin stopProgress /\ ProgressStep(s, "waiting", "snapshot")

\* process->snapshot() has nothing to show, or an interim response to write.
ProgressSnapshot(s) ==
    \/ ProgressStep(s, "snapshot", "waiting")
    \/ ProgressStep(s, "snapshot", "writing")

\* stream->Write of the interim response returns.
ProgressWritten(s) == ProgressStep(s, "writing", "waiting")

-----------------------------------------------------------------------------
Handler(s) ==
    \/ Open(s) \/ ReadStartTooEarly(s) \/ ReadStart(s) \/ JoinPrevious(s)
    \/ TakeSlot(s) \/ Refuse(s) \/ Launch(s) \/ LaunchFails(s)
    \/ ReadCancellation(s) \/ IgnoreCancellation(s) \/ Cancel(s)
    \/ ReadLast(s) \/ FinishGrpcStream(s)

Run(s) ==
    \/ SetUp(s) \/ Publish(s) \/ StartWorkers(s) \/ RunReturns(s) \/ RunThrows(s)
    \/ StopProgress(s) \/ JoinProgress(s) \/ ShutDown(s) \/ Unpublish(s)
    \/ Destroy(s) \/ Release(s) \/ MarkDone(s) \/ WriteFinal(s) \/ FinalWritten(s)

Progress(s) == ProgressWakes(s) \/ ProgressSnapshot(s) \/ ProgressWritten(s)

Next == \E s \in Streams : Handler(s) \/ Run(s) \/ Progress(s)

Spec == Init /\ [][Next]_vars

-----------------------------------------------------------------------------
(* Fairness. All threads are scheduled. A lock is not starved (SF): the    *)
(* progress thread is without progress_lock for a whole interval (1ms or   *)
(* more) in every round, and a handler leaves execution->lock for a read   *)
(* of the network between two cancellations. A Write returns because the   *)
(* client reads its stream or goes away. What is NOT assumed is that a run *)
(* ends by itself (options may set no duration): only that a cancelled one *)
(* does.                                                                   *)

CancelledRunReturns(s) == s \in cancelled /\ RunReturns(s)

LockingSteps(s) == Publish(s) \/ StopProgress(s) \/ Unpublish(s) \/ MarkDone(s)

OtherRunSteps(s) ==
    SetUp(s) \/ JoinProgress(s) \/ ShutDown(s) \/ Destroy(s) \/ Release(s)
        \/ WriteFinal(s) \/ FinalWritten(s)

HandlerSteps(s) ==
    JoinPrevious(s) \/ TakeSlot(s) \/ Refuse(s) \/ Launch(s) \/ LaunchFails(s)
        \/ Cancel(s) \/ FinishGrpcStream(s)

ThreadFairness(s) ==
    /\ WF_vars(OtherRunSteps(s))
    /\ SF_vars(LockingSteps(s))
    /\ WF_vars(Progress(s))
    /\ WF_vars(HandlerSteps(s))

\* Runs that may last for ever unless they are cancelled.
EndlessRunsSpec ==
    Spec /\ \A s \in Streams : ThreadFairness(s) /\ WF_vars(CancelledRunReturns(s))

-----------------------------------------------------------------------------
(* What is checked.                                                        *)

\* The run thread is between taking the slot and giving it back.
SlotPcs == {"setup", "publish", "running", "stopProgress", "joinProgress",
            "shutdown", "unpublish", "destroy", "release"}

HoldsSlot(s) == streamPc[s] = "launching" \/ runPc[s] \in SlotPcs

Holders == {s \in Streams : HoldsSlot(s)}

\* The count the refusals are decided on is the number of executions that hold
\* a slot, and never passes the cap: no path of the handler or of the run (a
\* thread that cannot be created, an exception) takes a slot twice, gives one
\* back twice or keeps it (service_impl.cc, release and the start_request).
SlotsAccountedFor ==
    /\ active = Cardinality(Holders)
    /\ active <= MaxConcurrentExecutions

\* The final response is the last thing written on a stream, and no other
\* write overlaps it: the progress thread is gone by then ("Writes on a gRPC
\* stream must not overlap").
FinalResponseIsLast ==
    \A s \in Streams : runPc[s] \in {"write", "writing", "wrapUp"} => progress[s] = "off"

\* A thread that is inside a call on the Process finds it alive: a cancellation
\* (handler thread) and a snapshot (progress thread) alike, also when they race
\* the end of the run or an exception.
ProcessOutlivesCallers ==
    \A s \in Streams :
        streamPc[s] = "cancelling" \/ progress[s] = "snapshot" => object[s] # "none"

\* The RPC is finished, and its stream object gone, only when nothing can write
\* to it any more: neither the run thread nor the progress thread is left.
StreamOutlivesRun ==
    \A s \in Streams :
        streamPc[s] \in {"closed", "takeSlot", "launching"} =>
            runPc[s] \in {"none", "ended"} /\ progress[s] = "off"

\* Nobody is left with what is gone: neither a caller with the Process, nor a
\* thread of the run with the stream (the order of the scopes and joins in
\* handleExecutionRequest and ExecutionStream).
LifetimesKept == ProcessOutlivesCallers /\ StreamOutlivesRun

\* A run is cancelled only on a cancellation its own stream sent for THIS run,
\* not on the note left for the stream's previous one.
CancelledOnlyIfAsked == \A s \in Streams : s \in cancelled => s \in asked

\* "A client that starts its next run the moment it reads that response must
\* never be refused as busy by the run it just watched end": when a start is
\* refused, a cap's worth of executions exist that have not answered yet.
RefusedOnlyByUnanswered ==
    [][\A s \in Streams :
         Refuse(s) => Cardinality({t \in Holders : streamPc[t] = "launching" \/ t \notin answered})
                        >= MaxConcurrentExecutions]_vars

\* What the streams see of their executions: see ExecutionPool.
poolState ==
    [s \in Streams |->
        IF HoldsSlot(s) THEN "held"
        ELSE IF runPc[s] = "none" THEN "idle"
        ELSE IF s \in answered THEN "answered"
        ELSE IF runPc[s] = "ended" THEN "failed"
        ELSE "released"]

Pool == INSTANCE ExecutionPool
            WITH state <- poolState, Cap <- MaxConcurrentExecutions,
                 free <- MaxConcurrentExecutions - active

\* The service implements the pool of slots it promises: the cap, the slot free
\* before the answer, and one execution of a stream at a time (the comments at
\* release, write_final and the start_request of service_impl.cc).
ImplementsPool == Pool!Spec

\* A cancellation read before the run is done ends the run, in whichever state
\* of its construction, run or teardown it was read: it is never lost, even by
\* a run that would never end by itself.
CancellationHonoured ==
    \A s \in Streams : s \in asked /\ s \notin done ~> s \in done

\* Every slot taken is given back, but for that of a run that goes on: the
\* service is not left "one execution closer to reporting busy forever".
SlotGivenBack ==
    \A s \in Streams : HoldsSlot(s) ~> ~HoldsSlot(s) \/ runPc[s] = "running"

\* An RPC that has stopped reading is finished, once its run is over.
StreamFinishes ==
    \A s \in Streams :
       streamPc[s] = "finishing" ~> streamPc[s] = "closed" \/ runPc[s] = "running"
=============================================================================
