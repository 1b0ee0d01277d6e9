-------------------------- MODULE ProcessLifecycle --------------------------
(***************************************************************************)
(* One ProcessImpl (engine/source/client/process_impl.cc): the main thread *)
(* in run() and then shutdown(), the client workers and the flush worker   *)
(* it starts (worker_impl.cc, client_worker_impl.cc, flush_worker_impl.cc),*)
(* cancellations from another thread and snapshots from a third one.       *)
(*                                                                         *)
(* workers_lock_ is held across steps only by the main thread, while it    *)
(* builds and starts the workers and while it joins them. What other       *)
(* threads want of a worker they post to its dispatcher, which runs only   *)
(* while the worker works.                                                 *)
(***************************************************************************)
EXTENDS Integers, FiniteSets

CONSTANTS
    Workers,       \* number_of_workers_ of them
    StatsSinks,    \* are stats sinks configured, and so a flush worker?
    MaxSnapshots   \* bound: snapshots taken in one execution

ASSUME WorkersFinite == IsFiniteSet(Workers) /\ Workers # {}
ASSUME StatsSinksBoolean == StatsSinks \in BOOLEAN
ASSUME MaxSnapshotsNat == MaxSnapshots \in Nat

VARIABLES
    main,            \* where the thread in run(), and then shutdown(), is
    cancelled,       \* cancelled_
    workersRunning,  \* workers_running_
    worker,          \* where each worker is; "none": not in workers_
    signalled,       \* workers told to exit by initiateShutdown
    stopAsked,       \* workers whose graceful_stop_requested was bumped
    cancelPosts,     \* workers with a cancellation in their dispatcher's queue
    snapshotPosts,   \* per worker: the snapshots with a job in its queue
    taken,           \* snapshots taken so far; the last one is the current one
    waiting,         \* snapshot() is in its bounded wait
    outstanding,     \* workers the current snapshot has no statistics of yet
    flush,           \* where the flush worker is
    flushSignalled,  \* the flush worker was told to exit
    exitAsked        \* an exit of the flush worker's dispatcher is queued

snapshotVars == <<snapshotPosts, taken, waiting, outstanding>>
flushVars == <<flush, flushSignalled, exitAsked>>
cancelVars == <<stopAsked, cancelPosts>>
vars == <<main, cancelled, workersRunning, worker, signalled, cancelVars,
          snapshotVars, flushVars>>

MainPcs == {"built", "creating", "waiting", "exitFlush", "joinFlush", "collecting",
            "returned", "flushing", "joining", "shut"}

TypeOK ==
    /\ main \in MainPcs
    /\ cancelled \in BOOLEAN
    /\ workersRunning \in BOOLEAN
    /\ worker \in [Workers -> {"none", "created", "started", "working", "complete",
                               "ended"}]
    /\ signalled \subseteq Workers
    /\ stopAsked \subseteq Workers
    /\ cancelPosts \subseteq Workers
    /\ snapshotPosts \in [Workers -> SUBSET (1 .. MaxSnapshots)]
    /\ taken \in 0 .. MaxSnapshots
    /\ waiting \in BOOLEAN
    /\ outstanding \subseteq Workers
    /\ flush \in {"none", "started", "running", "complete", "ended"}
    /\ flushSignalled \in BOOLEAN
    /\ exitAsked \in BOOLEAN

Init ==
    /\ main = "built"
    /\ cancelled = FALSE
    /\ workersRunning = FALSE
    /\ worker = [w \in Workers |-> "none"]
    /\ signalled = {}
    /\ stopAsked = {}
    /\ cancelPosts = {}
    /\ snapshotPosts = [w \in Workers |-> {}]
    /\ taken = 0
    /\ waiting = FALSE
    /\ outstanding = {}
    /\ flush = "none"
    /\ flushSignalled = FALSE
    /\ exitAsked = FALSE

\* The workers in workers_.
Existing == {w \in Workers : worker[w] # "none"}

\* workers_lock_ is not held by the main thread.
LockFree == main \notin {"creating", "flushing", "joining"}

AllAt(pc) == \A w \in Existing : worker[w] = pc

\* A step of the main thread; the other threads' own state is left alone.
MainStep(from, to) ==
    /\ main = from
    /\ main' = to
    /\ UNCHANGED <<cancelled, cancelVars, snapshotVars>>

workerVars == <<worker, signalled, workersRunning>>

-----------------------------------------------------------------------------
(* run(): runInternal and the function it runs under workers_lock_.        *)

\* Something fails before the lock is taken, e.g. a scheduled start in the past.
RunFailsEarly ==
    /\ MainStep("built", "returned")
    /\ UNCHANGED <<workerVars, flushVars>>

\* Fault: a cancellation that came before the workers is not looked at.
CreateWorkersUnchecked ==
    /\ MainStep("built", "creating")
    /\ worker' = [w \in Workers |-> "created"]
    /\ UNCHANGED <<signalled, workersRunning, flushVars>>

\* createWorkers, under the lock, unless the execution was cancelled before.
CreateWorkers ==
    /\ IF cancelled
       THEN MainStep("built", "waiting") /\ UNCHANGED worker
       ELSE MainStep("built", "creating") /\ worker' = [w \in Workers |-> "created"]
    /\ UNCHANGED <<signalled, workersRunning, flushVars>>

\* The tag producer, a worker's plugins, the runtime loader or the cluster
\* manager: run() returns false, with workers that were never started.
BuildFails ==
    /\ MainStep("creating", "returned")
    /\ \E created \in SUBSET Workers :
          worker' = [w \in Workers |-> IF w \in created THEN "created" ELSE "none"]
    /\ UNCHANGED <<signalled, workersRunning, flushVars>>

\* The flush worker and the workers are started; the lock is released.
StartWorkers ==
    /\ MainStep("creating", "waiting")
    /\ worker' = [w \in Workers |-> "started"]
    /\ flush' = IF StatsSinks THEN "started" ELSE "none"
    /\ workersRunning' = TRUE
    /\ UNCHANGED <<signalled, flushSignalled, exitAsked>>

\* Fault: the first worker to complete ends the wait for all of them.
WaitForAny ==
    /\ \E w \in Existing : worker[w] = "complete"
    /\ MainStep("waiting", IF flush = "none" THEN "collecting" ELSE "exitFlush")
    /\ workersRunning' = FALSE
    /\ UNCHANGED <<worker, signalled, flushVars>>

\* waitForCompletion of every worker, then workers_running_ is cleared.
WaitForCompletion ==
    /\ AllAt("complete")
    /\ MainStep("waiting", IF flush = "none" THEN "collecting" ELSE "exitFlush")
    /\ workersRunning' = FALSE
    /\ UNCHANGED <<worker, signalled, flushVars>>

\* flush_worker_->exitDispatcher()
ExitFlushDispatcher ==
    /\ MainStep("exitFlush", "joinFlush")
    /\ exitAsked' = TRUE
    /\ UNCHANGED <<workerVars, flush, flushSignalled>>

\* flush_worker_->waitForCompletion()
WaitForFlush ==
    /\ flush = "complete"
    /\ MainStep("joinFlush", "collecting")
    /\ UNCHANGED <<workerVars, flushVars>>

\* The workers' statistics and the counters are read into the output.
Collect ==
    /\ MainStep("collecting", "returned")
    /\ UNCHANGED <<workerVars, flushVars>>

-----------------------------------------------------------------------------
(* shutdown(), called once run() and the last snapshot() have returned.    *)

\* The lock is taken and the flush worker, if there is one, told to exit.
SignalFlush ==
    /\ ~waiting
    /\ MainStep("returned", "flushing")
    /\ flushSignalled' = (flush # "none")
    /\ UNCHANGED <<workerVars, flush, exitAsked>>

\* Fault: the workers are told to exit before the flush worker is joined.
SignalWorkersFirst ==
    /\ MainStep("flushing", "joining")
    /\ signalled' = Existing
    /\ UNCHANGED <<worker, workersRunning, flushVars>>

\* flush_worker_->shutdown() has joined it; then initiateShutdown of every
\* worker, so that their shutdowns run concurrently.
SignalWorkers ==
    /\ flush \in {"none", "ended"}
    /\ MainStep("flushing", "joining")
    /\ signalled' = Existing
    /\ UNCHANGED <<worker, workersRunning, flushVars>>

\* Every worker is joined (one never started has no thread) and workers_ is
\* cleared; the cluster manager and the dispatcher are shut down.
JoinWorkers ==
    /\ \A w \in Existing : worker[w] \in {"created", "ended"}
    /\ MainStep("joining", "shut")
    /\ UNCHANGED <<workerVars, flushVars>>

-----------------------------------------------------------------------------
(* requestExecutionCancellation(), from the service's or a signal's thread.*)

RequestExecutionCancellation ==
    /\ main # "shut" /\ LockFree
    /\ cancelled' = TRUE
    /\ cancelPosts' = cancelPosts \cup Existing
    /\ UNCHANGED <<main, workerVars, stopAsked, snapshotVars, flushVars>>

-----------------------------------------------------------------------------
(* snapshot(), from the progress thread.                                   *)

\* A job is posted to every worker, under the lock and while they run.
BeginSnapshot ==
    /\ ~waiting /\ taken < MaxSnapshots
    /\ LockFree /\ workersRunning
    /\ taken' = taken + 1
    /\ waiting' = TRUE
    /\ outstanding' = Workers
    /\ snapshotPosts' = [w \in Workers |-> snapshotPosts[w] \cup {taken + 1}]
    /\ UNCHANGED <<main, cancelled, workerVars, cancelVars, flushVars>>

\* Fault: the wait has no deadline.
EndSnapshotUnbounded ==
    /\ waiting /\ outstanding = {}
    /\ waiting' = FALSE
    /\ UNCHANGED <<main, cancelled, workerVars, cancelVars, snapshotPosts, taken,
                   outstanding, flushVars>>

\* Every worker answered, or the deadline of one second passed. Its state is
\* gone from here on: the jobs left in the queues find nothing.
EndSnapshot ==
    /\ waiting
    /\ waiting' = FALSE
    /\ outstanding' = {}
    /\ UNCHANGED <<main, cancelled, workerVars, cancelVars, snapshotPosts, taken,
                   flushVars>>

-----------------------------------------------------------------------------
(* A client worker's thread.                                               *)

WorkerStep(w, from, to) ==
    /\ worker[w] = from
    /\ worker' = [worker EXCEPT ![w] = to]
    /\ UNCHANGED <<main, cancelled, workersRunning, signalled, flushVars>>

\* The thread starts with a non-blocking run of its dispatcher, which runs
\* what was posted since the worker was created, and goes to work().
Begin(w) ==
    /\ WorkerStep(w, "started", "working")
    /\ stopAsked' = IF w \in cancelPosts THEN stopAsked \cup {w} ELSE stopAsked
    /\ cancelPosts' = cancelPosts \ {w}
    /\ snapshotPosts' = [snapshotPosts EXCEPT ![w] = {}]
    /\ outstanding' = IF waiting /\ taken \in snapshotPosts[w]
                      THEN outstanding \ {w} ELSE outstanding
    /\ UNCHANGED <<taken, waiting>>

\* A posted cancellation: the counter the termination predicate watches.
RunCancellation(w) ==
    /\ w \in cancelPosts
    /\ WorkerStep(w, "working", "working")
    /\ cancelPosts' = cancelPosts \ {w}
    /\ stopAsked' = stopAsked \cup {w}
    /\ UNCHANGED snapshotVars

\* Fault: the job does not ask whether its snapshot is still waiting for it.
RunSnapshotUnasked(w) ==
    /\ \E n \in snapshotPosts[w] :
          /\ snapshotPosts' = [snapshotPosts EXCEPT ![w] = @ \ {n}]
          /\ outstanding' = outstanding \ {w}
    /\ WorkerStep(w, "working", "working")
    /\ UNCHANGED <<cancelVars, taken, waiting>>

\* A posted snapshot job hands over its statistics if the snapshot that posted
\* it still waits (still_wanted, and the check under the snapshot's lock).
RunSnapshot(w) ==
    /\ \E n \in snapshotPosts[w] :
          /\ \A k \in snapshotPosts[w] : n <= k
          /\ snapshotPosts' = [snapshotPosts EXCEPT ![w] = @ \ {n}]
          /\ outstanding' = IF waiting /\ n = taken THEN outstanding \ {w} ELSE outstanding
    /\ WorkerStep(w, "working", "working")
    /\ UNCHANGED <<cancelVars, taken, waiting>>

\* work() returns: the execution ended by itself, or was stopped.
Complete(w) ==
    /\ WorkerStep(w, "working", "complete")
    /\ UNCHANGED <<cancelVars, snapshotVars>>

\* shutdownThread() and the end of the thread.
ExitThread(w) ==
    /\ w \in signalled
    /\ WorkerStep(w, "complete", "ended")
    /\ UNCHANGED <<cancelVars, snapshotVars>>

-----------------------------------------------------------------------------
(* The flush worker's thread.                                              *)

FlushStep(from, to) ==
    /\ flush = from
    /\ flush' = to
    /\ UNCHANGED <<main, cancelled, workerVars, cancelVars, snapshotVars,
                   flushSignalled>>

\* The same non-blocking run: an exit that is already queued ends THAT run.
FlushBegin == FlushStep("started", "running") /\ exitAsked' = FALSE

\* The dispatcher of work() runs, and flushes, until it is told to exit.
FlushComplete == exitAsked /\ FlushStep("running", "complete") /\ exitAsked' = FALSE

\* shutdownThread(): the last flush.
FlushExit ==
    /\ flushSignalled
    /\ FlushStep("complete", "ended")
    /\ UNCHANGED exitAsked

-----------------------------------------------------------------------------

Main ==
    \/ RunFailsEarly \/ CreateWorkers \/ BuildFails \/ StartWorkers
    \/ WaitForCompletion \/ ExitFlushDispatcher \/ WaitForFlush \/ Collect
    \/ SignalFlush \/ SignalWorkers \/ JoinWorkers

Worker(w) ==
    \/ Begin(w) \/ RunCancellation(w) \/ RunSnapshot(w) \/ Complete(w) \/ ExitThread(w)

Flush == FlushBegin \/ FlushComplete \/ FlushExit

Next ==
    \/ Main
    \/ RequestExecutionCancellation
    \/ BeginSnapshot \/ EndSnapshot
    \/ \E w \in Workers : Worker(w)
    \/ Flush

Spec == Init /\ [][Next]_vars

\* Threads that can move do; a snapshot's wait has a deadline. Workers are
\* endless: only one that was stopped has to complete.
EndlessSpec ==
    /\ Spec
    /\ WF_vars(Main)
    /\ WF_vars(EndSnapshot)
    /\ WF_vars(Flush)
    /\ \A w \in Workers :
          /\ WF_vars(Begin(w) \/ RunCancellation(w) \/ RunSnapshot(w) \/ ExitThread(w))
          /\ WF_vars(w \in stopAsked /\ Complete(w))

-----------------------------------------------------------------------------
(* Properties                                                              *)

\* While run() reads the workers' statistics and counters, every worker has
\* left work() and none is in shutdownThread(), which would disturb them; the
\* flush worker has left its dispatcher too.
CollectsQuiescent ==
    main = "collecting" => AllAt("complete") /\ flush \in {"none", "complete"}

\* Only a worker whose thread runs, and has not been told to exit, is asked for
\* a snapshot: workers_running_ stands for exactly that, whoever reads it.
RunningMeansRunning ==
    workersRunning => /\ main = "waiting"
                      /\ \A w \in Workers :
                            worker[w] \in {"started", "working", "complete"} /\ w \notin signalled

\* A snapshot that waits lacks exactly the workers that still have its job: no
\* late job of an earlier snapshot answers for this one (still_wanted).
AnswersAreThisSnapshots ==
    waiting => outstanding = {w \in Workers : taken \in snapshotPosts[w]}

\* The last stats flush happens when every worker has completed and none has
\* begun to shut down, so that it holds the workers' metrics (process_impl.cc,
\* the order in shutdown()).
LastFlushHasAllMetrics ==
    [][flush # "ended" /\ flush' = "ended" => AllAt("complete") /\ signalled = {}]_vars

\* Once workers_ is cleared no thread of this process is left: each worker and
\* the flush worker has ended or was never started.
NoThreadOutlivesShutdown ==
    main = "shut" => /\ \A w \in Workers : worker[w] \in {"none", "created", "ended"}
                     /\ flush \in {"none", "ended"}

\* The process and its workers keep in step: what run() collects, snapshot()
\* asks and shutdown() destroys is never a thread's that is elsewhere.
WorkersInStep ==
    TypeOK /\ CollectsQuiescent /\ RunningMeansRunning /\ NoThreadOutlivesShutdown

\* exitDispatcher() "stops the dispatcher and the flush timer running in flush
\* worker" (flush_worker_impl.h), so run() gets past waiting for it.
ExitStopsFlushWorker == (main = "joinFlush") ~> (main = "collecting")
=============================================================================
