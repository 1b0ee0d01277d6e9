---------------------------- MODULE EncapTunnel ----------------------------
(***************************************************************************)
(* The child process that a run with --tunnel-uri forks: an Envoy that      *)
(* encapsulates the traffic of the load test.  The main thread forks it,    *)
(* waits on a semaphore the two processes share until it serves, runs the   *)
(* workers, and takes the child down in shutdown(); a cancellation takes it *)
(* down too, on a thread of its own (a signal, or a stream of the service), *)
(* so two threads may be terminating the one child.  The workers are a      *)
(* single state here: ProcessLifecycle has them.                            *)
(***************************************************************************)
EXTENDS Naturals, FiniteSets

CONSTANTS
  Cancellers,  \* the calls of requestExecutionCancellation()
  MaxPolls,    \* attempts of the termination to reap the child (150)
  MayCrash     \* whether the child may crash by itself

Main == "main thread"
Free == "free"

ASSUME TunnelAssumption ==
  /\ MaxPolls \in Nat /\ MayCrash \in BOOLEAN
  /\ Main \notin Cancellers /\ Free \notin Cancellers

VARIABLES
  main,        \* where the main thread is
  cancel,      \* where every cancellation is
  term,        \* where every thread is in TerminateEncapSubProcess()
  polls,       \* the attempts a termination has made
  result,      \* what the last termination of a thread returned
  runner,      \* encap_runner_ is set
  pid,         \* pid_ names the child
  sem,         \* value of nighthawk_control_sem_
  semLive,     \* it has been initialised and not destroyed
  child,       \* the child process
  signalled,   \* SIGTERM is pending in the child
  workersLock, \* holder of workers_lock_
  mutex,       \* holder of terminate_mutex_
  cancelled,   \* cancelled_
  workers      \* the workers of the load test

vars == <<main, cancel, term, polls, result, runner, pid, sem, semLive, child,
          signalled, workersLock, mutex, cancelled, workers>>

Threads == Cancellers \union {Main}

Ended == {"exited", "crashed"}
Alive == {"starting", "serving"}

TypeOK ==
  /\ main \in {"construct", "fork", "forked", "semaphore", "nighthawk", "wait",
               "shutdown", "clear", "destroy", "end"}
  /\ cancel \in [Cancellers -> {"idle", "locked", "terminated", "returned"}]
  /\ term \in [Threads -> {"idle", "call", "kill", "poll", "reap"}]
  /\ polls \in [Threads -> 0 .. MaxPolls]
  /\ result \in [Threads -> BOOLEAN]
  /\ runner \in BOOLEAN /\ pid \in BOOLEAN /\ semLive \in BOOLEAN
  /\ signalled \in BOOLEAN /\ cancelled \in BOOLEAN
  /\ sem \in 0 .. 1
  /\ child \in {"none", "reaped"} \union Alive \union Ended
  /\ workersLock \in Cancellers \union {Free}
  /\ mutex \in Threads \union {Free}
  /\ workers \in {"none", "running", "cancelled", "done"}

Init ==
  /\ main = "construct" /\ cancel = [c \in Cancellers |-> "idle"]
  /\ term = [t \in Threads |-> "idle"] /\ polls = [t \in Threads |-> 0]
  /\ result = [t \in Threads |-> TRUE]
  /\ runner = FALSE /\ pid = FALSE /\ sem = 0 /\ semLive = FALSE
  /\ child = "none" /\ signalled = FALSE
  /\ workersLock = Free /\ mutex = Free
  /\ cancelled = FALSE /\ workers = "none"

process == <<child, signalled, sem>>
terminations == <<term, polls, result, mutex>>
locks == <<workersLock, cancel, cancelled>>

(***************************************************************************)
(* TerminateEncapSubProcess(): on every thread, under terminate_mutex_.     *)
(***************************************************************************)
Return(t, ok) ==
  /\ term' = [term EXCEPT ![t] = "idle"]
  /\ result' = [result EXCEPT ![t] = ok]
  /\ mutex' = Free

\* Nothing to do without a child.
TerminateCheck(t) ==
  /\ term[t] = "call" /\ mutex = Free
  /\ IF pid
       THEN /\ term' = [term EXCEPT ![t] = "kill"]
            /\ mutex' = t
            /\ UNCHANGED result
       ELSE Return(t, TRUE)
  /\ UNCHANGED <<main, polls, runner, pid, semLive, process, locks, workers>>

\* SIGTERM; ESRCH, for a child that is gone, is no error.
Sigterm(t) ==
  /\ term[t] = "kill"
  /\ signalled' = (child \in Alive \/ signalled)
  /\ polls' = [polls EXCEPT ![t] = 0]
  /\ term' = [term EXCEPT ![t] = "poll"]
  /\ UNCHANGED <<main, result, mutex, runner, pid, sem, semLive, child, locks, workers>>

\* Fault: a termination that does not note that there is no child any more.
ReapedKeepPid(t) ==
  /\ child \in Ended \union {"reaped"}
  /\ child' = "reaped"
  /\ Return(t, child # "crashed")
  /\ UNCHANGED <<pid, polls>>

\* waitpid() has the child's status, or finds nothing to reap; a status other
\* than a clean exit is an error.
Reaped(t) ==
  /\ child \in Ended \union {"reaped"}
  /\ child' = "reaped" /\ pid' = FALSE
  /\ Return(t, child # "crashed")
  /\ UNCHANGED polls

\* Fault: the wait for a graceful exit has no bound.
PollForever(t) ==
  /\ term[t] = "poll"
  /\ \/ Reaped(t)
     \/ child \in Alive /\ UNCHANGED <<child, pid, terminations>>
  /\ UNCHANGED <<main, runner, sem, semLive, signalled, locks, workers>>

Poll(t) ==
  /\ term[t] = "poll" /\ polls[t] < MaxPolls
  /\ \/ Reaped(t)
     \/ /\ child \in Alive
        /\ polls' = [polls EXCEPT ![t] = @ + 1]
        /\ UNCHANGED <<child, pid, term, result, mutex>>
  /\ UNCHANGED <<main, runner, sem, semLive, signalled, locks, workers>>

\* The child has not exited gracefully in time: SIGKILL.
Sigkill(t) ==
  /\ term[t] = "poll" /\ polls[t] = MaxPolls
  /\ child' = IF child \in Alive THEN "crashed" ELSE child
  /\ term' = [term EXCEPT ![t] = "reap"]
  /\ UNCHANGED <<main, polls, result, mutex, runner, pid, sem, semLive, signalled, locks, workers>>

WaitKilled(t) ==
  /\ term[t] = "reap"
  /\ Reaped(t)
  /\ UNCHANGED <<main, runner, sem, semLive, signalled, locks, workers>>

Terminate(t) ==
  TerminateCheck(t) \/ Sigterm(t) \/ Poll(t) \/ Sigkill(t) \/ WaitKilled(t)

Call(t) == term' = [term EXCEPT ![t] = "call"]

(***************************************************************************)
(* The main thread: runInternal() with a tunnel, then shutdown().           *)
(***************************************************************************)
\* run() is over, and the main thread goes on to shutdown().
RunReturns ==
  /\ main' = "shutdown"
  /\ IF runner THEN Call(Main) ELSE UNCHANGED term

\* The bootstrap of the tunnel can be refused, and then nothing is forked.
Construct ==
  /\ main = "construct"
  /\ \/ main' = "fork" /\ semLive' = TRUE /\ runner' = TRUE /\ UNCHANGED term
     \/ RunReturns /\ UNCHANGED <<semLive, runner>>
  /\ UNCHANGED <<polls, result, mutex, pid, process, locks, workers>>

\* The child exists before pid_ has its number.
Fork ==
  /\ main = "fork"
  /\ \/ main' = "forked" /\ child' = "starting" /\ UNCHANGED term
     \/ RunReturns /\ UNCHANGED child
  /\ UNCHANGED <<polls, result, mutex, runner, pid, sem, semLive, signalled, locks, workers>>

Forked ==
  /\ main = "forked"
  /\ main' = "semaphore" /\ pid' = TRUE
  /\ UNCHANGED <<terminations, runner, semLive, process, locks, workers>>

SemWait ==
  /\ main = "semaphore" /\ sem > 0
  /\ main' = "nighthawk" /\ sem' = sem - 1
  /\ UNCHANGED <<terminations, runner, pid, semLive, child, signalled, locks, workers>>

\* nighthawk_fn starts the workers and returns: at once when the run has been
\* cancelled, and with a failure when they cannot be set up.
Nighthawk ==
  /\ main = "nighthawk" /\ workersLock = Free
  /\ \/ cancelled /\ main' = "wait" /\ UNCHANGED <<workers, term>>
     \/ ~cancelled /\ main' = "wait" /\ workers' = "running" /\ UNCHANGED term
     \/ ~cancelled /\ RunReturns /\ UNCHANGED workers
  /\ UNCHANGED <<polls, result, mutex, runner, pid, process, semLive, locks>>

\* The workers complete by themselves or because they were cancelled.
WaitForCompletion ==
  /\ main = "wait" /\ term[Main] = "idle"
  /\ RunReturns
  /\ workers' = IF workers = "none" THEN "none" ELSE "done"
  /\ UNCHANGED <<polls, result, mutex, runner, pid, process, semLive, locks>>

\* A termination that failed is only logged.
Shutdown ==
  /\ main = "shutdown" /\ term[Main] = "idle" /\ workersLock = Free
  /\ main' = "clear"
  /\ UNCHANGED <<terminations, runner, pid, process, semLive, locks, workers>>

\* The owner of the Process waits for cancellations that are under way before
\* it destroys it.
Destroy ==
  /\ main = "clear" /\ \A c \in Cancellers : cancel[c] \in {"idle", "returned"}
  /\ main' = "destroy"
  /\ IF runner THEN Call(Main) ELSE UNCHANGED term
  /\ UNCHANGED <<polls, result, mutex, runner, pid, process, semLive, locks, workers>>

\* The semaphore is destroyed where pid_ is 0, which it is in the child.
DestroyRunner ==
  /\ main = "destroy" /\ term[Main] = "idle"
  /\ main' = "end" /\ runner' = FALSE
  /\ UNCHANGED <<terminations, pid, process, semLive, locks, workers>>

(***************************************************************************)
(* requestExecutionCancellation(), under workers_lock_.                     *)
(***************************************************************************)
CancelWorkers(c) ==
  /\ cancel[c] = "idle" /\ workersLock = Free /\ main \notin {"destroy", "end"}
  /\ workersLock' = c
  /\ workers' = IF workers = "running" THEN "cancelled" ELSE workers
  /\ IF runner
       THEN Call(c) /\ cancel' = [cancel EXCEPT ![c] = "locked"]
       ELSE UNCHANGED term /\ cancel' = [cancel EXCEPT ![c] = "terminated"]
  /\ UNCHANGED <<main, polls, result, mutex, runner, pid, process, semLive, cancelled>>

Terminated(c) ==
  /\ cancel[c] = "locked" /\ term[c] = "idle"
  /\ cancel' = [cancel EXCEPT ![c] = "terminated"]
  /\ UNCHANGED <<main, terminations, runner, pid, process, semLive, workersLock, cancelled, workers>>

\* A failed termination returns early, without noting the cancellation.
CancelReturns(c) ==
  /\ cancel[c] = "terminated"
  /\ cancel' = [cancel EXCEPT ![c] = "returned"]
  /\ workersLock' = Free
  /\ cancelled' = (cancelled \/ result[c])
  /\ UNCHANGED <<main, terminations, runner, pid, process, semLive, workers>>

Cancel(c) == CancelWorkers(c) \/ Terminated(c) \/ CancelReturns(c)

(***************************************************************************)
(* The child.                                                               *)
(***************************************************************************)
parent == <<main, terminations, runner, pid, semLive, locks, workers>>

\* Envoy has initialised, or threw: either way the semaphore is posted.
ChildStarts ==
  /\ child = "starting"
  /\ child' \in {"serving", "exited"}
  /\ sem' = sem + 1
  /\ UNCHANGED <<parent, signalled>>

\* SIGTERM: a serving Envoy exits.  One that is starting has the handlers it
\* inherited, the default ones, or Envoy's own: the signal is lost, kills it or
\* ends it before it has initialised.
ChildSignalled ==
  /\ signalled /\ signalled' = FALSE
  /\ \/ child = "serving" /\ child' = "exited"
     \/ child = "starting" /\ child' \in {"starting", "exited", "crashed"}
  /\ UNCHANGED <<parent, sem>>

ChildCrashes ==
  /\ MayCrash /\ child \in Alive
  /\ child' = "crashed"
  /\ UNCHANGED <<parent, signalled, sem>>

MainStep ==
  \/ Construct \/ Fork \/ Forked \/ SemWait \/ Nighthawk \/ WaitForCompletion
  \/ Shutdown \/ Destroy \/ DestroyRunner

Next ==
  \/ MainStep
  \/ \E t \in Threads : Terminate(t)
  \/ \E c \in Cancellers : Cancel(c)
  \/ ChildStarts \/ ChildSignalled \/ ChildCrashes

Spec == Init /\ [][Next]_vars

\* The threads run; of the child, and of the arrival of cancellations, nothing
\* is assumed.
FairSpec ==
  /\ Spec
  /\ WF_vars(MainStep)
  /\ \A t \in Threads : WF_vars(Terminate(t))
  /\ \A c \in Cancellers : WF_vars(Terminated(c) \/ CancelReturns(c))

----------------------------------------------------------------------------
\* A child never outlives its run, nor stays behind as a zombie: when the main
\* thread is through it has been reaped, however it ended and whoever else was
\* terminating it.
NoChildLeft == main = "end" => child \in {"none", "reaped"}

\* A signal is only ever sent to a child that has not been reaped (its number
\* may be another process's by then), although the cancellation and shutdown()
\* may both be terminating it.
SignalsOnlyItsChild ==
  \A t \in Threads : term[t] \in {"kill", "poll", "reap"} => child # "reaped"

\* The tunnel outlives the load test: while its workers run, and were not told to
\* stop by a cancellation, nobody is terminating the child.
TunnelOutlivesTest ==
  workers = "running" => \A t \in Threads : term[t] = "idle"

\* The child is there for its run and for no longer, whoever takes it down.
ChildKept == TypeOK /\ NoChildLeft /\ SignalsOnlyItsChild /\ TunnelOutlivesTest

\* Every termination ends, also of a child that never answers: the caller may
\* be a handler of the service.
TerminationEnds ==
  \A t \in Threads : term[t] # "idle" ~> term[t] = "idle"
============================================================================
