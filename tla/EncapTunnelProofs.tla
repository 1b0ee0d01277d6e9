------------------------- MODULE EncapTunnelProofs -------------------------
(***************************************************************************)
(* Proofs about the tunnel's child process, for any number of cancellations *)
(* and any number of attempts to reap it.  What keeps a signal from going   *)
(* to a process that is not the child is that pid_ is read and cleared      *)
(* under terminate_mutex_; what keeps a child from being left is that pid_  *)
(* is only cleared by the one who reaped it.                                *)
(***************************************************************************)
EXTENDS EncapTunnel, TLAPS

\* A thread that has found pid_ set and is not through with the child.
Terminating(t) == term[t] \in {"kill", "poll", "reap"}

Typed ==
  /\ term \in [Threads -> {"idle", "call", "kill", "poll", "reap"}]
  /\ cancel \in [Cancellers -> {"idle", "locked", "terminated", "returned"}]
  /\ child \in {"none", "reaped"} \union Alive \union Ended

\* terminate_mutex_ is held by the thread that is terminating, and pid_ stands
\* as long as it is held.
Exclusive ==
  /\ \A t \in Threads : Terminating(t) <=> mutex = t
  /\ mutex # Free => mutex \in Threads /\ pid

\* pid_ names a child that has not been reaped, and there is no other child but
\* the one whose number fork() is about to return.
PidIsChild ==
  /\ pid => child \in Alive \union Ended
  /\ child \in Alive \union Ended => pid \/ main = "forked"
  /\ main \in {"construct", "fork"} => child = "none"
  /\ main = "forked" => child \in Alive \union Ended /\ ~pid

\* The main thread has a runner to terminate the child with, until it has none.
RunnerForChild ==
  /\ main # "end" /\ child # "none" => runner
  /\ main = "fork" => runner
  /\ term[Main] # "idle" => main \in {"shutdown", "destroy"}
  /\ main = "shutdown" /\ term[Main] = "idle" => ~pid
  /\ main \in {"clear", "destroy", "end"} => ~pid

\* A cancellation terminates the child under workers_lock_, which the start of
\* the workers takes too.
CancelLocked ==
  \A c \in Cancellers :
     /\ term[c] # "idle" => cancel[c] = "locked"
     /\ cancel[c] \in {"locked", "terminated"} => workersLock = c

\* Workers that run have not been cancelled.
Undisturbed ==
  workers = "running" => main = "wait" /\ \A c \in Cancellers : term[c] = "idle"

IInv ==
  Typed /\ Exclusive /\ PidIsChild /\ RunnerForChild /\ CancelLocked /\ Undisturbed

----------------------------------------------------------------------------
\* The threads are told apart by their names, and none is called free.
LEMMA ThreadNames ==
  /\ Main \in Threads /\ Free \notin Threads
  /\ \A c \in Cancellers : c \in Threads /\ c # Main
BY TunnelAssumption, Zenon DEF Threads, Main, Free

\* Before the run there is neither a child nor anyone to terminate it.
LEMMA InitIInv == Init => IInv
BY ThreadNames DEF Init, IInv, Typed, Exclusive, PidIsChild, RunnerForChild, CancelLocked,
                   Undisturbed, Terminating, Alive, Ended

\* What TerminateEncapSubProcess() does on one thread keeps the invariant: the
\* mutex changes hands only with the thread's own progress, and pid_ is cleared
\* with the child reaped.
LEMMA TerminateKeeps == ASSUME NEW t \in Threads, IInv, Terminate(t) PROVE IInv'
  <1> USE ThreadNames
  <1> USE DEF IInv, Typed, Exclusive, PidIsChild, RunnerForChild, CancelLocked, Undisturbed,
              Terminating, Alive, Ended
  <1>1. CASE TerminateCheck(t)
    BY <1>1 DEF TerminateCheck, Return, process, locks
  <1>2. CASE Sigterm(t)
    BY <1>2 DEF Sigterm, locks
  <1>3. CASE Poll(t)
    BY <1>3 DEF Poll, Reaped, Return, locks
  <1>4. CASE Sigkill(t)
    BY <1>4 DEF Sigkill, locks
  <1>5. CASE WaitKilled(t)
    BY <1>5 DEF WaitKilled, Reaped, Return, locks
  <1> QED BY <1>1, <1>2, <1>3, <1>4, <1>5 DEF Terminate

\* Every step keeps the invariant.
LEMMA NextIInv == IInv /\ [Next]_vars => IInv'
  <1> SUFFICES ASSUME IInv, [Next]_vars PROVE IInv'
    OBVIOUS
  <1> USE ThreadNames
  <1> USE DEF IInv, Typed, Exclusive, PidIsChild, RunnerForChild, CancelLocked, Undisturbed,
              Terminating, Alive, Ended
  <1>1. CASE Construct
    BY <1>1 DEF Construct, RunReturns, Call, process, locks
  <1>2. CASE Fork
    BY <1>2 DEF Fork, RunReturns, Call, locks
  <1>3. CASE Forked
    BY <1>3 DEF Forked, terminations, process, locks
  <1>4. CASE SemWait
    BY <1>4 DEF SemWait, terminations, locks
  <1>5. CASE Nighthawk
    BY <1>5 DEF Nighthawk, RunReturns, Call, process, locks
  <1>6. CASE WaitForCompletion
    BY <1>6 DEF WaitForCompletion, RunReturns, Call, process, locks
  <1>7. CASE Shutdown
    BY <1>7 DEF Shutdown, terminations, process, locks
  <1>8. CASE Destroy
    BY <1>8 DEF Destroy, Call, process, locks
  <1>9. CASE DestroyRunner
    BY <1>9 DEF DestroyRunner, terminations, process, locks
  <1>10. ASSUME NEW t \in Threads, Terminate(t) PROVE IInv'
    BY <1>10, TerminateKeeps
  <1>11. ASSUME NEW c \in Cancellers, CancelWorkers(c) PROVE IInv'
    BY <1>11 DEF CancelWorkers, Call, process
  <1>12. ASSUME NEW c \in Cancellers, Terminated(c) PROVE IInv'
    BY <1>12 DEF Terminated, terminations, process
  <1>13. ASSUME NEW c \in Cancellers, CancelReturns(c) PROVE IInv'
    BY <1>13 DEF CancelReturns, terminations, process
  <1>14. CASE ChildStarts
    BY <1>14 DEF ChildStarts, parent, terminations, locks
  <1>15. CASE ChildSignalled
    BY <1>15 DEF ChildSignalled, parent, terminations, locks
  <1>16. CASE ChildCrashes
    BY <1>16 DEF ChildCrashes, parent, terminations, locks
  <1>17. CASE UNCHANGED vars
    BY <1>17 DEF vars
  <1> QED BY <1>1, <1>2, <1>3, <1>4, <1>5, <1>6, <1>7, <1>8, <1>9, <1>10, <1>11, <1>12,
             <1>13, <1>14, <1>15, <1>16, <1>17, Zenon DEF Next, MainStep, Cancel

\* In every behaviour, for every number of cancellations and of attempts.
LEMMA IInvHolds == Spec => []IInv
BY InitIInv, NextIInv, PTL DEF Spec

\* When the main thread is through, the child has been reaped, whoever reaped it.
THEOREM NoChildLeftHolds == Spec => []NoChildLeft
  <1>1. IInv => NoChildLeft
    BY DEF IInv, Typed, PidIsChild, RunnerForChild, NoChildLeft
  <1> QED BY <1>1, IInvHolds, PTL

\* A signal is only sent to a child that has not been reaped, however many
\* threads are terminating it.
THEOREM SignalsOnlyItsChildHolds == Spec => []SignalsOnlyItsChild
  <1>1. IInv => SignalsOnlyItsChild
    BY ThreadNames DEF IInv, Exclusive, PidIsChild, Terminating, SignalsOnlyItsChild, Alive, Ended
  <1> QED BY <1>1, IInvHolds, PTL

\* The tunnel stands while the workers of an uncancelled run do: starting them
\* and terminating the child exclude each other through workers_lock_.
THEOREM TunnelOutlivesTestHolds == Spec => []TunnelOutlivesTest
  <1>1. IInv => TunnelOutlivesTest
    BY DEF IInv, RunnerForChild, Undisturbed, TunnelOutlivesTest, Threads
  <1> QED BY <1>1, IInvHolds, PTL

----------------------------------------------------------------------------
\* The semaphore is posted at most once, by the child that has started.
Posted == child \in {"none", "starting"} => sem = 0

TInv == TypeOK /\ Posted

\* The variables start with values of their types.
LEMMA InitTInv == Init => TInv
  <1> SUFFICES ASSUME Init PROVE TInv
    OBVIOUS
  <1> USE TunnelAssumption, ThreadNames DEF Init
  <1>1. result \in [Threads -> BOOLEAN]
    OBVIOUS
  <1>2. /\ runner \in BOOLEAN /\ pid \in BOOLEAN /\ semLive \in BOOLEAN
        /\ signalled \in BOOLEAN /\ cancelled \in BOOLEAN
    BY Zenon
  <1> QED BY <1>1, <1>2 DEF TInv, TypeOK, Posted, Alive, Ended

\* A termination keeps the types: the attempts to reap the child are counted no
\* further than their bound.
LEMMA TerminateTyped == ASSUME NEW t \in Threads, TInv, Terminate(t) PROVE TInv'
  <1> USE TunnelAssumption, ThreadNames DEF TInv, TypeOK, Posted, Alive, Ended
  <1>1. CASE TerminateCheck(t)
    <2>1. result' \in [Threads -> BOOLEAN]
      BY <1>1, Zenon DEF TerminateCheck, Return, process, locks
    <2> QED BY <1>1, <2>1 DEF TerminateCheck, Return, process, locks
  <1>2. CASE Sigterm(t)
    <2>1. signalled' \in BOOLEAN
      BY <1>2, Zenon DEF Sigterm, locks
    <2> QED BY <1>2, <2>1 DEF Sigterm, locks
  <1>3. CASE Poll(t)
    <2>1. result' \in [Threads -> BOOLEAN] /\ pid' \in BOOLEAN
      BY <1>3, Zenon DEF Poll, Reaped, Return, locks
    <2> QED BY <1>3, <2>1 DEF Poll, Reaped, Return, locks
  <1>4. CASE Sigkill(t)
    BY <1>4 DEF Sigkill, locks
  <1>5. CASE WaitKilled(t)
    <2>1. result' \in [Threads -> BOOLEAN] /\ pid' \in BOOLEAN
      BY <1>5, Zenon DEF WaitKilled, Reaped, Return, locks
    <2> QED BY <1>5, <2>1 DEF WaitKilled, Reaped, Return, locks
  <1> QED BY <1>1, <1>2, <1>3, <1>4, <1>5 DEF Terminate

\* Every step keeps the types; that the semaphore is posted once needs that a
\* child is forked where there has been none.
LEMMA NextTInv == IInv /\ TInv /\ [Next]_vars => TInv'
  <1> SUFFICES ASSUME IInv, TInv, [Next]_vars PROVE TInv'
    OBVIOUS
  <1> USE ThreadNames DEF TInv, TypeOK, Posted, Alive, Ended
  <1>1. CASE Construct
    <2>1. runner' \in BOOLEAN /\ semLive' \in BOOLEAN
      BY <1>1, Zenon DEF Construct, RunReturns, Call, process, locks
    <2> QED BY <1>1, <2>1 DEF Construct, RunReturns, Call, process, locks
  <1>2. CASE Fork
    BY <1>2 DEF IInv, PidIsChild, Fork, RunReturns, Call, locks
  <1>3. CASE Forked
    BY <1>3 DEF Forked, terminations, process, locks
  <1>4. CASE SemWait
    BY <1>4 DEF SemWait, terminations, locks
  <1>5. CASE Nighthawk
    BY <1>5 DEF Nighthawk, RunReturns, Call, process, locks
  <1>6. CASE WaitForCompletion
    BY <1>6 DEF WaitForCompletion, RunReturns, Call, process, locks
  <1>7. CASE Shutdown
    BY <1>7 DEF Shutdown, terminations, process, locks
  <1>8. CASE Destroy
    BY <1>8 DEF Destroy, Call, process, locks
  <1>9. CASE DestroyRunner
    <2>1. runner' \in BOOLEAN
      BY <1>9, Zenon DEF DestroyRunner
    <2> QED BY <1>9, <2>1 DEF DestroyRunner, terminations, process, locks
  <1>10. ASSUME NEW t \in Threads, Terminate(t) PROVE TInv'
    BY <1>10, TerminateTyped
  <1>11. ASSUME NEW c \in Cancellers, CancelWorkers(c) PROVE TInv'
    BY <1>11 DEF CancelWorkers, Call, process
  <1>12. ASSUME NEW c \in Cancellers, Terminated(c) PROVE TInv'
    BY <1>12 DEF Terminated, terminations, process
  <1>13. ASSUME NEW c \in Cancellers, CancelReturns(c) PROVE TInv'
    <2>1. cancelled' \in BOOLEAN
      BY <1>13, Zenon DEF CancelReturns, terminations, process
    <2> QED BY <1>13, <2>1 DEF CancelReturns, terminations, process
  <1>14. CASE ChildStarts
    BY <1>14 DEF ChildStarts, parent, terminations, locks
  <1>15. CASE ChildSignalled
    <2>1. signalled' \in BOOLEAN
      BY <1>15, Zenon DEF ChildSignalled, parent, terminations, locks
    <2> QED BY <1>15, <2>1 DEF ChildSignalled, parent, terminations, locks
  <1>16. CASE ChildCrashes
    BY <1>16 DEF ChildCrashes, parent, terminations, locks
  <1>17. CASE UNCHANGED vars
    BY <1>17 DEF vars
  <1> QED BY <1>1, <1>2, <1>3, <1>4, <1>5, <1>6, <1>7, <1>8, <1>9, <1>10, <1>11, <1>12,
             <1>13, <1>14, <1>15, <1>16, <1>17, Zenon DEF Next, MainStep, Cancel

\* The child is there for its run and for no longer, whichever of the threads
\* that may take it down does.
THEOREM ChildKeptHolds == Spec => []ChildKept
  <1>1. Init => TInv
    BY InitTInv
  <1>2. IInv /\ TInv /\ [Next]_vars => TInv'
    BY NextTInv
  <1>3. Spec => []TInv
    BY <1>1, <1>2, IInvHolds, PTL DEF Spec
  <1>4. TInv /\ NoChildLeft /\ SignalsOnlyItsChild /\ TunnelOutlivesTest => ChildKept
    BY DEF TInv, ChildKept
  <1> QED BY <1>3, <1>4, NoChildLeftHolds, SignalsOnlyItsChildHolds, TunnelOutlivesTestHolds, PTL
============================================================================
