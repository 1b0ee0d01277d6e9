---------------------------- MODULE EngineProofs ----------------------------
(***************************************************************************)
(* Proofs about the engine's process: the handling of signals, for any     *)
(* number of them, and the threads of an execution, for any workers, with  *)
(* or without stats sinks, and for any number of snapshots.                *)
(***************************************************************************)
EXTENDS MCEngine, FiniteSetTheorems, TLAPS

(***************************************************************************)
(* The threads of an execution                                             *)
(***************************************************************************)
\* Where a worker can be while the main thread is at a given place: the main
\* thread's waits are what makes each of them true.
WorkerInv ==
    \A w \in Workers :
        /\ main = "built" => worker[w] = "none"
        /\ main = "creating" => worker[w] = "created"
        /\ main = "waiting" => worker[w] \in {"none", "started", "working", "complete"}
        /\ main \in {"exitFlush", "joinFlush", "collecting"} =>
              worker[w] \in {"none", "complete"}
        /\ main \in {"returned", "flushing"} => worker[w] \in {"none", "created", "complete"}
        /\ main = "joining" => worker[w] \in {"none", "created", "complete", "ended"}
        /\ main = "shut" => worker[w] \in {"none", "created", "ended"}
        /\ main \notin {"joining", "shut"} => w \notin signalled
        /\ flush # "none" => worker[w] # "created"
        /\ workersRunning => worker[w] # "none"

\* Where the flush worker can be.
FlushInv ==
    /\ main \in {"built", "creating"} => flush = "none"
    /\ main \in {"exitFlush", "joinFlush"} => flush # "none"
    /\ main \in {"collecting", "returned"} => flush \in {"none", "complete"}
    /\ main = "flushing" => flush \in {"none", "complete", "ended"}
    /\ main \in {"joining", "shut"} => flush \in {"none", "ended"}
    /\ flushSignalled => main \in {"flushing", "joining", "shut"}
    /\ flush = "ended" => main \in {"flushing", "joining", "shut"}
    /\ workersRunning => main = "waiting"

\* The inductive invariant.
ProcessInv == TypeOK /\ WorkerInv /\ FlushInv /\ AnswersAreThisSnapshots

-----------------------------------------------------------------------------
\* The steps of the main thread keep the invariant.
LEMMA MainKeeps == ProcessInv /\ Main => ProcessInv'
<1> SUFFICES ASSUME ProcessInv, Main PROVE ProcessInv'
  OBVIOUS
<1> USE MaxSnapshotsNat, StatsSinksBoolean
    DEF ProcessInv, TypeOK, WorkerInv, FlushInv, AnswersAreThisSnapshots, MainPcs,
        MainStep,
        workerVars, cancelVars, snapshotVars, flushVars
<1>1. CASE RunFailsEarly
  BY <1>1, Zenon DEF RunFailsEarly
<1>2. CASE CreateWorkers
  BY <1>2 DEF CreateWorkers
<1>3. CASE BuildFails
  BY <1>3, Zenon DEF BuildFails
<1>4. CASE StartWorkers
  BY <1>4, Zenon DEF StartWorkers
<1>5. CASE WaitForCompletion
  BY <1>5, Zenon DEF WaitForCompletion, AllAt, Existing
<1>6. CASE ExitFlushDispatcher
  BY <1>6, Zenon DEF ExitFlushDispatcher
<1>7. CASE WaitForFlush
  BY <1>7, Zenon DEF WaitForFlush
<1>8. CASE Collect
  BY <1>8, Zenon DEF Collect
<1>9. CASE SignalFlush
  BY <1>9, Zenon DEF SignalFlush
<1>10. CASE SignalWorkers
  BY <1>10, Zenon DEF SignalWorkers, Existing
<1>11. CASE JoinWorkers
  BY <1>11, Zenon DEF JoinWorkers, Existing
<1> QED
  BY <1>1, <1>2, <1>3, <1>4, <1>5, <1>6, <1>7, <1>8, <1>9, <1>10, <1>11, Zenon DEF Main

\* So do a worker's steps.
LEMMA WorkerKeeps == ASSUME NEW w \in Workers PROVE ProcessInv /\ Worker(w) => ProcessInv'
<1> SUFFICES ASSUME ProcessInv, Worker(w) PROVE ProcessInv'
  OBVIOUS
<1> USE MaxSnapshotsNat
    DEF ProcessInv, TypeOK, WorkerInv, FlushInv, AnswersAreThisSnapshots, MainPcs,
        WorkerStep,
        workerVars, cancelVars, snapshotVars, flushVars
<1>1. CASE Begin(w)
  BY <1>1 DEF Begin
<1>2. CASE RunCancellation(w)
  BY <1>2 DEF RunCancellation
<1>3. CASE RunSnapshot(w)
  BY <1>3 DEF RunSnapshot
<1>4. CASE Complete(w)
  BY <1>4 DEF Complete
<1>5. CASE ExitThread(w)
  BY <1>5 DEF ExitThread
<1> QED
  BY <1>1, <1>2, <1>3, <1>4, <1>5, Zenon DEF Worker

\* And those of the flush worker, the canceller and the snapshots.
LEMMA OthersKeep ==
    ProcessInv /\ (Flush \/ RequestExecutionCancellation \/ BeginSnapshot \/ EndSnapshot) => ProcessInv'
<1> SUFFICES ASSUME ProcessInv,
                    Flush \/ RequestExecutionCancellation \/ BeginSnapshot \/ EndSnapshot
             PROVE ProcessInv'
  OBVIOUS
<1> USE MaxSnapshotsNat
    DEF ProcessInv, TypeOK, WorkerInv, FlushInv, AnswersAreThisSnapshots, MainPcs,
        workerVars, cancelVars, snapshotVars, flushVars
<1>1. CASE Flush
  <2>1. CASE FlushBegin
    BY <2>1, Zenon DEF FlushBegin, FlushStep
  <2>2. CASE FlushComplete
    BY <2>2, Zenon DEF FlushComplete, FlushStep
  <2>3. CASE FlushExit
    BY <2>3, Zenon DEF FlushExit, FlushStep
  <2> QED
    BY <1>1, <2>1, <2>2, <2>3, Zenon DEF Flush
<1>2. CASE RequestExecutionCancellation
  BY <1>2 DEF RequestExecutionCancellation, Existing
<1>3. CASE BeginSnapshot
  BY <1>3 DEF BeginSnapshot
<1>4. CASE EndSnapshot
  <2>1. TypeOK'
    BY <1>4, Zenon DEF EndSnapshot
  <2> QED BY <1>4, <2>1, Zenon DEF EndSnapshot
<1> QED
  BY <1>1, <1>2, <1>3, <1>4, Zenon

\* The invariant holds in every reachable state.
THEOREM ProcessInvHolds == Spec => []ProcessInv
<1>1. Init => ProcessInv
  <2> SUFFICES ASSUME Init PROVE ProcessInv
    OBVIOUS
  <2>1. TypeOK
    <3>1. {cancelled, workersRunning, waiting, flushSignalled, exitAsked} \subseteq BOOLEAN
      BY Zenon DEF Init
    <3>2. worker \in [Workers -> {"none", "created", "started", "working", "complete", "ended"}]
      BY DEF Init
    <3>3. snapshotPosts \in [Workers -> SUBSET (1 .. MaxSnapshots)] /\ taken \in 0 .. MaxSnapshots
      BY MaxSnapshotsNat DEF Init
    <3> QED
      BY <3>1, <3>2, <3>3 DEF Init, TypeOK, MainPcs
  <2>2. WorkerInv /\ FlushInv
    BY DEF Init, WorkerInv, FlushInv
  <2>3. AnswersAreThisSnapshots
    BY DEF Init, AnswersAreThisSnapshots
  <2> QED
    BY <2>1, <2>2, <2>3 DEF ProcessInv
<1>2. ProcessInv /\ [Next]_vars => ProcessInv'
  <2>1. ASSUME ProcessInv, UNCHANGED vars PROVE ProcessInv'
    <3> USE <2>1 DEF vars, workerVars, cancelVars, snapshotVars, flushVars
    <3>1. TypeOK'
      BY Zenon DEF ProcessInv, TypeOK
    <3>2. WorkerInv'
      BY Zenon DEF ProcessInv, WorkerInv
    <3>3. FlushInv'
      BY Zenon DEF ProcessInv, FlushInv
    <3>4. AnswersAreThisSnapshots'
      BY DEF ProcessInv, AnswersAreThisSnapshots
    <3> QED
      BY <3>1, <3>2, <3>3, <3>4, Zenon DEF ProcessInv
  <2> QED
    BY <2>1, MainKeeps, WorkerKeeps, OthersKeep DEF Next
<1> QED
  BY <1>1, <1>2, PTL DEF Spec

-----------------------------------------------------------------------------
\* Types (in particular a job is only ever queued for a snapshot that was taken);
\* run() reads its results from completed, undisturbed workers, after the flush
\* worker has left its dispatcher; workers_running_, which snapshot() trusts, holds
\* only while every worker has a thread that was not told to exit; and shutdown()
\* leaves no thread of the process behind.
THEOREM InStep == Spec => []WorkersInStep
<1>1. ProcessInv => TypeOK
  BY DEF ProcessInv
<1>2. ProcessInv => CollectsQuiescent
  BY DEF ProcessInv, WorkerInv, FlushInv, CollectsQuiescent, AllAt, Existing
<1>3. ProcessInv => RunningMeansRunning
  BY DEF ProcessInv, WorkerInv, FlushInv, RunningMeansRunning
<1>4. ProcessInv => NoThreadOutlivesShutdown
  BY DEF ProcessInv, WorkerInv, FlushInv, NoThreadOutlivesShutdown
<1> QED
  BY <1>1, <1>2, <1>3, <1>4, ProcessInvHolds, PTL DEF WorkersInStep

\* The statistics a snapshot is given are the ones it asked for, never those of
\* an earlier, abandoned snapshot (PendingSnapshot).
THEOREM SnapshotAnswersCorrect == Spec => []AnswersAreThisSnapshots
<1>1. ProcessInv => AnswersAreThisSnapshots
  BY DEF ProcessInv
<1> QED
  BY <1>1, ProcessInvHolds, PTL

\* The last stats flush comes after every worker's work and before any worker's
\* shutdown (the order of shutdown()).
THEOREM LastFlushComplete == Spec => LastFlushHasAllMetrics
<1>1. ProcessInv /\ [Next]_vars =>
        [flush # "ended" /\ flush' = "ended" => AllAt("complete") /\ signalled = {}]_vars
  <2> SUFFICES ASSUME ProcessInv, Next, flush # "ended", flush' = "ended"
               PROVE AllAt("complete") /\ signalled = {}
    OBVIOUS
  <2>1. FlushExit
    BY Zenon DEF Next, Main, MainStep, RunFailsEarly, CreateWorkers, BuildFails,
       StartWorkers, WaitForCompletion, ExitFlushDispatcher, WaitForFlush, Collect,
       SignalFlush, SignalWorkers, JoinWorkers, Worker, WorkerStep, Begin, RunCancellation,
       RunSnapshot, Complete, ExitThread, RequestExecutionCancellation, BeginSnapshot,
       EndSnapshot, Flush, FlushBegin, FlushComplete, FlushStep, workerVars, cancelVars,
       snapshotVars, flushVars
  <2>2. main = "flushing"
    BY <2>1 DEF FlushExit, FlushStep, ProcessInv, FlushInv
  <2> QED
    BY <2>1, <2>2 DEF FlushExit, FlushStep, ProcessInv, TypeOK, WorkerInv, AllAt, Existing
<1> QED
  BY <1>1, ProcessInvHolds, PTL DEF Spec, LastFlushHasAllMetrics

(***************************************************************************)
(* Signals                                                                 *)
(***************************************************************************)
\* Some signal has arrived.
Signalled == \E a \in Arrivals : arrival[a] # "none"

Typed ==
    /\ arrival \in [Arrivals -> {"none", "entered", "found", "open", "done"}]
    /\ thread \in {"read", "closeRead", "closeWrite", "forget", "check", "restore",
                   "call", "calling", "exited"}
    /\ bytes \in Nat /\ calls \in Nat

\* The flag is set from the first step of the destructor on.
Destructing == mainThread \notin {"run", "shutdown", "destroy"} => destructing

\* A byte in the pipe, and a thread that has read one, is a signal's or the destructor's; the
\* callback is a signal's.
Cause ==
    /\ bytes > 0 \/ thread # "read" => Signalled \/ destructing
    /\ thread \in {"restore", "call", "calling"} \/ calls > 0 => Signalled

\* The dispositions are restored by the thread, one by one and before the callback, or by the
\* destructor.
Dispositions ==
    /\ installed \in {Signal!Kinds, {"SIGINT"}, {}}
    /\ installed = {"SIGINT"} => thread \in {"restore", "exited"}
    /\ installed # Signal!Kinds =>
           \/ thread \in {"restore", "call", "calling", "exited"}
           \/ mainThread \in {"wake", "write", "join", "clear", "done"}
    /\ thread \in {"call", "calling"} => installed = {}
    /\ mainThread \in {"wake", "write", "join", "clear", "done"} => installed = {}

JoinedFirst == mainThread \in {"clear", "done"} => thread = "exited"

SignalInv == Typed /\ Destructing /\ Cause /\ Dispositions /\ JoinedFirst

\* Who has written to the pipe, at most: the handlers that are through, and the destructor.
Through == {a \in Arrivals : arrival[a] = "done"}
WokenBy == IF mainThread \in {"join", "clear", "done"} THEN 1 ELSE 0

\* What is written is bounded, and the thread, which does not come back to the call, calls once.
Bounds ==
    /\ mainThread \in {"run", "shutdown", "destroy", "restore", "wake", "write", "join", "clear",
                      "done"}
    /\ fate \in {"alive", "default action", "write failed", "empty delegate"}
    /\ calls \in 0 .. 1 /\ (calls = 1 => thread \in {"calling", "exited"})
    /\ bytes <= Cardinality(Through) + WokenBy

Flags == {delegate, destructing, readEnd, writeEnd, sized} \subseteq BOOLEAN

-----------------------------------------------------------------------------
\* The constructor's state: both signals are taken over, nothing has arrived.
LEMMA InitSignalInv == Signal!Init => SignalInv
  <1> SUFFICES ASSUME Signal!Init PROVE SignalInv
    OBVIOUS
  <1>1. Typed /\ Destructing /\ JoinedFirst
    BY DEF Signal!Init, Typed, Destructing, JoinedFirst
  <1>2. Cause
    BY DEF Signal!Init, Cause
  <1>3. Dispositions
    BY DEF Signal!Init, Dispositions, Signal!TakenOver, Signal!Kinds
  <1> QED BY <1>1, <1>2, <1>3 DEF SignalInv

\* A handler that runs, and a signal that arrives, leave the thread and the dispositions alone.
LEMMA HandlerKeeps ==
    ASSUME NEW a \in Arrivals, SignalInv, Signal!Handler(a) \/ \E kind \in Signal!Kinds : Signal!Arrive(a, kind)
    PROVE  SignalInv'
  <1>1. UNCHANGED <<mainThread, thread, installed, destructing, calls>>
    BY Zenon DEF Signal!Handler, Signal!FindDelegate, Signal!CallDelegate,
        Signal!SignalWrites, Signal!Arrive
  <1>2. /\ arrival' \in [Arrivals -> {"none", "entered", "found", "open", "done"}]
        /\ \A b \in Arrivals : arrival[b] # "none" => arrival'[b] # "none"
    BY Zenon DEF Signal!Handler, Signal!FindDelegate, Signal!CallDelegate,
        Signal!SignalWrites, Signal!Arrive, SignalInv, Typed
  <1>3. bytes' = bytes \/ (bytes' = bytes + 1 /\ arrival[a] # "none")
    <2>1. CASE Signal!FindDelegate(a) \/ Signal!CallDelegate(a) \/ \E kind \in Signal!Kinds : Signal!Arrive(a, kind)
      BY <2>1, Zenon DEF Signal!FindDelegate, Signal!CallDelegate, Signal!Arrive,
          Signal!pipe
    <2>2. CASE Signal!SignalWrites(a)
      BY <2>2, Zenon DEF Signal!SignalWrites, Signal!WriteToPipe
    <2> QED BY <2>1, <2>2 DEF Signal!Handler
  <1>4. Signalled => Signalled'
    BY <1>2 DEF Signalled
  <1>5. Cause'
    BY <1>1, <1>2, <1>3, <1>4 DEF Cause, SignalInv, Typed, Signalled
  <1> QED BY <1>1, <1>2, <1>3, <1>5 DEF SignalInv, Typed, Destructing, Dispositions,
      JoinedFirst

\* Every step keeps the invariant.
LEMMA NextSignalInv == SignalInv /\ [Signal!Next]_(Signal!vars) => SignalInv'
  <1> SUFFICES ASSUME SignalInv, [Signal!Next]_(Signal!vars) PROVE SignalInv'
    OBVIOUS
  <1> USE DEF SignalInv, Typed, Destructing, Cause, Dispositions, JoinedFirst,
      Signalled, Signal!Kinds
  <1>1. ASSUME NEW a \in Arrivals, Signal!Handler(a) \/ \E kind \in Signal!Kinds : Signal!Arrive(a, kind) PROVE SignalInv'
    BY <1>1, HandlerKeeps
  <1>2. CASE Signal!MainThread
    BY <1>2 DEF Signal!MainThread, Signal!RunAndShutDown, Signal!pipe
  <1>3. CASE Signal!Destructor
    <2>1. UNCHANGED <<thread, arrival, calls>>
      BY <1>3 DEF Signal!Destructor
    <2>2. bytes' = bytes \/ (bytes' = bytes + 1 /\ mainThread = "write")
      BY <1>3, Zenon DEF Signal!Destructor, Signal!Destroy, Signal!WriteToPipe,
          Signal!pipe
    <2>3. \/ mainThread = "destroy" /\ mainThread' = "restore" /\ destructing' /\ UNCHANGED installed
          \/ mainThread = "restore" /\ mainThread' = "wake" /\ installed' = {} /\ UNCHANGED destructing
          \/ mainThread \in {"wake", "write"} /\ mainThread' \in {"write", "join"}
             /\ UNCHANGED <<installed, destructing>>
          \/ mainThread = "join" /\ mainThread' = "clear" /\ thread = "exited"
             /\ UNCHANGED <<installed, destructing>>
          \/ mainThread = "clear" /\ mainThread' = "done" /\ UNCHANGED <<installed, destructing>>
      BY <1>3 DEF Signal!Destructor, Signal!Destroy, Signal!Joined
    <2>4. (Typed /\ Destructing /\ JoinedFirst)'
      BY <2>1, <2>2, <2>3
    <2>5. Cause'
      BY <2>1, <2>2, <2>3
    <2>6. Dispositions'
      BY <2>1, <2>3, Zenon
    <2> QED BY <2>4, <2>5, <2>6
  <1>4. CASE Signal!Read
    BY <1>4 DEF Signal!Read
  <1>5. CASE Signal!Close
    BY <1>5 DEF Signal!Close
  <1>6. CASE Signal!Check
    BY <1>6 DEF Signal!Check, Signal!Wanted, Signal!pipe
  <1>7. CASE Signal!RestoreThenCall
    <2>1. UNCHANGED <<mainThread, arrival, destructing, bytes>>
      BY <1>7 DEF Signal!RestoreThenCall, Signal!pipe
    <2>2. CASE thread = "call"
      <3>1. thread' = "calling" /\ calls' = calls + 1 /\ installed' = installed
        BY <1>7, <2>2 DEF Signal!RestoreThenCall
      <3>2. installed = {} /\ mainThread \notin {"clear", "done"}
        BY <2>2
      <3> QED BY <2>1, <2>2, <3>1, <3>2
    <2>3. CASE thread = "restore"
      <3>1. calls' = calls /\ thread' = Signal!AfterRestore /\ Signal!Restored
        BY <1>7, <2>3 DEF Signal!RestoreThenCall
      <3>2. CASE installed = Signal!Kinds
        <4>1. thread' = "restore" /\ installed' = {"SIGINT"}
          BY <3>1, <3>2 DEF Signal!AfterRestore, Signal!Restored
        <4>2. Signal!Kinds # {}
          OBVIOUS
        <4> QED BY <2>1, <2>3, <3>1, <3>2, <4>1, <4>2
      <3>3. CASE installed \in {{"SIGINT"}, {}}
        <4>1. thread' = "call" /\ installed' = {}
          BY <3>1, <3>3 DEF Signal!AfterRestore, Signal!Restored
        <4> QED BY <2>1, <2>3, <3>1, <4>1
      <3> QED BY <3>2, <3>3
    <2> QED BY <1>7, <2>2, <2>3 DEF Signal!RestoreThenCall
  <1>8. CASE Signal!CallbackReturns
    BY <1>8 DEF Signal!CallbackReturns, Signal!AfterCallback, Signal!pipe
  <1>9. CASE UNCHANGED Signal!vars
    BY <1>9 DEF Signal!vars, Signal!pipe
  <1> QED BY <1>1, <1>2, <1>3, <1>4, <1>5, <1>6, <1>7, <1>8, <1>9, Zenon
      DEF Signal!Next, Signal!ShutdownThread

\* The handlers that are through are finitely many, and never fewer.
LEMMA ThroughGrows ==
    ASSUME Typed, arrival' \in [Arrivals -> {"none", "entered", "found", "open", "done"}],
           \A a \in Arrivals : arrival[a] = "done" => arrival'[a] = "done"
    PROVE  /\ Cardinality(Through) \in Nat /\ Cardinality(Through)' \in Nat
           /\ Cardinality(Through) <= Cardinality(Through)'
           /\ (\E a \in Arrivals : arrival[a] # "done" /\ arrival'[a] = "done") =>
                 Cardinality(Through) + 1 <= Cardinality(Through)'
  <1>1. Through \subseteq Through' /\ Through' \subseteq Arrivals
    BY DEF Through
  <1>2. IsFiniteSet(Through') /\ Cardinality(Through') \in Nat
    BY <1>1, FiniteArrivals, FS_Subset, FS_CardinalityType
  <1>3. IsFiniteSet(Through) /\ Cardinality(Through) \in Nat /\ Cardinality(Through) <= Cardinality(Through')
    BY <1>1, <1>2, FS_Subset, FS_CardinalityType
  <1>4. ASSUME NEW a \in Arrivals, arrival[a] # "done", arrival'[a] = "done"
        PROVE  Cardinality(Through) + 1 <= Cardinality(Through')
    <2>1. a \in Through' /\ a \notin Through
      BY <1>4 DEF Through
    <2>2. Through # Through'
      BY <2>1
    <2>3. Cardinality(Through) < Cardinality(Through')
      BY <1>1, <1>2, <1>3, <2>2, FS_Subset
    <2> QED BY <1>2, <1>3, <2>3
  <1> QED BY <1>2, <1>3, <1>4

\* At most one byte a handler, and one of the destructor, are in the pipe, and there is one call.
LEMMA BoundsNext == SignalInv /\ Bounds /\ [Signal!Next]_(Signal!vars) => Bounds'
  <1> SUFFICES ASSUME SignalInv, Bounds, [Signal!Next]_(Signal!vars) PROVE Bounds'
    OBVIOUS
  <1>1. Cardinality(Through) \in Nat
    <2>1. Through \subseteq Arrivals
      BY DEF Through
    <2> QED BY <2>1, FiniteArrivals, FS_Subset, FS_CardinalityType
  <1>2. bytes \in Nat /\ calls \in 0 .. 1 /\ WokenBy \in {0, 1}
    BY Zenon DEF SignalInv, Typed, Bounds, WokenBy
  <1>0. calls # 0 => thread \in {"calling", "exited"}
    <2>1. calls = 1 => thread \in {"calling", "exited"}
      BY Zenon DEF Bounds
    <2> QED BY <1>2, <2>1
  <1>3. ASSUME NEW a \in Arrivals, Signal!Handler(a) \/ \E kind \in Signal!Kinds : Signal!Arrive(a, kind)
        PROVE  Bounds'
    <2>1. UNCHANGED <<mainThread, thread, calls>> /\ WokenBy' = WokenBy
      BY <1>3, Zenon DEF Signal!Handler, Signal!FindDelegate, Signal!CallDelegate,
          Signal!SignalWrites, Signal!Arrive, WokenBy
    <2>2. arrival' \in [Arrivals -> {"none", "entered", "found", "open", "done"}]
      BY <1>3, HandlerKeeps DEF SignalInv, Typed
    <2>3. \A b \in Arrivals : arrival[b] = "done" => arrival'[b] = "done"
      BY <1>3, Zenon DEF Signal!Handler, Signal!FindDelegate, Signal!CallDelegate,
          Signal!SignalWrites, Signal!Arrive, SignalInv, Typed
    <2>4. bytes' = bytes \/ (bytes' = bytes + 1 /\ arrival[a] # "done" /\ arrival'[a] = "done")
      <3>1. CASE Signal!FindDelegate(a) \/ Signal!CallDelegate(a) \/ \E kind \in Signal!Kinds : Signal!Arrive(a, kind)
        BY <3>1, Zenon DEF Signal!FindDelegate, Signal!CallDelegate, Signal!Arrive,
            Signal!pipe
      <3>2. CASE Signal!SignalWrites(a)
        <4>1. arrival[a] = "open" /\ arrival'[a] = "done"
          BY <3>2 DEF Signal!SignalWrites, SignalInv, Typed
        <4>2. bytes' = bytes \/ bytes' = bytes + 1
          BY <3>2, Zenon DEF Signal!SignalWrites, Signal!WriteToPipe
        <4> QED BY <4>1, <4>2
      <3> QED BY <1>3, <3>1, <3>2 DEF Signal!Handler
    <2>5. fate' \in {"alive", "default action", "write failed", "empty delegate"}
      BY <1>3, Zenon DEF Bounds, Signal!Handler, Signal!FindDelegate,
          Signal!CallDelegate, Signal!SignalWrites, Signal!Arrive, Signal!WriteToPipe
    <2>6. bytes' <= Cardinality(Through)' + WokenBy
      <3>1. /\ Cardinality(Through)' \in Nat /\ Cardinality(Through) <= Cardinality(Through)'
            /\ bytes' = bytes + 1 => Cardinality(Through) + 1 <= Cardinality(Through)' \/ bytes' = bytes
        BY <2>2, <2>3, <2>4, ThroughGrows DEF SignalInv
      <3>2. bytes <= Cardinality(Through) + WokenBy
        BY Zenon DEF Bounds
      <3> QED BY <1>1, <1>2, <2>4, <3>1, <3>2
    <2> QED BY <2>1, <2>5, <2>6, Zenon DEF Bounds
  <1>4. ASSUME UNCHANGED arrival PROVE Cardinality(Through)' = Cardinality(Through)
    BY <1>4 DEF Through
  <1>5. CASE Signal!MainThread
    BY <1>1, <1>2, <1>4, <1>5, Zenon DEF Bounds, WokenBy, Signal!MainThread,
        Signal!RunAndShutDown, Signal!pipe
  <1>6. CASE Signal!Destructor
    <2>1. UNCHANGED <<thread, arrival, calls>>
      BY <1>6 DEF Signal!Destructor
    <2>2. bytes' = bytes \/ (bytes' = bytes + 1 /\ mainThread = "write")
      BY <1>6, Zenon DEF Signal!Destructor, Signal!Destroy, Signal!WriteToPipe,
          Signal!pipe
    <2>3. \/ mainThread \in {"destroy", "restore"} /\ mainThread' \in {"restore", "wake"}
          \/ mainThread = "wake" /\ mainThread' \in {"write", "join"}
          \/ mainThread = "write" /\ mainThread' = "join"
          \/ mainThread \in {"join", "clear"} /\ mainThread' \in {"clear", "done"}
      BY <1>6 DEF Signal!Destructor, Signal!Destroy
    <2>4. fate' \in {"alive", "default action", "write failed", "empty delegate"}
      BY <1>6, Zenon DEF Bounds, Signal!Destructor, Signal!Destroy, Signal!WriteToPipe
    <2>5. bytes' <= Cardinality(Through)' + WokenBy'
      <3>1. Cardinality(Through)' = Cardinality(Through)
        BY <1>4, <2>1
      <3>2. bytes <= Cardinality(Through) + WokenBy
        BY Zenon DEF Bounds
      <3>3. WokenBy' \in {0, 1} /\ WokenBy <= WokenBy' /\ (mainThread = "write" => WokenBy = 0 /\ WokenBy' = 1)
        BY <2>3 DEF WokenBy
      <3> QED BY <1>1, <1>2, <2>2, <3>1, <3>2, <3>3
    <2> QED BY <2>1, <2>3, <2>4, <2>5, Zenon DEF Bounds
  <1>7. CASE Signal!ShutdownThread
    <2>1. UNCHANGED <<mainThread, arrival, fate>> /\ WokenBy' = WokenBy
      BY <1>7 DEF Signal!ShutdownThread, Signal!Read, Signal!Close, Signal!Check,
          Signal!RestoreThenCall, Signal!CallbackReturns, WokenBy
    <2>2. bytes' \in {bytes, bytes - 1}
      BY <1>7, Zenon DEF Signal!ShutdownThread, Signal!Read, Signal!Close,
          Signal!Check, Signal!RestoreThenCall, Signal!CallbackReturns, Signal!pipe
    <2>3. calls' \in 0 .. 1 /\ (calls' = 1 => thread' \in {"calling", "exited"})
      <3>1. CASE Signal!RestoreThenCall
        <4>1. CASE thread = "call"
          <5>1. calls' = calls + 1 /\ thread' = "calling"
            BY <3>1, <4>1 DEF Signal!RestoreThenCall
          <5> QED BY <1>2, <1>0, <4>1, <5>1
        <4>2. CASE thread = "restore"
          <5>1. calls' = calls
            BY <3>1, <4>2 DEF Signal!RestoreThenCall
          <5> QED BY <1>2, <1>0, <4>2, <5>1
        <4> QED BY <3>1, <4>1, <4>2 DEF Signal!RestoreThenCall
      <3>2. CASE Signal!Read \/ Signal!Close \/ Signal!Check \/ Signal!CallbackReturns
        BY <3>2, Zenon DEF Signal!Read, Signal!Close, Signal!Check,
            Signal!CallbackReturns, Signal!AfterCallback, Bounds
      <3> QED BY <1>7, <3>1, <3>2 DEF Signal!ShutdownThread
    <2>4. bytes' <= Cardinality(Through)' + WokenBy
      <3>1. Cardinality(Through)' = Cardinality(Through)
        BY <1>4, <2>1
      <3>2. bytes <= Cardinality(Through) + WokenBy
        BY Zenon DEF Bounds
      <3> QED BY <1>1, <1>2, <2>2, <3>1, <3>2
    <2> QED BY <2>1, <2>3, <2>4, Zenon DEF Bounds
  <1>8. CASE UNCHANGED Signal!vars
    BY <1>4, <1>8, Zenon DEF Signal!vars, Signal!pipe, Bounds, WokenBy
  <1> QED BY <1>3, <1>5, <1>6, <1>7, <1>8 DEF Signal!Next

\* The flags stay flags.
LEMMA FlagsNext == Flags /\ [Signal!Next]_(Signal!vars) => Flags'
  BY Zenon DEF Flags, Signal!Next, Signal!vars, Signal!pipe, Signal!MainThread,
     Signal!RunAndShutDown, Signal!Destructor, Signal!Destroy, Signal!WriteToPipe,
     Signal!ShutdownThread, Signal!Read, Signal!Close, Signal!Check, Signal!RestoreThenCall,
     Signal!CallbackReturns, Signal!Handler, Signal!FindDelegate, Signal!CallDelegate,
     Signal!SignalWrites, Signal!Arrive

\* In every behaviour, for any number of signals.
LEMMA SignalInvHolds == Signal!Spec => []SignalInv
BY InitSignalInv, NextSignalInv, PTL DEF Signal!Spec

\* The same of a behaviour of the engine's process, of whose parts only the signals' matter.
LEMMA PartsSignalInv == PartsSpec => [](SignalInv /\ Bounds /\ Flags)
  <1>1. PartsInit => SignalInv /\ Bounds /\ Flags
    <2> SUFFICES ASSUME Signal!Init PROVE SignalInv /\ Bounds /\ Flags
      BY DEF PartsInit
    <2>1. SignalInv
      BY InitSignalInv
    <2>2. Flags
      BY Zenon DEF Signal!Init, Flags
    <2>3. Bounds
      <3>1. Cardinality(Through) \in Nat
        <4>1. Through \subseteq Arrivals
          BY DEF Through
        <4> QED BY <4>1, FiniteArrivals, FS_Subset, FS_CardinalityType
      <3> QED BY <3>1 DEF Signal!Init, Bounds, WokenBy
    <2> QED BY <2>1, <2>2, <2>3
  <1>2. [PartsNext]_partsVars => [Signal!Next]_(Signal!vars)
    BY DEF PartsNext, ProcessStep, SignalStep, partsVars, signalVars, Signal!vars,
        Signal!pipe
  <1> QED BY <1>1, <1>2, NextSignalInv, BoundsNext, FlagsNext, PTL DEF PartsSpec

\* While the callback runs no signal is caught any more: a second one has its default action.
THEOREM EscalationInPlaceHolds == Signal!Spec => []Signal!EscalationInPlace
  <1>1. SignalInv => Signal!EscalationInPlace
    BY DEF SignalInv, Dispositions, Signal!EscalationInPlace
  <1> QED BY <1>1, SignalInvHolds, PTL

\* Until the destructor every signal is caught, unless one has been and its callback is due.
THEOREM HandledThroughShutdownHolds == Signal!Spec => []Signal!HandledThroughShutdown
  <1>1. SignalInv => Signal!HandledThroughShutdown
    BY DEF SignalInv, Dispositions, Signal!HandledThroughShutdown
  <1> QED BY <1>1, SignalInvHolds, PTL

\* The destructor's wake-up is never taken for a signal, whatever the thread was about to do.
THEOREM NoSignalNoCallbackHolds == Signal!Spec => []Signal!NoSignalNoCallback
  <1>1. SignalInv => Signal!NoSignalNoCallback
    BY DEF SignalInv, Cause, Signalled, Signal!NoSignalNoCallback
  <1> QED BY <1>1, SignalInvHolds, PTL

\* The callback is over, and no signal is caught, before what they refer to is gone.
THEOREM CallbackInScopeHolds == Signal!Spec => []Signal!CallbackInScope
  <1>1. SignalInv => Signal!CallbackInScope
    BY DEF SignalInv, Dispositions, JoinedFirst, Signal!CallbackInScope
  <1> QED BY <1>1, SignalInvHolds, PTL

\* For any number of signals, and wherever they find the process: a first one is handled until
\* the destructor, and by the callback alone; a second one has its default action while the
\* callback runs; and the callback, called once at most, is over before what it refers to is gone.
THEOREM SignalsInStepHolds == PartsSpec => []SignalsInStep
  <1>1. SignalInv /\ Bounds /\ Flags => SignalsInStep
    <2> SUFFICES ASSUME SignalInv, Bounds, Flags PROVE SignalsInStep
      OBVIOUS
    <2>1. /\ Signal!EscalationInPlace /\ Signal!HandledThroughShutdown
          /\ Signal!NoSignalNoCallback /\ Signal!CallbackInScope
      BY DEF SignalInv, Cause, Dispositions, JoinedFirst, Signalled,
         Signal!EscalationInPlace, Signal!HandledThroughShutdown, Signal!NoSignalNoCallback,
         Signal!CallbackInScope
    <2>2. bytes \in 0 .. Cardinality(Arrivals) + 1
      <3>1. Through \subseteq Arrivals
        BY DEF Through
      <3>2. /\ Cardinality(Through) \in Nat /\ Cardinality(Arrivals) \in Nat
            /\ Cardinality(Through) <= Cardinality(Arrivals)
        BY <3>1, FiniteArrivals, FS_Subset, FS_CardinalityType
      <3>3. bytes \in Nat /\ bytes <= Cardinality(Through) + WokenBy /\ WokenBy \in {0, 1}
        BY Zenon DEF SignalInv, Typed, Bounds, WokenBy
      <3> QED BY <3>2, <3>3
    <2>3. installed \subseteq Signal!Kinds
      BY DEF SignalInv, Dispositions, Signal!Kinds
    <2>4. Signal!TypeOK
      <3>1. /\ calls \in 0 .. 1
            /\ fate \in {"alive", "default action", "write failed", "empty delegate"}
            /\ mainThread \in {"run", "shutdown", "destroy", "restore", "wake", "write", "join",
                              "clear", "done"}
        BY Zenon DEF Bounds
      <3>2. /\ arrival \in [Arrivals -> {"none", "entered", "found", "open", "done"}]
            /\ thread \in {"read", "closeRead", "closeWrite", "forget", "check", "restore",
                           "call", "calling", "exited"}
        BY DEF SignalInv, Typed
      <3>3. {delegate, destructing, readEnd, writeEnd, sized} \subseteq BOOLEAN
        BY Zenon DEF Flags
      <3>4. Signal!Cardinality(Arrivals) = Cardinality(Arrivals)
        BY DEF Signal!Cardinality, Cardinality
      <3> QED BY ONLY <2>2, <2>3, <3>1, <3>2, <3>3, <3>4, Zenon DEF Signal!TypeOK
    <2> QED BY <2>1, <2>4 DEF SignalsInStep, Signal!SignalsInStep
  <1> QED BY <1>1, PartsSignalInv, PTL
=============================================================================
