----------------------- MODULE ExecutionServiceProofs -----------------------
(***************************************************************************)
(* Proofs about ExecutionService for every set of streams and every cap.   *)
(* The inductive invariant adds to the properties what each program point  *)
(* of one thread implies about the others.                                 *)
(***************************************************************************)
EXTENDS ExecutionService, FiniteSetTheorems, TLAPS

\* Between publishing the Process and unpublishing it.
PublishedPcs == {"running", "stopProgress", "joinProgress", "shutdown", "unpublish"}

\* What holds of one stream, its execution and their threads.
StreamInv(s) ==
    /\ streamPc[s] \in {"closed", "takeSlot", "launching"} => runPc[s] \in {"none", "ended"}
    /\ runPc[s] \notin {"running", "stopProgress", "joinProgress"} => progress[s] = "off"
    /\ s \in process <=> runPc[s] \in PublishedPcs
    /\ runPc[s] \in PublishedPcs \cup {"publish"} => object[s] # "none"
    /\ streamPc[s] = "cancelling" => s \in process /\ s \in asked
    /\ s \in cancelled \/ s \in cancelRequested => s \in asked
    /\ s \in answered => runPc[s] \in {"writing", "wrapUp", "ended"}
    /\ runPc[s] \in {"writing", "wrapUp"} => s \in answered
    /\ s \in done <=> runPc[s] \in {"write", "writing", "wrapUp", "ended"}

IInv ==
    /\ TypeOK
    /\ \A s \in Streams : StreamInv(s)
    /\ SlotsAccountedFor

\* The groups of variables the actions leave unchanged are always expanded.
USE DEF cancelVars, processVars, progressVars, answerVars

-----------------------------------------------------------------------------
\* A decrement of active_executions_ by a holder does not go below zero.
LEMMA HolderActive ==
  ASSUME IInv, NEW s \in Streams, HoldsSlot(s)
  PROVE  active > 0
<1>1. IsFiniteSet(Holders)
  BY StreamsFinite, FS_Subset DEF Holders
<1>2. Holders # {}
  BY DEF Holders
<1>3. Cardinality(Holders) # 0
  BY <1>1, <1>2, FS_EmptySet
<1>. QED
  BY <1>3 DEF IInv, TypeOK, SlotsAccountedFor

\* What a step does to the set of slot holders.
LEMMA HoldersAdd ==
  ASSUME NEW s \in Streams, ~HoldsSlot(s), HoldsSlot(s)',
         \A t \in Streams \ {s} : HoldsSlot(t)' <=> HoldsSlot(t)
  PROVE  Cardinality(Holders') = Cardinality(Holders) + 1
<1>1. IsFiniteSet(Holders)
  BY StreamsFinite, FS_Subset DEF Holders
<1>2. Holders' = Holders \cup {s} /\ s \notin Holders
  BY DEF Holders
<1>. QED
  BY <1>1, <1>2, FS_AddElement, Zenon

LEMMA HoldersRemove ==
  ASSUME NEW s \in Streams, HoldsSlot(s), ~HoldsSlot(s)',
         \A t \in Streams \ {s} : HoldsSlot(t)' <=> HoldsSlot(t)
  PROVE  Cardinality(Holders') = Cardinality(Holders) - 1
<1>1. IsFiniteSet(Holders)
  BY StreamsFinite, FS_Subset DEF Holders
<1>2. Holders' = Holders \ {s} /\ s \in Holders
  BY DEF Holders
<1>. QED
  BY <1>1, <1>2, FS_RemoveElement

LEMMA HoldersSame ==
  ASSUME \A t \in Streams : HoldsSlot(t)' <=> HoldsSlot(t)
  PROVE  Holders' = Holders
  BY DEF Holders
-----------------------------------------------------------------------------
\* A step of a handler, of a run thread or of a progress thread changes only
\* what belongs to its own stream.

\* The handler of a stream keeps the types and the invariant of the streams.
LEMMA HandlerStream ==
  ASSUME IInv, NEW s \in Streams, Handler(s)
  PROVE  TypeOK' /\ \A t \in Streams : StreamInv(t)'
<1>. USE DEF IInv, TypeOK, StreamInv, PublishedPcs, StreamPcs, RunPcs, StreamStep, FreshExecution, execVars
<1>1. CASE Open(s)
  BY <1>1 DEF Open
<1>2. CASE ReadStartTooEarly(s)
  BY <1>2 DEF ReadStartTooEarly
<1>3. CASE ReadStart(s)
  BY <1>3 DEF ReadStart
<1>4. CASE JoinPrevious(s)
  BY <1>4 DEF JoinPrevious
<1>5. CASE TakeSlot(s)
  BY <1>5 DEF TakeSlot
<1>6. CASE Refuse(s)
  BY <1>6 DEF Refuse
<1>7. CASE Launch(s)
  BY <1>7 DEF Launch
<1>8. CASE LaunchFails(s)
  BY HolderActive, <1>8 DEF LaunchFails, HoldsSlot, SlotPcs
<1>9. CASE ReadCancellation(s)
  BY <1>9 DEF ReadCancellation
<1>10. CASE IgnoreCancellation(s)
  BY <1>10 DEF IgnoreCancellation
<1>11. CASE Cancel(s)
  BY <1>11 DEF Cancel
<1>12. CASE ReadLast(s)
  BY <1>12 DEF ReadLast
<1>13. CASE FinishGrpcStream(s)
  BY <1>13 DEF FinishGrpcStream
<1>. QED
  BY <1>1, <1>2, <1>3, <1>4, <1>5, <1>6, <1>7, <1>8, <1>9, <1>10, <1>11, <1>12, <1>13, Zenon DEF Handler

\* So does its run thread.
LEMMA RunStream ==
  ASSUME IInv, NEW s \in Streams, Run(s)
  PROVE  TypeOK' /\ \A t \in Streams : StreamInv(t)'
<1>. USE DEF IInv, TypeOK, StreamInv, PublishedPcs, StreamPcs, RunPcs, RunStep, LockFree
<1>1. CASE SetUp(s)
  BY <1>1 DEF SetUp
<1>2. CASE Publish(s)
  BY <1>2 DEF Publish
<1>3. CASE StartWorkers(s)
  BY <1>3 DEF StartWorkers
<1>4. CASE RunReturns(s)
  BY <1>4 DEF RunReturns
<1>5. CASE RunThrows(s)
  BY <1>5 DEF RunThrows
<1>6. CASE StopProgress(s)
  BY <1>6 DEF StopProgress
<1>7. CASE JoinProgress(s)
  BY <1>7 DEF JoinProgress
<1>8. CASE ShutDown(s)
  BY <1>8 DEF ShutDown
<1>9. CASE Unpublish(s)
  BY <1>9 DEF Unpublish
<1>10. CASE Destroy(s)
  BY <1>10 DEF Destroy
<1>11. CASE Release(s)
  BY HolderActive, <1>11 DEF Release, HoldsSlot, SlotPcs
<1>12. CASE MarkDone(s)
  BY <1>12 DEF MarkDone
<1>13. CASE WriteFinal(s)
  BY <1>13 DEF WriteFinal
<1>14. CASE FinalWritten(s)
  BY <1>14 DEF FinalWritten
<1>. QED
  BY <1>1, <1>2, <1>3, <1>4, <1>5, <1>6, <1>7, <1>8, <1>9, <1>10, <1>11, <1>12, <1>13, <1>14, Zenon DEF Run

\* So does its progress thread.
LEMMA ProgressStream ==
  ASSUME IInv, NEW s \in Streams, Progress(s)
  PROVE  TypeOK' /\ \A t \in Streams : StreamInv(t)'
<1>. USE DEF IInv, TypeOK, StreamInv, PublishedPcs, StreamPcs, RunPcs, ProgressStep
<1>1. CASE ProgressWakes(s)
  BY <1>1 DEF ProgressWakes
<1>2. CASE ProgressSnapshot(s)
  BY <1>2 DEF ProgressSnapshot
<1>3. CASE ProgressWritten(s)
  BY <1>3 DEF ProgressWritten
<1>. QED
  BY <1>1, <1>2, <1>3 DEF Progress

-----------------------------------------------------------------------------
\* The pool state of one stream, which is what a step of the stream changes.
StateOf(s) ==
    IF HoldsSlot(s) THEN "held"
    ELSE IF runPc[s] = "none" THEN "idle"
    ELSE IF s \in answered THEN "answered"
    ELSE IF runPc[s] = "ended" THEN "failed"
    ELSE "released"

\* The streams that hold a slot are those whose pool state says so.
LEMMA HeldOnly ==
  ASSUME \A t \in Streams : StateOf(t)' = StateOf(t)
  PROVE  \A t \in Streams : HoldsSlot(t)' <=> HoldsSlot(t)
<1>1. ASSUME NEW t \in Streams
      PROVE  (HoldsSlot(t) <=> StateOf(t) = "held") /\ (HoldsSlot(t)' <=> StateOf(t)' = "held")
  BY DEF StateOf
<1>. QED
  BY <1>1

\* A handler's step that takes no slot, gives none back and opens no RPC does
\* not show in the pool.
LEMMA HandlerQuiet ==
  ASSUME IInv, NEW s \in Streams, Handler(s), ~TakeSlot(s), ~LaunchFails(s), ~Open(s)
  PROVE  active' = active /\ \A t \in Streams : StateOf(t)' = StateOf(t)
<1>. USE DEF IInv, TypeOK, StreamInv, StateOf, HoldsSlot, SlotPcs, StreamStep, execVars
<1>1. CASE ReadStartTooEarly(s)
  BY <1>1 DEF ReadStartTooEarly
<1>2. CASE ReadStart(s)
  BY <1>2 DEF ReadStart
<1>3. CASE JoinPrevious(s)
  BY <1>3 DEF JoinPrevious
<1>4. CASE Refuse(s)
  BY <1>4 DEF Refuse
<1>5. CASE Launch(s)
  BY <1>5 DEF Launch, FreshExecution
<1>6. CASE ReadCancellation(s)
  BY <1>6 DEF ReadCancellation
<1>7. CASE IgnoreCancellation(s)
  BY <1>7 DEF IgnoreCancellation
<1>8. CASE Cancel(s)
  BY <1>8 DEF Cancel
<1>9. CASE ReadLast(s)
  BY <1>9 DEF ReadLast
<1>10. CASE FinishGrpcStream(s)
  BY <1>10 DEF FinishGrpcStream
<1>. QED
  BY <1>1, <1>2, <1>3, <1>4, <1>5, <1>6, <1>7, <1>8, <1>9, <1>10, Zenon DEF Handler

\* Nor does a run thread's step before the release, or once the run is over.
LEMMA RunQuiet ==
  ASSUME IInv, NEW s \in Streams, Run(s), ~Release(s), ~WriteFinal(s), ~MarkDone(s)
  PROVE  active' = active /\ \A t \in Streams : StateOf(t)' = StateOf(t)
<1>. USE DEF IInv, TypeOK, StreamInv, StateOf, HoldsSlot, SlotPcs, RunStep
<1>1. CASE SetUp(s)
  BY <1>1 DEF SetUp
<1>2. CASE Publish(s)
  BY <1>2 DEF Publish
<1>3. CASE StartWorkers(s)
  BY <1>3 DEF StartWorkers
<1>4. CASE RunReturns(s)
  BY <1>4 DEF RunReturns
<1>5. CASE RunThrows(s)
  BY <1>5 DEF RunThrows
<1>6. CASE StopProgress(s)
  BY <1>6 DEF StopProgress
<1>7. CASE JoinProgress(s)
  BY <1>7 DEF JoinProgress
<1>8. CASE ShutDown(s)
  BY <1>8 DEF ShutDown
<1>9. CASE Unpublish(s)
  BY <1>9 DEF Unpublish
<1>10. CASE Destroy(s)
  BY <1>10 DEF Destroy
<1>11. CASE FinalWritten(s)
  BY <1>11 DEF FinalWritten
<1>. QED
  BY <1>1, <1>2, <1>3, <1>4, <1>5, <1>6, <1>7, <1>8, <1>9, <1>10, <1>11, Zenon DEF Run

-----------------------------------------------------------------------------
\* The count of the running executions stays the number of slot holders: only
\* TakeSlot adds one, only LaunchFails and Release remove one, and Launch hands
\* the slot from the handler to the run thread.
LEMMA SlotsStep ==
  ASSUME IInv, [Next]_vars
  PROVE  SlotsAccountedFor'
<1>. USE DEF IInv, TypeOK, SlotsAccountedFor
<1>1. ASSUME NEW s \in Streams, TakeSlot(s)
      PROVE  SlotsAccountedFor'
  <2>1. ~HoldsSlot(s) /\ HoldsSlot(s)' /\ \A t \in Streams \ {s} : HoldsSlot(t)' <=> HoldsSlot(t)
    BY <1>1 DEF TakeSlot, StreamStep, execVars, HoldsSlot, SlotPcs, StreamInv
  <2>2. Cardinality(Holders') = Cardinality(Holders) + 1
    BY <2>1, HoldersAdd
  <2>. QED
    BY <1>1, <2>2, CapPositive DEF TakeSlot
<1>2. ASSUME NEW s \in Streams, LaunchFails(s) \/ Release(s)
      PROVE  SlotsAccountedFor'
  <2>1. HoldsSlot(s) /\ ~HoldsSlot(s)' /\ \A t \in Streams \ {s} : HoldsSlot(t)' <=> HoldsSlot(t)
    BY <1>2 DEF LaunchFails, Release, RunStep, StreamStep, FreshExecution, HoldsSlot, SlotPcs,
                StreamInv
  <2>2. Cardinality(Holders') = Cardinality(Holders) - 1
    BY <2>1, HoldersRemove
  <2>. QED
    BY <1>2, <2>2, CapPositive DEF LaunchFails, Release
<1>3. ASSUME active' = active, \A t \in Streams : HoldsSlot(t)' <=> HoldsSlot(t)
      PROVE  SlotsAccountedFor'
  BY <1>3, HoldersSame
<1>4. ASSUME NEW s \in Streams, Handler(s), ~TakeSlot(s), ~LaunchFails(s)
      PROVE  active' = active /\ \A t \in Streams : HoldsSlot(t)' <=> HoldsSlot(t)
  <2>1. CASE Open(s)
    BY <2>1 DEF Open, StreamStep, FreshExecution, HoldsSlot, SlotPcs, StreamInv
  <2>2. CASE ~Open(s)
    BY <1>4, <2>2, HandlerQuiet, HeldOnly
  <2>. QED
    BY <2>1, <2>2
<1>5. ASSUME NEW s \in Streams, Run(s), ~Release(s)
      PROVE  active' = active /\ \A t \in Streams : HoldsSlot(t)' <=> HoldsSlot(t)
  <2>1. CASE WriteFinal(s)
    BY <2>1 DEF WriteFinal, RunStep, HoldsSlot, SlotPcs
  <2>2. CASE MarkDone(s)
    BY <2>2 DEF MarkDone, RunStep, HoldsSlot, SlotPcs
  <2>3. CASE ~WriteFinal(s) /\ ~MarkDone(s)
    BY <1>5, <2>3, RunQuiet, HeldOnly
  <2>. QED
    BY <2>1, <2>2, <2>3
<1>6. ASSUME NEW s \in Streams, Progress(s)
      PROVE  active' = active /\ \A t \in Streams : HoldsSlot(t)' <=> HoldsSlot(t)
  BY <1>6 DEF Progress, ProgressWakes, ProgressSnapshot, ProgressWritten, ProgressStep, HoldsSlot
<1>7. CASE UNCHANGED vars
  BY <1>3, <1>7 DEF vars, execVars, HoldsSlot
<1>. QED
  BY <1>1, <1>2, <1>3, <1>4, <1>5, <1>6, <1>7 DEF Next

\* The inductive invariant holds of every reachable state.
THEOREM Invariance == Spec => []IInv
<1>1. Init => IInv
  <2>. SUFFICES ASSUME Init PROVE IInv
    OBVIOUS
  <2>1. TypeOK /\ \A s \in Streams : StreamInv(s)
    BY Zenon DEF Init, TypeOK, StreamInv, StreamPcs, RunPcs, PublishedPcs
  <2>2. Holders = {}
    BY DEF Init, Holders, HoldsSlot, SlotPcs
  <2>. QED
    BY <2>1, <2>2, FS_EmptySet, CapPositive DEF Init, IInv, SlotsAccountedFor
<1>2. IInv /\ [Next]_vars => IInv'
  <2>. SUFFICES ASSUME IInv, [Next]_vars PROVE IInv'
    OBVIOUS
  <2>1. TypeOK' /\ \A t \in Streams : StreamInv(t)'
    <3>1. CASE UNCHANGED vars
      BY <3>1 DEF vars, execVars, IInv, TypeOK, StreamInv
    <3>. QED
      BY <3>1, HandlerStream, RunStream, ProgressStream DEF Next
  <2>. QED
    BY <2>1, SlotsStep DEF IInv
<1>. QED
  BY <1>1, <1>2, PTL DEF Spec

\* Every variable has its type; active_executions_ is never negative, so the
\* unsigned decrement of release() cannot wrap.
THEOREM TypeCorrect == Spec => []TypeOK
<1>1. IInv => TypeOK
  BY DEF IInv
<1>. QED
  BY <1>1, Invariance, PTL

\* The count is exact and within the cap, whatever the number of streams.
THEOREM SlotsCorrect == Spec => []SlotsAccountedFor
<1>1. IInv => SlotsAccountedFor
  BY DEF IInv
<1>. QED
  BY <1>1, Invariance, PTL

\* Writes on a stream do not overlap and the final response is the last one.
THEOREM FinalLast == Spec => []FinalResponseIsLast
<1>1. IInv => FinalResponseIsLast
  BY DEF IInv, StreamInv, FinalResponseIsLast
<1>. QED
  BY <1>1, Invariance, PTL

\* No cancellation and no snapshot calls into a destroyed Process, and no run or
\* progress thread outlives the RPC it writes to.
THEOREM NothingDangles == Spec => []LifetimesKept
<1>1. IInv => ProcessOutlivesCallers
  BY DEF IInv, StreamInv, ProcessOutlivesCallers, PublishedPcs
<1>2. IInv => StreamOutlivesRun
  BY DEF IInv, StreamInv, StreamOutlivesRun
<1>. QED
  BY <1>1, <1>2, Invariance, PTL DEF LifetimesKept

\* A run is cancelled only on a cancellation of its own stream, for that run.
THEOREM NoStrayCancellation == Spec => []CancelledOnlyIfAsked
<1>1. IInv => CancelledOnlyIfAsked
  BY DEF IInv, StreamInv, CancelledOnlyIfAsked
<1>. QED
  BY <1>1, Invariance, PTL

\* A start is refused only when a cap's worth of executions have not answered.
THEOREM RefusalJustified == Spec => RefusedOnlyByUnanswered
<1>. DEFINE Busy == {t \in Holders : streamPc[t] = "launching" \/ t \notin answered}
<1>1. IInv => Busy = Holders
  BY DEF IInv, StreamInv, Holders, HoldsSlot, SlotPcs
<1>2. IInv => [\A s \in Streams : Refuse(s) => Cardinality(Busy) >= MaxConcurrentExecutions]_vars
  BY <1>1 DEF IInv, SlotsAccountedFor, Refuse
<1>. QED
  BY <1>2, Invariance, PTL DEF RefusedOnlyByUnanswered

-----------------------------------------------------------------------------
(* The service implements the pool of slots.                               *)

\* A step of a stream is a step of the pool for that stream, or is invisible.
LEMMA PoolChange ==
  ASSUME NEW s \in Streams,
         \A t \in Streams \ {s} : StateOf(t)' = StateOf(t)
  PROVE  poolState' = [poolState EXCEPT ![s] = StateOf(s)']
  BY Zenon DEF poolState, StateOf

\* A stream that is in a state of `from` may become `to`, as the pool says.
LEMMA PoolBecome ==
  ASSUME NEW s \in Streams, NEW from, NEW to, StateOf(s) \in from, StateOf(s)' = to,
         \A t \in Streams \ {s} : StateOf(t)' = StateOf(t)
  PROVE  Pool!Become(s, from, to)
  BY PoolChange DEF Pool!Become, poolState, StateOf

\* Steps of a stream that its pool state does not show.
LEMMA PoolStutter ==
  ASSUME \A t \in Streams : StateOf(t)' = StateOf(t)
  PROVE  poolState' = poolState
  BY DEF poolState, StateOf

\* A handler's steps: a slot is taken, handed back, or the execution forgotten.
LEMMA HandlerRefines ==
  ASSUME IInv, NEW s \in Streams, Handler(s)
  PROVE  [Pool!Next]_<<MaxConcurrentExecutions - active, poolState>>
<1>1. CASE TakeSlot(s)
  <2>1. StateOf(s) \in {"idle", "answered", "failed"} /\ StateOf(s)' = "held"
    BY <1>1 DEF TakeSlot, StreamStep, execVars,
                IInv, TypeOK, StreamInv, StateOf, HoldsSlot, SlotPcs
  <2>2. \A t \in Streams \ {s} : StateOf(t)' = StateOf(t)
    BY <1>1 DEF TakeSlot, StreamStep, execVars,
                IInv, TypeOK, StreamInv, StateOf, HoldsSlot, SlotPcs
  <2>3. Pool!Become(s, {"idle", "answered", "failed"}, "held")
    BY <2>1, <2>2, PoolBecome
  <2>4. Pool!Accept(s)
    BY <1>1, <2>3, CapPositive DEF Pool!Accept, TakeSlot, IInv, TypeOK
  <2>. QED
    BY <2>4 DEF Pool!Next
<1>2. CASE LaunchFails(s)
  <2>1. StateOf(s) \in {"held"} /\ StateOf(s)' = "idle"
    BY <1>2 DEF LaunchFails, StreamStep, FreshExecution,
                IInv, TypeOK, StreamInv, StateOf, HoldsSlot, SlotPcs
  <2>2. \A t \in Streams \ {s} : StateOf(t)' = StateOf(t)
    BY <1>2 DEF LaunchFails, StreamStep, FreshExecution,
                IInv, TypeOK, StreamInv, StateOf, HoldsSlot, SlotPcs
  <2>3. Pool!Become(s, {"held"}, "idle")
    BY <2>1, <2>2, PoolBecome
  <2>4. Pool!GiveBack(s)
    BY <1>2, <2>3, CapPositive DEF Pool!GiveBack, LaunchFails, IInv, TypeOK
  <2>. QED
    BY <2>4 DEF Pool!Next
<1>3. CASE Open(s)
  <2>1. StateOf(s) \in {"idle", "answered", "failed"} /\ StateOf(s)' = "idle"
    BY <1>3 DEF Open, StreamStep, FreshExecution,
                IInv, TypeOK, StreamInv, StateOf, HoldsSlot, SlotPcs
  <2>2. \A t \in Streams \ {s} : StateOf(t)' = StateOf(t)
    BY <1>3 DEF Open, StreamStep, FreshExecution,
                IInv, TypeOK, StreamInv, StateOf, HoldsSlot, SlotPcs
  <2>3. CASE StateOf(s) = "idle"
    <3>1. \A t \in Streams : StateOf(t)' = StateOf(t)
      BY <2>1, <2>2, <2>3
    <3>. QED
      BY <1>3, <3>1, PoolStutter DEF Open
  <2>4. CASE StateOf(s) # "idle"
    <3>1. Pool!Become(s, {"answered", "failed"}, "idle")
      BY <2>1, <2>2, <2>4, PoolBecome
    <3>. QED
      BY <1>3, <3>1 DEF Pool!Forget, Pool!Next, Open
  <2>. QED
    BY <2>3, <2>4
<1>4. CASE ~TakeSlot(s) /\ ~LaunchFails(s) /\ ~Open(s)
  BY <1>4, HandlerQuiet, PoolStutter
<1>. QED
  BY <1>1, <1>2, <1>3, <1>4

\* A run thread's steps: the slot is released, then the run answers or fails.
LEMMA RunRefines ==
  ASSUME IInv, NEW s \in Streams, Run(s)
  PROVE  [Pool!Next]_<<MaxConcurrentExecutions - active, poolState>>
<1>1. CASE Release(s)
  <2>1. StateOf(s) \in {"held"} /\ StateOf(s)' = "released"
    BY <1>1 DEF Release, RunStep,
                IInv, TypeOK, StreamInv, StateOf, HoldsSlot, SlotPcs
  <2>2. \A t \in Streams \ {s} : StateOf(t)' = StateOf(t)
    BY <1>1 DEF Release, RunStep,
                IInv, TypeOK, StreamInv, StateOf, HoldsSlot, SlotPcs
  <2>3. Pool!Become(s, {"held"}, "released")
    BY <2>1, <2>2, PoolBecome
  <2>4. Pool!GiveBack(s)
    BY <1>1, <2>3, CapPositive DEF Pool!GiveBack, Release, IInv, TypeOK
  <2>. QED
    BY <2>4 DEF Pool!Next
<1>2. CASE WriteFinal(s)
  <2>1. StateOf(s) \in {"released"} /\ StateOf(s)' = "answered"
    BY <1>2 DEF WriteFinal, RunStep,
                IInv, TypeOK, StreamInv, StateOf, HoldsSlot, SlotPcs
  <2>2. \A t \in Streams \ {s} : StateOf(t)' = StateOf(t)
    BY <1>2 DEF WriteFinal, RunStep,
                IInv, TypeOK, StreamInv, StateOf, HoldsSlot, SlotPcs
  <2>3. Pool!Become(s, {"released"}, "answered")
    BY <2>1, <2>2, PoolBecome
  <2>4. Pool!Finish(s)
    BY <1>2, <2>3, CapPositive DEF Pool!Finish, WriteFinal, IInv, TypeOK
  <2>. QED
    BY <2>4 DEF Pool!Next
<1>3. CASE MarkDone(s)
  <2>1. \A t \in Streams \ {s} : StateOf(t)' = StateOf(t)
    BY <1>3 DEF MarkDone, RunStep,
                IInv, TypeOK, StreamInv, StateOf, HoldsSlot, SlotPcs
  <2>2. StateOf(s) = "released" /\ StateOf(s)' \in {"released", "failed"}
    <3>1. CASE RunStep(s, "markDone", "write")
      BY <1>3, <3>1 DEF MarkDone, RunStep,
                        IInv, TypeOK, StreamInv, StateOf, HoldsSlot, SlotPcs
    <3>2. CASE RunStep(s, "markDone", "ended")
      BY <1>3, <3>2 DEF MarkDone, RunStep,
                        IInv, TypeOK, StreamInv, StateOf, HoldsSlot, SlotPcs
    <3>. QED
      BY <1>3, <3>1, <3>2, Zenon DEF MarkDone
  <2>3. CASE StateOf(s)' = "failed"
    <3>1. Pool!Become(s, {"released"}, "failed")
      BY <2>1, <2>2, <2>3, PoolBecome
    <3>. QED
      BY <1>3, <3>1 DEF Pool!Finish, Pool!Next, MarkDone
  <2>4. CASE StateOf(s)' = "released"
    <3>1. \A t \in Streams : StateOf(t)' = StateOf(t)
      BY <2>1, <2>2, <2>4
    <3>. QED
      BY <1>3, <3>1, PoolStutter DEF MarkDone
  <2>. QED
    BY <2>2, <2>3, <2>4
<1>4. CASE ~Release(s) /\ ~WriteFinal(s) /\ ~MarkDone(s)
  BY <1>4, RunQuiet, PoolStutter
<1>. QED
  BY <1>1, <1>2, <1>3, <1>4

\* The service implements its promise to the streams, for every number of
\* streams and every cap (ExecutionPool).
THEOREM Refinement == Spec => ImplementsPool
<1>1. Init => Pool!Init
  BY CapPositive DEF Init, Pool!Init, poolState, HoldsSlot, SlotPcs
<1>2. IInv /\ [Next]_vars => [Pool!Next]_<<MaxConcurrentExecutions - active, poolState>>
  <2>. SUFFICES ASSUME IInv, [Next]_vars 
               PROVE  [Pool!Next]_<<MaxConcurrentExecutions - active, poolState>>
    OBVIOUS
  <2>1. ASSUME NEW s \in Streams, Progress(s) PROVE UNCHANGED <<active, poolState>>
    BY <2>1, Zenon DEF Progress, ProgressWakes, ProgressSnapshot, ProgressWritten, ProgressStep,
                poolState, HoldsSlot
  <2>2. CASE UNCHANGED vars
    BY <2>2 DEF vars, execVars, poolState, HoldsSlot
  <2>. QED
    BY <2>1, <2>2, HandlerRefines, RunRefines DEF Next
<1>. QED
  BY <1>1, <1>2, Invariance, PTL DEF Spec, ImplementsPool, Pool!Spec
=============================================================================
