------------------------- MODULE ExecuteCallProofs -------------------------
(***************************************************************************)
(* Proofs about nh.Execute, whatever is on its way on the stream and       *)
(* however long the queues are: nothing it has returned from is left       *)
(* running, and it implements BackendCall.                                 *)
(***************************************************************************)
EXTENDS ExecuteCall, TLAPS

Requests == {"start", "cancel", "halfClose"}
Responses == {"progress"} \cup Answers \cup Ends

\* What is in a queue.
Elems(q) == {q[i] : i \in 1 .. Len(q)}

Typed ==
    /\ toService \in Seq(Requests) /\ toClient \in Seq(Responses)
    /\ gotten \in {"none"} \cup Responses
    /\ pc \in {"open", "await", "grace", "cancel", "awaitCancel", "closeSend", "drain",
               "returned"}
    /\ service \in {"idle", "running", "stopping", "answered", "dead", "ended"}
    /\ outcome \in {"unknown", "refused"} \cup Answers

\* The start is the first request, and is read once.
StartFirst ==
    /\ "start" \in Elems(toService) => service = "idle"
    /\ toService # <<>> => "start" \notin Elems(Tail(toService))
    /\ pc = "open" => toService = <<>> /\ service = "idle"
    /\ service = "idle" /\ (pc \notin {"open", "returned"} \/ toService # <<>>) =>
           "start" \in Elems(toService)

\* What was read, or can be, is what became of the execution.
Heard(r) == gotten = r \/ r \in Elems(toClient)

AnswersTrue ==
    /\ \A r \in Answers \cup {"refused"} : Heard(r) => outcome = r
    /\ Heard("eof") \/ outcome = "refused" => service = "ended"
    /\ Heard("broken") => link # "up"
    /\ service \in {"idle", "running", "stopping", "dead"} => outcome = "unknown"

\* A cancellation was sent because the context had ended, and an execution is only stopped, or
\* partial, by one. Until the service has read it, it is on its way.
CancelSent ==
    /\ cancelled \/ pc \in {"grace", "cancel", "awaitCancel"} => cause # "none"
    /\ "cancel" \in Elems(toService) \/ service = "stopping" \/ outcome = "partial" => cancelled
    /\ cancelled /\ service \in {"idle", "running"} => "cancel" \in Elems(toService)
    /\ pc = "awaitCancel" => cancelled

Progress ==
    /\ pc = "returned" <=> result # "none"
    /\ pc = "drain" => gotten \in Answers

IInv == Typed /\ StartFirst /\ AnswersTrue /\ CancelSent /\ Progress /\ NothingLeftRunning

\* The context ends by its caller or its deadline, and what had arrived by then stays to be read;
\* a run is given up only when the caller wants it or nothing had arrived. The stream ends cleanly
\* only after the half-close.
Timely ==
    /\ cause = "caller" => caller
    /\ cause = "none" => ~inTime
    /\ inTime /\ link = "up" => \E r \in Answers \cup Ends : Heard(r)
    /\ pc = "open" => gotten = "none"
    /\ pc = "open" /\ link = "up" => Elems(toClient) = {}
    /\ (pc \in {"cancel", "awaitCancel"} \/ cancelled) /\ link = "up" =>
           caller \/ (cause # "none" /\ ~inTime)
    /\ pc \notin {"drain", "returned"} => "halfClose" \notin Elems(toService) /\ ~Heard("eof")

\* What Execute returned, when nothing kept it from what the service said.
SaidAndReturned ==
    result # "none" /\ (cause = "none" \/ inTime) /\ ~caller /\ link = "up" =>
        \/ outcome = "complete" /\ result = "ok"
        \/ outcome = "error" /\ result = "reported"
        \/ outcome = "refused" /\ result = "busy"

Flags ==
    /\ cause \in {"none", "caller", "deadline"} /\ caller \in BOOLEAN /\ inTime \in BOOLEAN
    /\ gotten # "progress" /\ cancelled \in BOOLEAN
    /\ result \in {"none", "ok", "reported", "stopped", "cancelled", "busy", "failed"}
    /\ link \in {"up", "broken", "silent"}

CallInv == IInv /\ Timely /\ SaidAndReturned /\ Flags

-----------------------------------------------------------------------------
\* What is in a queue after another element.
LEMMA ElemsAppend ==
    ASSUME NEW S, NEW q \in Seq(S), NEW e \in S
    PROVE  /\ Append(q, e) \in Seq(S) /\ Append(q, e) # <<>>
           /\ Elems(Append(q, e)) = Elems(q) \cup {e}
  <1>1. Append(q, e) \in Seq(S) /\ Len(Append(q, e)) = Len(q) + 1
    OBVIOUS
  <1>2. \A i \in 1 .. Len(q) : Append(q, e)[i] = q[i]
    OBVIOUS
  <1>3. Append(q, e)[Len(q) + 1] = e
    OBVIOUS
  <1>4. Elems(Append(q, e)) = Elems(q) \cup {e}
    BY <1>1, <1>2, <1>3 DEF Elems
  <1>5. Append(q, e) # <<>>
    <2>1. Len(Append(q, e)) # 0
      BY <1>1
    <2>2. Len(<<>>) = 0
      OBVIOUS
    <2> QED BY <2>1, <2>2, Zenon
  <1> QED BY <1>1, <1>4, <1>5, Zenon

\* What is in it after its first element.
LEMMA ElemsTailAppend ==
    ASSUME NEW S, NEW q \in Seq(S), NEW e \in S
    PROVE  /\ q = <<>> => Elems(Tail(Append(q, e))) = {}
           /\ q # <<>> => Elems(Tail(Append(q, e))) = Elems(Tail(q)) \cup {e}
  <1>1. ASSUME q = <<>> PROVE Elems(Tail(Append(q, e))) = {}
    <2>1. Append(q, e) \in Seq(S) /\ Len(Append(q, e)) = 1
      BY <1>1
    <2>2. Len(Tail(Append(q, e))) = 0
      BY <2>1
    <2> QED BY <2>2 DEF Elems
  <1>2. ASSUME q # <<>> PROVE Elems(Tail(Append(q, e))) = Elems(Tail(q)) \cup {e}
    <2>1. Tail(Append(q, e)) = Append(Tail(q), e) /\ Tail(q) \in Seq(S)
      BY <1>2
    <2>2. ASSUME NEW r \in Seq(S) PROVE Elems(Append(r, e)) = Elems(r) \cup {e}
      BY ElemsAppend
    <2> QED BY <2>1, <2>2, Zenon
  <1> QED BY <1>1, <1>2

\* What is in a queue before and after its first element is taken.
LEMMA ElemsTail ==
    ASSUME NEW S, NEW q \in Seq(S), q # <<>>
    PROVE  /\ Tail(q) \in Seq(S) /\ Head(q) \in S
           /\ Elems(q) = {Head(q)} \cup Elems(Tail(q))
  <1>1. Tail(q) \in Seq(S) /\ Head(q) \in S /\ Len(Tail(q)) = Len(q) - 1
        /\ Len(q) \in Nat /\ Len(q) > 0
    OBVIOUS
  <1>2. \A i \in 1 .. Len(Tail(q)) : Tail(q)[i] = q[i + 1]
    OBVIOUS
  <1>3. Head(q) = q[1]
    OBVIOUS
  <1>4. ASSUME NEW x \in Elems(q) PROVE x \in {Head(q)} \cup Elems(Tail(q))
    <2>1. PICK i \in 1 .. Len(q) : x = q[i]
      BY DEF Elems
    <2>2. i # 1 => i - 1 \in 1 .. Len(Tail(q)) /\ Tail(q)[i - 1] = q[i]
      BY <1>1, <1>2
    <2> QED BY <1>3, <2>1, <2>2 DEF Elems
  <1>5. ASSUME NEW x \in Elems(Tail(q)) PROVE x \in Elems(q)
    <2>1. PICK i \in 1 .. Len(Tail(q)) : x = Tail(q)[i]
      BY Zenon DEF Elems
    <2>2. i + 1 \in 1 .. Len(q) /\ x = q[i + 1]
      BY <1>1, <1>2, <2>1
    <2> QED BY <2>2 DEF Elems
  <1>6. Head(q) \in Elems(q)
    BY <1>1, <1>3 DEF Elems
  <1> QED BY <1>1, <1>4, <1>5, <1>6

\* A connection that is lost takes the end of a queue with it.
LEMMA ElemsSubSeq ==
    ASSUME NEW S, NEW q \in Seq(S), NEW n \in 0 .. Len(q)
    PROVE  SubSeq(q, 1, n) \in Seq(S) /\ Elems(SubSeq(q, 1, n)) \subseteq Elems(q)
  <1>1. SubSeq(q, 1, n) \in Seq(S) /\ Len(SubSeq(q, 1, n)) = n
    OBVIOUS
  <1>2. \A i \in 1 .. n : SubSeq(q, 1, n)[i] = q[i]
    OBVIOUS
  <1> QED BY <1>1, <1>2 DEF Elems

\* An empty queue.
LEMMA ElemsEmpty == Elems(<<>>) = {}
  <1>1. Len(<<>>) = 0
    OBVIOUS
  <1> QED BY <1>1 DEF Elems

\* What the code's conditions say of the queues, in terms of what is in them.
LEMMA Conditions ==
    ASSUME Typed
    PROVE  /\ \A set : Arrived(set) <=> \E r \in set : Heard(r)
           /\ Range(toService) = Elems(toService)
  <1>1. DOMAIN toClient = 1 .. Len(toClient) /\ DOMAIN toService = 1 .. Len(toService)
    BY DEF Typed
  <1> QED BY <1>1 DEF Arrived, Heard, Elems, Range

\* The client sends a request other than the start.
LEMMA Sends ==
    ASSUME Typed, StartFirst, NEW e \in {"cancel", "halfClose"}, toService' = Append(toService, e)
    PROVE  /\ toService' \in Seq(Requests)
           /\ Elems(toService') = Elems(toService) \cup {e}
           /\ "start" \notin Elems(Tail(toService'))
  <1>1. toService \in Seq(Requests) /\ e \in Requests
    BY DEF Typed, Requests
  <1>2. toService' \in Seq(Requests) /\ Elems(toService') = Elems(toService) \cup {e}
    <2>1. ASSUME NEW q \in Seq(Requests)
          PROVE  Append(q, e) \in Seq(Requests) /\ Elems(Append(q, e)) = Elems(q) \cup {e}
      BY <1>1, ElemsAppend
    <2> QED BY <1>1, <2>1
  <1>3. \/ Elems(Tail(toService')) = {}
        \/ toService # <<>> /\ Elems(Tail(toService')) = Elems(Tail(toService)) \cup {e}
    BY <1>1, ElemsTailAppend, Zenon
  <1> QED BY <1>2, <1>3 DEF StartFirst

\* The service takes a request from the stream.
LEMMA Receives ==
    ASSUME Typed, StartFirst, NEW r, Receive(r)
    PROVE  /\ toService' \in Seq(Requests)
           /\ Elems(toService) = {r} \cup Elems(toService')
           /\ "start" \notin Elems(toService')
           /\ toService' # <<>> => "start" \notin Elems(Tail(toService'))
  <1>1. toService \in Seq(Requests) /\ toService # <<>>
        /\ Head(toService) = r /\ toService' = Tail(toService)
    BY DEF Typed, Receive
  <1>2. toService' \in Seq(Requests) /\ Elems(toService) = {r} \cup Elems(toService')
    BY <1>1, ElemsTail, Zenon
  <1>3. "start" \notin Elems(toService')
    BY <1>1, Zenon DEF StartFirst
  <1>4. toService' # <<>> => Elems(toService') = {Head(toService')} \cup Elems(Tail(toService'))
    BY <1>2, ElemsTail, Zenon
  <1> QED BY <1>2, <1>3, <1>4

\* The service sends a response.
LEMMA Responds ==
    ASSUME Typed, NEW r \in Responses, Send(r)
    PROVE  toClient' \in Seq(Responses) /\ Elems(toClient') = Elems(toClient) \cup {r}
  <1>1. toClient \in Seq(Responses) /\ toClient' = Append(toClient, r)
    BY DEF Typed, Send
  <1>2. ASSUME NEW q \in Seq(Responses)
        PROVE  Append(q, r) \in Seq(Responses) /\ Elems(Append(q, r)) = Elems(q) \cup {r}
    BY ElemsAppend
  <1> QED BY <1>1, <1>2

\* The client takes a response from the stream.
LEMMA Takes ==
    ASSUME Typed, toClient # <<>>, toClient' = Tail(toClient)
    PROVE  /\ toClient' \in Seq(Responses) /\ Head(toClient) \in Responses
           /\ Elems(toClient) = {Head(toClient)} \cup Elems(toClient')
  <1>1. toClient \in Seq(Responses)
    BY DEF Typed
  <1> QED BY <1>1, ElemsTail, Zenon

-----------------------------------------------------------------------------
\* Nothing has been sent, and the service has not heard of the stream.
LEMMA InitIInv == Init => IInv
  <1> SUFFICES ASSUME Init PROVE IInv
    OBVIOUS
  <1>1. Elems(toService) = {} /\ Elems(toClient) = {}
    BY ElemsEmpty, Zenon DEF Init
  <1>2. toService \in Seq(Requests) /\ toClient \in Seq(Responses)
    BY DEF Init
  <1>3. Typed
    BY <1>2 DEF Init, Typed
  <1> QED BY <1>1, <1>3 DEF Init, IInv, StartFirst, AnswersTrue, Heard, CancelSent,
         Progress, NothingLeftRunning, Answers

\* Every step keeps the invariant: the context's and the client's.
LEMMA ClientKeeps ==
    ASSUME IInv, CallerEnds \/ DeadlinePasses \/ Execute \/ Read
    PROVE  IInv'
  <1> USE DEF IInv, StartFirst, AnswersTrue, Heard, CancelSent, Progress,
         NothingLeftRunning, Answers, Ends, clientVars, contextVars, serviceVars,
         clientFrame, Goto, Returned
  <1> Typed
    OBVIOUS
  <1>0. Range(toService) = Elems(toService)
    BY Conditions
  <1>1. CASE CallerEnds \/ DeadlinePasses
    BY <1>1 DEF CallerEnds, DeadlinePasses, Typed
  <1>2. CASE NotStarted \/ SendStartFails
    <2>1. toService = <<>> /\ service = "idle"
      BY <1>2 DEF NotStarted, SendStartFails
    <2>2. Elems(toService) = {}
      BY <2>1, ElemsEmpty, Zenon
    <2>3. /\ pc' = "returned" /\ result' \in {"cancelled", "failed"}
          /\ UNCHANGED <<gotten, cancelled, toService, toClient, clientFrame>>
      BY <1>2 DEF NotStarted, SendStartFails
    <2> QED BY <1>0, <2>1, <2>2, <2>3 DEF Typed
  <1>3. CASE SendStart
    <2>1. toService' = Append(<<>>, "start") /\ pc' = "await" /\ pc = "open"
          /\ UNCHANGED <<gotten, cancelled, result, toClient, clientFrame>>
      BY <1>3 DEF SendStart
    <2>2. toService' \in Seq(Requests) /\ Elems(toService') = {"start"}
          /\ Elems(Tail(toService')) = {}
      <3>1. ASSUME NEW q \in Seq(Requests), q = <<>>
            PROVE  /\ Append(q, "start") \in Seq(Requests)
                   /\ Elems(Append(q, "start")) = Elems(q) \cup {"start"}
                   /\ Elems(Tail(Append(q, "start"))) = {}
        <4>1. "start" \in Requests
          BY DEF Requests
        <4>2. Append(q, "start") \in Seq(Requests)
              /\ Elems(Append(q, "start")) = Elems(q) \cup {"start"}
          BY <4>1, ElemsAppend
        <4>3. Elems(Tail(Append(q, "start"))) = {}
          BY <3>1, <4>1, ElemsTailAppend, Zenon
        <4> QED BY <4>2, <4>3
      <3>2. <<>> \in Seq(Requests)
        OBVIOUS
      <3> QED BY <2>1, <3>1, <3>2, ElemsEmpty, Zenon
    <2> QED BY <2>1, <2>2 DEF Typed
  <1>4. CASE Read
    <2>1. /\ toClient' \in Seq(Responses) /\ Head(toClient) \in Responses
          /\ Elems(toClient) = {Head(toClient)} \cup Elems(toClient')
      BY <1>4, Takes DEF Read
    <2> QED BY <1>4, <2>1 DEF Read, Typed, Responses
  <1>5. CASE TakeFirst
    BY <1>5 DEF TakeFirst, Typed
  <1>6. CASE ContextDone \/ GraceOver
    BY <1>6 DEF ContextDone, GraceOver, Typed
  <1>7. CASE SendCancel
    <2>1. /\ toService' \in Seq(Requests)
          /\ Elems(toService') = Elems(toService) \cup {"cancel"}
          /\ "start" \notin Elems(Tail(toService'))
      BY <1>7, Sends DEF SendCancel
    <2> QED BY <1>7, <2>1 DEF SendCancel, Typed
  <1>8. CASE SendCancelFails
    <2>1. \E r \in Ends : Heard(r)
      BY <1>8, Conditions DEF SendCancelFails
    <2> QED BY <1>0, <1>8, <2>1 DEF SendCancelFails, Typed
  <1>9. CASE CancelGraceOver
    <2>1. link = "up" => Elems(toService) = {}
      BY <1>9, ElemsEmpty DEF CancelGraceOver
    <2> QED BY <1>0, <1>9, <2>1 DEF CancelGraceOver, Typed
  <1>10. CASE CloseSend
    <2>1. /\ toService' \in Seq(Requests)
          /\ Elems(toService') = Elems(toService) \cup {"halfClose"}
          /\ "start" \notin Elems(Tail(toService'))
      BY <1>10, Sends DEF CloseSend
    <2>2. Range(toService') = Elems(toService')
      BY <2>1 DEF Range, Elems
    <2> QED BY <1>10, <2>1, <2>2 DEF CloseSend, Typed
  <1>11. CASE Drain
    <2>1. /\ toClient' \in Seq(Responses) /\ Head(toClient) \in Responses
          /\ Elems(toClient) = {Head(toClient)} \cup Elems(toClient')
      BY <1>11, Takes DEF Drain
    <2> QED BY <1>0, <1>11, <2>1 DEF Drain, Typed
  <1> QED BY <1>1, <1>2, <1>3, <1>4, <1>5, <1>6, <1>7, <1>8, <1>9, <1>10, <1>11,
      Zenon DEF Execute

\* The service's steps and the loss of the connection keep it, too.
LEMMA ServiceKeeps ==
    ASSUME IInv, Service \/ WriteProgress \/ LoseConnection
    PROVE  IInv'
  <1> USE DEF IInv, StartFirst, AnswersTrue, Heard, CancelSent, Progress,
         NothingLeftRunning, Answers, Ends, clientVars, contextVars, serviceVars,
         serviceFrame
  <1> Typed
    OBVIOUS
  <1>0. /\ Range(toService) = Elems(toService)
        /\ toService' \in Seq(Requests) => Range(toService') = Elems(toService')
    BY Conditions DEF Range, Elems
  <1>1. ASSUME NEW r, Receive(r)
        PROVE  /\ toService' \in Seq(Requests)
               /\ Elems(toService) = {r} \cup Elems(toService')
               /\ "start" \notin Elems(toService')
               /\ toService' # <<>> => "start" \notin Elems(Tail(toService'))
               /\ link = "up" /\ pc # "open"
    <2>1. link = "up" /\ toService # <<>>
      BY <1>1 DEF Receive
    <2> QED BY <1>1, <2>1, Receives
  <1>2. CASE Accept
    BY <1>0, <1>1, <1>2 DEF Accept, Typed
  <1>3. CASE Refuse
    <2>1. toClient' \in Seq(Responses) /\ Elems(toClient') = Elems(toClient) \cup {"refused"}
      BY <1>3, Responds DEF Refuse, Responses
    <2> QED BY <1>0, <1>1, <1>3, <2>1 DEF Refuse, Typed
  <1>4. CASE ReadCancel
    <2>1. Receive("cancel") /\ toService # <<>>
      BY <1>4 DEF ReadCancel, Receive
    <2>2. service # "idle" /\ cancelled
      BY <1>1, <2>1
    <2> QED BY <1>0, <1>1, <1>4, <2>2 DEF ReadCancel, Typed
  <1>5. CASE Answer
    <2>1. outcome' \in Answers /\ Send(outcome')
      BY <1>5 DEF Answer
    <2>2. toClient' \in Seq(Responses) /\ Elems(toClient') = Elems(toClient) \cup {outcome'}
      BY <2>1, Responds DEF Responses
    <2> QED BY <1>5, <2>1, <2>2 DEF Answer, Typed
  <1>6. CASE Throw
    BY <1>0, <1>6 DEF Throw, Typed
  <1>7. CASE EndStream
    <2>1. toClient' \in Seq(Responses) /\ Elems(toClient') = Elems(toClient) \cup {"eof"}
      BY <1>7, Responds DEF EndStream, Responses
    <2> QED BY <1>0, <1>1, <1>7, <2>1 DEF EndStream, Typed
  <1>8. CASE WriteProgress
    <2>1. toClient' \in Seq(Responses) /\ Elems(toClient') = Elems(toClient) \cup {"progress"}
      BY <1>8, Responds DEF WriteProgress, Responses
    <2> QED BY <1>0, <1>8, <2>1 DEF WriteProgress, Typed
  <1>9. CASE LoseConnection
    <2>1. PICK n \in 0 .. Len(toClient) :
              \/ link' = "broken" /\ toClient' = Append(SubSeq(toClient, 1, n), "broken")
              \/ link' = "silent" /\ toClient' = SubSeq(toClient, 1, n)
      BY <1>9 DEF LoseConnection
    <2>2. SubSeq(toClient, 1, n) \in Seq(Responses)
          /\ Elems(SubSeq(toClient, 1, n)) \subseteq Elems(toClient)
      BY ElemsSubSeq DEF Typed
    <2>3. ASSUME NEW q \in Seq(Responses)
          PROVE  Append(q, "broken") \in Seq(Responses)
                 /\ Elems(Append(q, "broken")) = Elems(q) \cup {"broken"}
      BY ElemsAppend DEF Responses
    <2>4. toClient' \in Seq(Responses) /\ Elems(toClient') \subseteq Elems(toClient) \cup {"broken"}
      BY <2>1, <2>2, <2>3, Zenon
    <2>5. /\ link' # "up"
          /\ UNCHANGED <<clientVars, contextVars, toService, serviceVars>>
      BY <1>9 DEF LoseConnection
    <2> QED BY <1>0, <2>4, <2>5 DEF Typed
  <1> QED BY <1>2, <1>3, <1>4, <1>5, <1>6, <1>7, <1>8, <1>9, Zenon DEF Service

\* Every step keeps the invariant.
LEMMA NextIInv == IInv /\ [Next]_vars => IInv'
  <1> SUFFICES ASSUME IInv, [Next]_vars PROVE IInv'
    OBVIOUS
  <1>1. CASE CallerEnds \/ DeadlinePasses \/ Execute \/ Read
    BY <1>1, ClientKeeps
  <1>2. CASE Service \/ WriteProgress \/ LoseConnection
    BY <1>2, ServiceKeeps
  <1>3. CASE UNCHANGED vars
    BY <1>3 DEF vars, clientVars, contextVars, serviceVars, IInv, Typed, StartFirst,
                AnswersTrue, Heard, CancelSent, Progress, NothingLeftRunning, Elems, Range
  <1> QED BY <1>1, <1>2, <1>3 DEF Next

\* The variables that hold no queue keep their types.
LEMMA FlagsKept ==
    ASSUME IInv, Flags, [Next]_vars
    PROVE  Flags'
  <1> USE DEF clientVars, contextVars, serviceVars, clientFrame, serviceFrame
  <1>1. cause' \in {"none", "caller", "deadline"} /\ link' \in {"up", "broken", "silent"}
    BY Zenon DEF Flags, Next, CallerEnds, DeadlinePasses, Execute, Read, NotStarted,
       SendStart, SendStartFails, TakeFirst, ContextDone, GraceOver, SendCancel,
       SendCancelFails, CancelGraceOver, CloseSend, Drain, Service, Accept, Refuse,
       ReadCancel, Answer, Throw, EndStream, WriteProgress, LoseConnection, vars
  <1>2. /\ caller' \in BOOLEAN /\ cancelled' \in BOOLEAN
        /\ inTime' = inTime \/ inTime' = Arrived(Answers \cup Ends)
    <2>1. /\ caller' = caller \/ caller' = TRUE
          /\ cancelled' = cancelled \/ cancelled' = TRUE
          /\ inTime' = inTime \/ inTime' = Arrived(Answers \cup Ends)
      BY Zenon DEF Next, CallerEnds, DeadlinePasses, Execute, Read, NotStarted, SendStart,
         SendStartFails, TakeFirst, ContextDone, GraceOver, SendCancel, SendCancelFails,
         CancelGraceOver, CloseSend, Drain, Service, Accept, Refuse, ReadCancel, Answer,
         Throw, EndStream, WriteProgress, LoseConnection, vars, Returned
    <2> QED BY <2>1, Zenon DEF Flags
  <1>3. inTime' \in BOOLEAN
    <2>1. Arrived(Answers \cup Ends) \in BOOLEAN
      BY Zenon DEF Arrived
    <2> QED BY <1>2, <2>1, Zenon DEF Flags
  <1>4. gotten' # "progress"
    BY Zenon DEF Flags, Next, CallerEnds, DeadlinePasses, Execute, Read, NotStarted,
       SendStart, SendStartFails, TakeFirst, ContextDone, GraceOver, SendCancel,
       SendCancelFails, CancelGraceOver, CloseSend, Drain, Service, Accept, Refuse,
       ReadCancel, Answer, Throw, EndStream, WriteProgress, LoseConnection, vars, Returned
  <1>5. result' \in {"none", "ok", "reported", "stopped", "cancelled", "busy", "failed"}
    BY Zenon DEF Flags, Next, CallerEnds, DeadlinePasses, Execute, Read, NotStarted,
       SendStart, SendStartFails, TakeFirst, ContextDone, GraceOver, SendCancel,
       SendCancelFails, CancelGraceOver, CloseSend, Drain, Service, Accept, Refuse,
       ReadCancel, Answer, Throw, EndStream, WriteProgress, LoseConnection, vars, Returned
  <1> QED BY <1>1, <1>2, <1>3, <1>4, <1>5 DEF Flags

\* The context's and the client's steps keep what arrived in time readable, and return it.
LEMMA ClientTimely ==
    ASSUME IInv, Timely, SaidAndReturned, Flags,
           CallerEnds \/ DeadlinePasses \/ Execute \/ Read
    PROVE  Timely' /\ SaidAndReturned'
  <1> USE DEF IInv, AnswersTrue, Heard, CancelSent, Progress, Timely, SaidAndReturned,
         Answers, Ends, clientVars, contextVars, serviceVars, clientFrame, Goto, Returned
  <1> Typed
    OBVIOUS
  <1>1. CASE CallerEnds
    BY <1>1 DEF CallerEnds
  <1>2. CASE DeadlinePasses
    <2>1. inTime' <=> \E r \in Answers \cup Ends : Heard(r)
      BY <1>2, Conditions DEF DeadlinePasses
    <2> QED BY <1>2, <2>1 DEF DeadlinePasses
  <1>3. CASE NotStarted \/ SendStartFails
    BY <1>3 DEF NotStarted, SendStartFails
  <1>4. CASE SendStart
    <2>1. toService' = Append(<<>>, "start")
      BY <1>4 DEF SendStart, StartFirst
    <2>2. Elems(toService') = {"start"}
      <3>1. ASSUME NEW q \in Seq(Requests), q = <<>>
            PROVE  Elems(Append(q, "start")) = Elems(q) \cup {"start"}
        BY ElemsAppend DEF Requests
      <3>2. <<>> \in Seq(Requests)
        OBVIOUS
      <3> QED BY <2>1, <3>1, <3>2, ElemsEmpty, Zenon
    <2> QED BY <1>4, <2>2 DEF SendStart
  <1>5. CASE Read
    <2>1. /\ Head(toClient) \in Responses
          /\ Elems(toClient) = {Head(toClient)} \cup Elems(toClient')
      BY <1>5, Takes DEF Read
    <2> QED BY <1>5, <2>1 DEF Read, Responses
  <1>6. CASE TakeFirst \/ ContextDone
    BY <1>6 DEF TakeFirst, ContextDone, Flags
  <1>7. CASE GraceOver
    <2>1. caller \/ ~\E r \in Answers \cup Ends : Heard(r)
      BY <1>7, Conditions DEF GraceOver
    <2> QED BY <1>7, <2>1 DEF GraceOver
  <1>8. CASE SendCancel
    <2>1. Elems(toService') = Elems(toService) \cup {"cancel"}
      BY <1>8, Sends DEF SendCancel
    <2> QED BY <1>8, <2>1 DEF SendCancel
  <1>9. CASE SendCancelFails \/ CancelGraceOver
    BY <1>9 DEF SendCancelFails, CancelGraceOver
  <1>10. CASE CloseSend
    BY <1>10 DEF CloseSend
  <1>11. CASE Drain
    <2>1. /\ Head(toClient) \in Responses
          /\ Elems(toClient) = {Head(toClient)} \cup Elems(toClient')
      BY <1>11, Takes DEF Drain
    <2> QED BY <1>11, <2>1, Zenon DEF Drain
  <1> QED BY <1>1, <1>2, <1>3, <1>4, <1>5, <1>6, <1>7, <1>8, <1>9, <1>10, <1>11,
      Zenon DEF Execute

\* The service's steps and the loss of the connection keep it, too.
LEMMA ServiceTimely ==
    ASSUME IInv, Timely, SaidAndReturned,
           Service \/ WriteProgress \/ LoseConnection
    PROVE  Timely' /\ SaidAndReturned'
  <1> USE DEF IInv, AnswersTrue, Heard, CancelSent, Progress, Timely, SaidAndReturned,
         Answers, Ends, clientVars, contextVars, serviceVars, serviceFrame
  <1> Typed
    OBVIOUS
  <1>1. ASSUME NEW r, Receive(r)
        PROVE  /\ Elems(toService) = {r} \cup Elems(toService')
               /\ pc # "open" /\ (r = "start" => service = "idle")
    <2>1. toService # <<>>
      BY <1>1 DEF Receive
    <2> QED BY <1>1, <2>1, Receives DEF StartFirst
  <1>2. CASE Accept
    BY <1>1, <1>2 DEF Accept
  <1>3. CASE Refuse
    <2>1. Elems(toClient') = Elems(toClient) \cup {"refused"}
      BY <1>3, Responds DEF Refuse, Responses
    <2> QED BY <1>1, <1>3, <2>1 DEF Refuse
  <1>4. CASE ReadCancel
    BY <1>1, <1>4 DEF ReadCancel
  <1>5. CASE Answer
    <2>1. outcome' \in Answers /\ Send(outcome')
      BY <1>5 DEF Answer
    <2>2. Elems(toClient') = Elems(toClient) \cup {outcome'}
      BY <2>1, Responds DEF Responses
    <2>3. pc # "open"
      BY <1>5 DEF Answer, StartFirst
    <2> QED BY <1>5, <2>1, <2>2, <2>3 DEF Answer
  <1>6. CASE Throw
    BY <1>6 DEF Throw
  <1>7. CASE EndStream
    <2>1. Elems(toClient') = Elems(toClient) \cup {"eof"}
      BY <1>7, Responds DEF EndStream, Responses
    <2>2. Elems(toService) = {"halfClose"} \cup Elems(toService') /\ pc # "open"
      BY <1>1, <1>7 DEF EndStream
    <2> QED BY <1>7, <2>1, <2>2 DEF EndStream
  <1>8. CASE WriteProgress
    <2>1. Elems(toClient') = Elems(toClient) \cup {"progress"}
      BY <1>8, Responds DEF WriteProgress, Responses
    <2>2. pc # "open"
      BY <1>8 DEF WriteProgress, StartFirst
    <2> QED BY <1>8, <2>1, <2>2 DEF WriteProgress
  <1>9. CASE LoseConnection
    <2>1. PICK n \in 0 .. Len(toClient) :
              \/ link' = "broken" /\ toClient' = Append(SubSeq(toClient, 1, n), "broken")
              \/ link' = "silent" /\ toClient' = SubSeq(toClient, 1, n)
      BY <1>9 DEF LoseConnection
    <2>2. SubSeq(toClient, 1, n) \in Seq(Responses)
          /\ Elems(SubSeq(toClient, 1, n)) \subseteq Elems(toClient)
      BY ElemsSubSeq DEF Typed
    <2>3. ASSUME NEW q \in Seq(Responses)
          PROVE  Elems(Append(q, "broken")) = Elems(q) \cup {"broken"}
      BY ElemsAppend DEF Responses
    <2>4. Elems(toClient') \subseteq Elems(toClient) \cup {"broken"}
      BY <2>1, <2>2, <2>3, Zenon
    <2>5. /\ link' # "up"
          /\ UNCHANGED <<clientVars, contextVars, toService, serviceVars>>
      BY <1>9 DEF LoseConnection
    <2> QED BY <2>4, <2>5
  <1> QED BY <1>2, <1>3, <1>4, <1>5, <1>6, <1>7, <1>8, <1>9, Zenon DEF Service

\* What holds at first.
LEMMA InitCallInv == Init => CallInv
  <1> SUFFICES ASSUME Init PROVE CallInv
    OBVIOUS
  <1>1. IInv
    BY InitIInv
  <1>2. Elems(toService) = {} /\ Elems(toClient) = {}
    BY ElemsEmpty, Zenon DEF Init
  <1>3. caller \in BOOLEAN /\ inTime \in BOOLEAN /\ cancelled \in BOOLEAN
    BY Zenon DEF Init
  <1> QED BY <1>1, <1>2, <1>3 DEF Init, CallInv, Timely, Heard, SaidAndReturned, Flags

\* And every step keeps it.
LEMMA NextCallInv == CallInv /\ [Next]_vars => CallInv'
  <1> SUFFICES ASSUME CallInv, [Next]_vars PROVE CallInv'
    OBVIOUS
  <1>1. IInv' /\ Flags'
    BY NextIInv, FlagsKept DEF CallInv
  <1>2. CASE UNCHANGED vars
    BY <1>1, <1>2, Zenon DEF vars, clientVars, contextVars, serviceVars, CallInv, Timely,
                      SaidAndReturned, Heard, Elems
  <1>3. CASE CallerEnds \/ DeadlinePasses \/ Execute \/ Read
    BY <1>1, <1>3, ClientTimely DEF CallInv
  <1>4. CASE Service \/ WriteProgress \/ LoseConnection
    BY <1>1, <1>4, ServiceTimely DEF CallInv
  <1> QED BY <1>2, <1>3, <1>4 DEF Next

\* It says what the runs check.
LEMMA CallInvSays == CallInv => TypeOK /\ ArrivedInTimeIsReturned /\ NothingLeftRunning
  <1> SUFFICES ASSUME CallInv PROVE TypeOK /\ ArrivedInTimeIsReturned /\ NothingLeftRunning
    OBVIOUS
  <1>1. TypeOK
    BY Zenon DEF CallInv, IInv, Typed, Flags, TypeOK, Requests, Responses
  <1>2. ArrivedInTimeIsReturned
    BY DEF CallInv, SaidAndReturned, ArrivedInTimeIsReturned
  <1> QED BY <1>1, <1>2 DEF CallInv, IInv

\* A step in which Execute returns is one BackendCall allows.
LEMMA ReturnsAllowed ==
    ASSUME IInv, Execute, result' # result
    PROVE  Call!Return
  <1> USE DEF IInv, AnswersTrue, Heard, CancelSent, Progress, Answers, Ends, clientVars,
              contextVars, serviceVars, clientFrame, Goto, Returned
  <1> Typed
    OBVIOUS
  <1>1. UNCHANGED <<cause, outcome>>
    BY Zenon DEF Execute, NotStarted, SendStart, SendStartFails, TakeFirst, ContextDone,
       GraceOver, SendCancel, SendCancelFails, CancelGraceOver, CloseSend, Drain
  <1>2. pc # "returned" /\ result = "none"
    BY Zenon DEF Execute, NotStarted, SendStart, SendStartFails, TakeFirst, ContextDone,
       GraceOver, SendCancel, SendCancelFails, CancelGraceOver, CloseSend, Drain
  <1>3. result' \in Call!Results /\ Call!MayReturn(result', cause # "none", outcome)
    <2> USE DEF Call!Results, Call!MayReturn
    <2>1. CASE \/ NotStarted \/ SendStartFails \/ SendCancelFails
               \/ CancelGraceOver
      BY <2>1 DEF NotStarted, SendStartFails, SendCancelFails, CancelGraceOver
    <2>2. CASE CloseSend
      BY <2>2 DEF CloseSend
    <2>3. CASE Drain
      BY <2>3 DEF Drain
    <2>4. CASE \/ SendStart \/ TakeFirst \/ ContextDone \/ GraceOver
               \/ SendCancel
      BY <2>4 DEF SendStart, TakeFirst, ContextDone, GraceOver, SendCancel
    <2> QED BY <2>1, <2>2, <2>3, <2>4 DEF Execute
  <1> QED BY <1>1, <1>2, <1>3 DEF Call!Return

\* Execute implements BackendCall, step by step: "ok" is returned for an execution that ran to its
\* end and was not cancelled, a *BusyError for one that was refused, and a cancellation only when
\* the context had ended (client.go).
LEMMA StepAllowed ==
    ASSUME CallInv, [Next]_vars
    PROVE  [Call!EndContext \/ Call!Settle \/ Call!Return]_<<cause # "none", outcome, result>>
  <1>1. CASE CallerEnds \/ DeadlinePasses
    BY <1>1 DEF CallerEnds, DeadlinePasses, Call!EndContext, clientVars, serviceVars
  <1>2. CASE Execute
    <2>1. UNCHANGED <<cause, outcome>>
      BY <1>2, Zenon DEF Execute, NotStarted, SendStart, SendStartFails, TakeFirst,
         ContextDone, GraceOver, SendCancel, SendCancelFails, CancelGraceOver, CloseSend,
         Drain, clientFrame, contextVars, serviceVars
    <2> QED BY <1>2, <2>1, ReturnsAllowed DEF CallInv
  <1>3. CASE Read \/ WriteProgress \/ LoseConnection \/ UNCHANGED vars
    BY <1>3 DEF Read, WriteProgress, LoseConnection, vars, clientFrame, serviceFrame,
                clientVars, contextVars, serviceVars
  <1>4. CASE Service
    <2>1. UNCHANGED <<cause, result>>
      BY <1>4 DEF Service, Accept, Refuse, ReadCancel, Answer, Throw, EndStream,
         serviceFrame, clientVars, contextVars
    <2>2. outcome' # outcome => outcome = "unknown" /\ outcome' \in Call!Outcomes
      <3>1. CASE Refuse
        <4>1. Receive("start") /\ toService # <<>> /\ outcome' = "refused"
          BY <3>1 DEF Refuse, Receive
        <4>2. "start" \in Elems(toService)
          BY <4>1, Receives DEF CallInv, IInv
        <4> QED BY <4>1, <4>2 DEF CallInv, IInv, StartFirst, AnswersTrue, Call!Outcomes
      <3>2. CASE Answer
        BY <3>2 DEF Answer, CallInv, IInv, AnswersTrue, Call!Outcomes, Answers
      <3>3. CASE Accept \/ ReadCancel \/ Throw \/ EndStream
        BY <3>3 DEF Accept, ReadCancel, Throw, EndStream
      <3> QED BY <1>4, <3>1, <3>2, <3>3 DEF Service
    <2> QED BY <2>1, <2>2 DEF Call!Settle
  <1> QED BY <1>1, <1>2, <1>3, <1>4 DEF Next

\* What the service said in time is what Execute returns, a refusal included, and when it has
\* returned, however it did, no service that can be reached still runs the execution without
\* having been asked to stop: with queues of any length.
THEOREM Invariance == Spec => [](TypeOK /\ ArrivedInTimeIsReturned /\ NothingLeftRunning)
  BY InitCallInv, NextCallInv, CallInvSays, PTL DEF Spec

\* Execute implements BackendCall.
THEOREM Refinement == Spec => ImplementsCall
  <1>1. Init => Call!Init
    BY DEF Init, Call!Init
  <1>2. CallInv /\ [Next]_vars =>
          [Call!EndContext \/ Call!Settle \/ Call!Return]_<<cause # "none", outcome, result>>
    BY StepAllowed
  <1> QED BY <1>1, <1>2, InitCallInv, NextCallInv, PTL DEF Spec, ImplementsCall, Call!Spec
=============================================================================
