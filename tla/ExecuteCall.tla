---------------------------- MODULE ExecuteCall ----------------------------
(***************************************************************************)
(* nh.Execute (internal/nh/client.go): one call, its reading goroutine,    *)
(* the stream it opens, and the service at the other end of it.            *)
(*                                                                         *)
(* The stream is two queues. Its context is not the caller's: the          *)
(* cancellation has to travel on it after the caller's context has ended.  *)
(* The service is ExecutionService seen from one stream: it refuses or     *)
(* accepts, answers once, and ends the stream after the client's           *)
(* half-close. Timeouts are steps whose guards say what their length is    *)
(* long enough for.                                                        *)
(***************************************************************************)
EXTENDS Sequences, Functions

VARIABLES
    pc,         \* where Execute is
    cause,      \* why its context ended: "none", "caller" or "deadline"
    caller,     \* the caller of WithBackendDeadline wants the run stopped
    gotten,     \* what the reader delivered on `first`, "none" before
    cancelled,  \* Execute's local of that name
    result,     \* what Execute returned, see BackendCall
    toService,  \* requests on their way
    toClient,   \* responses, and the stream's end, on their way
    service,    \* the stream's execution on the service
    outcome,    \* what became of it, see BackendCall
    link,       \* "up", or how the connection was lost: "broken", "silent"
    inTime      \* history: the answer had arrived when the deadline passed

clientVars == <<pc, gotten, cancelled, result>>
contextVars == <<cause, caller, inTime>>
serviceVars == <<service, outcome>>
vars == <<clientVars, contextVars, toService, toClient, serviceVars, link>>

\* Responses without `progress`, and the ways a stream ends.
Answers == {"complete", "error", "partial"}
Ends == {"eof", "refused", "broken"}

TypeOK ==
    /\ pc \in {"open", "await", "grace", "cancel", "awaitCancel", "closeSend", "drain",
               "returned"}
    /\ cause \in {"none", "caller", "deadline"}
    /\ caller \in BOOLEAN
    /\ gotten \in {"none"} \cup Answers \cup Ends
    /\ cancelled \in BOOLEAN
    /\ result \in {"none", "ok", "reported", "stopped", "cancelled", "busy", "failed"}
    /\ toService \in Seq({"start", "cancel", "halfClose"})
    /\ toClient \in Seq({"progress"} \cup Answers \cup Ends)
    /\ service \in {"idle", "running", "stopping", "answered", "dead", "ended"}
    /\ outcome \in {"unknown", "refused"} \cup Answers
    /\ link \in {"up", "broken", "silent"}
    /\ inTime \in BOOLEAN

Init ==
    /\ pc = "open"
    /\ cause = "none" /\ caller = FALSE /\ inTime = FALSE
    /\ gotten = "none" /\ cancelled = FALSE /\ result = "none"
    /\ toService = <<>> /\ toClient = <<>>
    /\ service = "idle" /\ outcome = "unknown"
    /\ link = "up"

Goto(from, to) == pc = from /\ pc' = to

Returned(r) == result' = r /\ UNCHANGED <<gotten, cancelled>>

\* What has arrived: read, or there for the reader.
Arrived(set) == gotten \in set \/ \E i \in DOMAIN toClient : toClient[i] \in set

-----------------------------------------------------------------------------
(* The context.                                                            *)

\* The caller's context ends: the user interrupts, or the stage is stopped.
CallerEnds ==
    /\ ~caller /\ pc # "returned"
    /\ caller' = TRUE
    /\ cause' = IF cause = "none" THEN "caller" ELSE cause
    /\ UNCHANGED <<clientVars, toService, toClient, serviceVars, link, inTime>>

\* The deadline for the backend's answer passes.
DeadlinePasses ==
    /\ cause = "none" /\ pc # "returned"
    /\ cause' = "deadline"
    /\ inTime' = Arrived(Answers \cup Ends)
    /\ UNCHANGED <<clientVars, caller, toService, toClient, serviceVars, link>>

-----------------------------------------------------------------------------
(* Execute.                                                                *)

clientFrame == <<contextVars, serviceVars, link>>

\* A context that has already ended starts nothing.
NotStarted ==
    /\ cause # "none"
    /\ Goto("open", "returned")
    /\ Returned("cancelled")
    /\ UNCHANGED <<toService, toClient, clientFrame>>

SendStart ==
    /\ cause = "none" /\ link # "broken"
    /\ Goto("open", "await")
    /\ toService' = Append(toService, "start")
    /\ UNCHANGED <<gotten, cancelled, result, toClient, clientFrame>>

\* The stream could not be opened, or had ended before the start was sent.
SendStartFails ==
    /\ cause = "none" /\ link = "broken"
    /\ Goto("open", "returned")
    /\ Returned("failed")
    /\ UNCHANGED <<toService, toClient, clientFrame>>

\* The reading goroutine: interim responses go to progress.Fn, the first other
\* one, or the stream's end, to `first`.
Read ==
    /\ pc # "open" /\ gotten = "none" /\ toClient # <<>>
    /\ gotten' = IF Head(toClient) = "progress" THEN "none" ELSE Head(toClient)
    /\ toClient' = Tail(toClient)
    /\ UNCHANGED <<pc, cancelled, result, toService, clientFrame>>

\* Either select that waits for `first`, or the one after the cancellation.
TakeFirst ==
    /\ gotten # "none"
    /\ \E from \in {"await", "grace", "awaitCancel"} : Goto(from, "closeSend")
    /\ UNCHANGED <<gotten, cancelled, result, toService, toClient, clientFrame>>

\* ctx.Done(): a missed deadline first gets its grace.
ContextDone ==
    /\ cause # "none"
    /\ Goto("await", IF cause = "deadline" THEN "grace" ELSE "cancel")
    /\ UNCHANGED <<gotten, cancelled, result, toService, toClient, clientFrame>>

\* callerDone, or arrivedGrace: long enough to read what had already arrived.
GraceOver ==
    /\ caller \/ ~Arrived(Answers \cup Ends)
    /\ Goto("grace", "cancel")
    /\ UNCHANGED <<gotten, cancelled, result, toService, toClient, clientFrame>>

\* Fault: the run is given up without the service being told.
SendCancelNotSent ==
    /\ Goto("cancel", "returned")
    /\ Returned("cancelled")
    /\ UNCHANGED <<toService, toClient, clientFrame>>

\* Fault: the cancellation is sent but not remembered.
SendCancelForgotten ==
    /\ ~Arrived(Ends)
    /\ Goto("cancel", "awaitCancel")
    /\ toService' = Append(toService, "cancel")
    /\ UNCHANGED <<gotten, cancelled, result, toClient, clientFrame>>

SendCancel ==
    /\ ~Arrived(Ends)
    /\ Goto("cancel", "awaitCancel")
    /\ cancelled' = TRUE
    /\ toService' = Append(toService, "cancel")
    /\ UNCHANGED <<gotten, result, toClient, clientFrame>>

\* The stream has ended by the time the cancellation is sent.
SendCancelFails ==
    /\ Arrived(Ends)
    /\ Goto("cancel", "returned")
    /\ Returned("cancelled")
    /\ UNCHANGED <<toService, toClient, clientFrame>>

\* cancelGrace: long enough for a service that can be reached to have read the
\* cancellation, though not always to have answered it.
CancelGraceOver ==
    /\ gotten = "none" /\ (link = "up" => toService = <<>>)
    /\ Goto("awaitCancel", "returned")
    /\ Returned("cancelled")
    /\ UNCHANGED <<toService, toClient, clientFrame>>

\* The half-close, and what `first` delivered: a response, or the end.
CloseSend ==
    /\ \/ /\ gotten \in Answers
          /\ Goto("closeSend", "drain")
          /\ UNCHANGED result
       \/ /\ gotten \in Ends
          /\ Goto("closeSend", "returned")
          /\ result' = IF gotten = "refused" THEN "busy" ELSE "failed"
    /\ toService' = Append(toService, "halfClose")
    /\ UNCHANGED <<gotten, cancelled, toClient, clientFrame>>

\* The drain after a response: only a clean end lets the response count.
Drain ==
    /\ toClient # <<>>
    /\ toClient' = Tail(toClient)
    /\ \/ /\ Head(toClient) \notin Ends
          /\ Goto("drain", "drain") /\ UNCHANGED result
       \/ /\ Head(toClient) = "eof"
          /\ Goto("drain", "returned")
          /\ result' = IF cancelled THEN "stopped"
                       ELSE IF gotten = "error" THEN "reported" ELSE "ok"
       \/ /\ Head(toClient) \in Ends \ {"eof"}
          /\ Goto("drain", "returned")
          /\ result' = "failed"
    /\ UNCHANGED <<gotten, cancelled, toService, clientFrame>>

-----------------------------------------------------------------------------
(* The service, as one stream sees it.                                     *)

serviceFrame == <<clientVars, contextVars, link>>

Receive(request) ==
    /\ link = "up" /\ toService # <<>>
    /\ Head(toService) = request
    /\ toService' = Tail(toService)

Send(response) == toClient' = Append(toClient, response)

Accept ==
    /\ Receive("start")
    /\ service' = "running"
    /\ UNCHANGED <<outcome, toClient, serviceFrame>>

Refuse ==
    /\ Receive("start")
    /\ service' = "ended" /\ outcome' = "refused"
    /\ Send("refused")
    /\ UNCHANGED serviceFrame

\* An interim response; bound: one on its way at a time.
WriteProgress ==
    /\ link = "up" /\ service \in {"running", "stopping"} /\ "progress" \notin Range(toClient)
    /\ Send("progress")
    /\ UNCHANGED <<toService, serviceVars, serviceFrame>>

ReadCancel ==
    /\ Receive("cancel")
    /\ service' = IF service = "running" THEN "stopping" ELSE service
    /\ UNCHANGED <<outcome, toClient, serviceFrame>>

\* The final response of an execution that ended by itself, or was cancelled.
Answer ==
    /\ link = "up"
    /\ \/ service = "running" /\ outcome' \in {"complete", "error"}
       \/ service = "stopping" /\ outcome' \in Answers
    /\ service' = "answered"
    /\ Send(outcome')
    /\ UNCHANGED <<toService, serviceFrame>>

\* An execution whose thread ended with an exception answers nothing.
Throw ==
    /\ link = "up" /\ service \in {"running", "stopping"}
    /\ service' = "dead"
    /\ UNCHANGED <<toService, toClient, outcome, serviceFrame>>

\* The handler ends the stream once it has read the half-close.
EndStream ==
    /\ service \in {"answered", "dead"}
    /\ Receive("halfClose")
    /\ service' = "ended"
    /\ Send("eof")
    /\ UNCHANGED <<outcome, serviceFrame>>

\* The connection is lost, with any of what is on its way to the client: the
\* client is told (a reset), or hears nothing more (a frozen node).
LoseConnection ==
    /\ link = "up" /\ pc # "returned"
    /\ \E n \in 0 .. Len(toClient) :
          \/ link' = "broken" /\ toClient' = Append(SubSeq(toClient, 1, n), "broken")
          \/ link' = "silent" /\ toClient' = SubSeq(toClient, 1, n)
    /\ UNCHANGED <<clientVars, contextVars, toService, serviceVars>>

-----------------------------------------------------------------------------
Execute ==
    \/ NotStarted \/ SendStart \/ SendStartFails \/ TakeFirst \/ ContextDone
    \/ GraceOver \/ SendCancel \/ SendCancelFails \/ CancelGraceOver \/ CloseSend \/ Drain

Service ==
    \/ Accept \/ Refuse \/ ReadCancel \/ Answer \/ Throw \/ EndStream

Next ==
    \/ CallerEnds \/ DeadlinePasses \/ Execute \/ Read
    \/ Service \/ WriteProgress \/ LoseConnection

Spec == Init /\ [][Next]_vars

\* The client's goroutines run and its timers fire; a service that is reached
\* reads its stream. Nothing is assumed of when an execution ends.
FairSpec ==
    /\ Spec
    /\ WF_vars(Execute)
    /\ WF_vars(Read)
    /\ WF_vars(Accept \/ Refuse \/ ReadCancel \/ EndStream)

-----------------------------------------------------------------------------
(* Properties                                                              *)

Call == INSTANCE BackendCall WITH ended <- cause # "none"

\* Execute keeps the promise its caller relies on: a response without error is
\* that of an execution that ran to its end, a cancelled run is never returned
\* as a complete one, and a *BusyError means that nothing was started.
ImplementsCall == Call!Spec

\* What the service says is what Execute returns, a refusal at the cap included
\* (the runner stops the stage on nothing else), when it arrived before the
\* deadline passed, the caller did not give up and the connection held: the
\* deadline's grace is for what had already arrived.
ArrivedInTimeIsReturned ==
    result # "none" /\ (cause = "none" \/ inTime) /\ ~caller /\ link = "up" =>
        result = CASE outcome = "complete" -> "ok"
                   [] outcome = "error" -> "reported"
                   [] outcome = "refused" -> "busy"

\* When Execute has returned, no service it can reach still runs the execution
\* without having been asked to stop.
NothingLeftRunning ==
    result # "none" /\ link = "up" => service # "running" /\ "start" \notin Range(toService)

\* A backend that "goes SILENT" does not hold the run up for ever: Execute
\* returns once its deadline has passed (run.go, backendDeadline).
ExecuteReturns == (cause # "none") ~> (pc = "returned")
=============================================================================
