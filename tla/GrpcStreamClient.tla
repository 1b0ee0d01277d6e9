-------------------------- MODULE GrpcStreamClient --------------------------
(***************************************************************************)
(* GrpcStreamBenchmarkClientImpl: a fixed number of bidirectional streams  *)
(* opened in prepare(), messages sent on them in turn and completed by     *)
(* their echoes in order, half-closed and drained in finish().             *)
(*                                                                         *)
(* An action is a callback of the worker's dispatcher, or a call of the    *)
(* worker between two runs of it; the dispatcher does not run between      *)
(* finish() and terminate(). A stream that was still opening when          *)
(* prepare() stopped waiting may open later, even during the drain.        *)
(***************************************************************************)
EXTENDS Integers, FiniteSets, FiniteSetsExt

CONSTANTS
    Streams,      \* stream_count_
    MaxInflight,  \* max_inflight_per_stream_
    MaxSends      \* bound: messages sent

VARIABLES
    phase, exiting,   \* where the worker is; the dispatcher was asked to exit
    stream,           \* streams_
    nextStream, pendingOpens,
    opened, openFailures, statuses, drainIncomplete,
    sent, received, lost

opens == <<pendingOpens, opened, openFailures>>
messages == <<sent, received, lost>>
vars == <<phase, exiting, stream, nextStream, opens, statuses, drainIncomplete, messages>>

Index == 0 .. Streams - 1
In(states) == {i \in Index : stream[i].state \in states}
OpenStreams == In({"open", "halfClosed"})
Dispatching == phase \in {"preparing", "running", "draining"}
Outstanding(is) == MapThenSumSet(LAMBDA i : stream[i].inflight, is)
\* completeInflight without success: what is outstanding on the streams in `is` is lost.
LostWith(is) == lost' = lost + Outstanding(is)

TypeOK ==
    /\ phase \in {"new", "preparing", "running", "draining", "finished", "terminated"}
    /\ exiting \in BOOLEAN
    /\ stream \in [Index -> [state : {"opening", "open", "halfClosed", "closed"},
                             inflight : 0 .. MaxInflight, blocked : BOOLEAN]]
    /\ nextStream \in Index /\ pendingOpens \in 0 .. Streams
    /\ {opened, openFailures, statuses, drainIncomplete} \subseteq 0 .. Streams
    /\ {sent, received, lost} \subseteq 0 .. MaxSends

Init ==
    /\ phase = "new" /\ exiting = FALSE
    /\ stream = [i \in Index |-> [state |-> "opening", inflight |-> 0, blocked |-> FALSE]]
    /\ nextStream = 0 /\ pendingOpens = 0
    /\ opened = 0 /\ openFailures = 0 /\ statuses = 0 /\ drainIncomplete = 0
    /\ sent = 0 /\ received = 0 /\ lost = 0

\* openStream: a stream the cluster has no pool for fails at once.
OpenStream(i, pooled) == IF pooled THEN stream[i] ELSE [stream[i] EXCEPT !.state = "closed"]

Prepare ==
    /\ phase = "new"
    /\ \E pooled \in SUBSET Index :
         /\ stream' = [i \in Index |-> OpenStream(i, i \in pooled)]
         /\ pendingOpens' = Cardinality(pooled)
         /\ openFailures' = Streams - Cardinality(pooled)
         /\ phase' = IF pooled = {} THEN "running" ELSE "preparing"
    /\ UNCHANGED <<exiting, nextStream, opened, statuses, drainIncomplete, messages>>

\* prepare()'s run of the dispatcher returns: asked to, or on the open timeout.
PrepareReturns ==
    /\ phase = "preparing"
    /\ phase' = "running" /\ exiting' = FALSE
    /\ UNCHANGED <<stream, nextStream, opens, statuses, drainIncomplete, messages>>

MaybeExitWaitLoop ==
    exiting' = \/ exiting
               \/ phase = "preparing" /\ pendingOpens' = 0
               \/ phase = "draining" /\ OpenStreams' = {}

\* onStreamReady; encoding the headers may fail.
OnStreamReady(i) ==
    /\ Dispatching /\ stream[i].state = "opening"
    /\ pendingOpens' = pendingOpens - 1
    /\ \/ /\ stream' = [stream EXCEPT ![i].state = "open"]
          /\ opened' = opened + 1 /\ UNCHANGED openFailures
       \/ /\ stream' = [stream EXCEPT ![i].state = "closed"]
          /\ openFailures' = openFailures + 1 /\ UNCHANGED opened
    /\ MaybeExitWaitLoop
    /\ UNCHANGED <<phase, nextStream, statuses, drainIncomplete, messages>>

PendingAfterFailure == pendingOpens - 1

OnStreamOpenFailure(i) ==
    /\ Dispatching /\ stream[i].state = "opening"
    /\ stream' = [stream EXCEPT ![i].state = "closed"]
    /\ openFailures' = openFailures + 1 /\ pendingOpens' = PendingAfterFailure
    /\ MaybeExitWaitLoop
    /\ UNCHANGED <<phase, nextStream, opened, statuses, drainIncomplete, messages>>

CanSend(r) == r.state = "open" /\ ~r.blocked /\ r.inflight < MaxInflight

\* A message for the next stream, dropped when that one cannot send.
TryStartRequest ==
    /\ phase = "running"
    /\ nextStream' = (nextStream + 1) % Streams
    /\ \/ ~CanSend(stream[nextStream]) /\ UNCHANGED <<stream, sent>>
       \/ /\ CanSend(stream[nextStream]) /\ sent < MaxSends
          /\ stream' = [stream EXCEPT ![nextStream].inflight = @ + 1]
          /\ sent' = sent + 1
    /\ UNCHANGED <<phase, exiting, opens, statuses, drainIncomplete, received, lost>>

\* onResponseData: a whole frame answers the oldest message; one too many changes nothing.
OnResponseData(i) ==
    /\ Dispatching /\ stream[i].inflight > 0
    /\ stream' = [stream EXCEPT ![i].inflight = @ - 1]
    /\ received' = received + 1
    /\ UNCHANGED <<phase, exiting, nextStream, opens, statuses, drainIncomplete, sent, lost>>

\* closeStream, with one grpcStatusCounter.
CloseStream(i) ==
    /\ Dispatching /\ i \in OpenStreams
    /\ stream' = [stream EXCEPT ![i].state = "closed", ![i].inflight = 0]
    /\ statuses' = statuses + 1
    /\ LostWith({i})
    /\ UNCHANGED <<phase, nextStream, opens, drainIncomplete, sent, received>>
    /\ MaybeExitWaitLoop

\* A trailers-only response, the response's trailers (or last data), a reset.
OnResponseHeaders(i) == CloseStream(i)
OnResponseTrailers(i) == CloseStream(i)
OnStreamReset(i) == CloseStream(i)

OnWriteBlocked(i) ==
    /\ Dispatching /\ stream[i].state = "open"
    /\ stream' = [stream EXCEPT ![i].blocked = ~@]
    /\ UNCHANGED <<phase, exiting, nextStream, opens, statuses, drainIncomplete, messages>>

\* finish(): half-close what is open, and wait unless nothing is.
Finish ==
    /\ phase = "running"
    /\ stream' = [i \in Index |-> IF stream[i].state = "open"
                                  THEN [stream[i] EXCEPT !.state = "halfClosed", !.blocked = FALSE]
                                  ELSE stream[i]]
    /\ phase' = IF OpenStreams = {} THEN "finished" ELSE "draining"
    /\ UNCHANGED <<exiting, nextStream, opens, statuses, drainIncomplete, messages>>

StillOpen == OpenStreams
\* The drain's run of the dispatcher returns: asked to, or on its timer.
DrainReturns ==
    /\ phase = "draining"
    /\ phase' = "finished" /\ exiting' = FALSE
    /\ drainIncomplete' = drainIncomplete + Cardinality(StillOpen)
    /\ LostWith(StillOpen)
    /\ stream' = [i \in Index |-> IF i \in StillOpen THEN [stream[i] EXCEPT !.inflight = 0]
                                  ELSE stream[i]]
    /\ UNCHANGED <<nextStream, opens, statuses, sent, received>>

\* terminate(): cancels what is opening, resets what is open.
Terminate ==
    /\ phase = "finished"
    /\ phase' = "terminated"
    /\ stream' = [i \in Index |-> [stream[i] EXCEPT !.state = "closed", !.inflight = 0]]
    /\ pendingOpens' = pendingOpens - Cardinality(In({"opening"}))
    /\ LostWith(Index)
    /\ UNCHANGED <<exiting, nextStream, opened, openFailures, statuses, drainIncomplete, sent,
                   received>>

Next ==
    \/ Prepare \/ PrepareReturns \/ TryStartRequest \/ Finish \/ DrainReturns \/ Terminate
    \/ \E i \in Index : \/ OnStreamReady(i) \/ OnStreamOpenFailure(i) \/ OnResponseData(i)
                        \/ OnResponseHeaders(i) \/ OnResponseTrailers(i) \/ OnStreamReset(i)
                        \/ OnWriteBlocked(i)

Spec == Init /\ [][Next]_vars

(***************************************************************************)
(* Properties                                                              *)
(***************************************************************************)
\* Every message sent is received, lost or outstanding, and finish() leaves none outstanding
\* (stream_messages_sent, stream_messages_received, stream_inflight_lost).
MessagesAddUp ==
    /\ sent = received + lost + Outstanding(Index)
    /\ phase \in {"finished", "terminated"} => Outstanding(Index) = 0

\* Every stream opened, failed to or is still opening, and pending_opens_ counts the last.
OpensAddUp ==
    /\ phase # "new" => pendingOpens = Cardinality(In({"opening"}))
    /\ phase \notin {"new", "terminated"} => opened + openFailures + pendingOpens = Streams

\* An opened stream ends with exactly one stream_grpc_status entry or, when the drain did not
\* see it close, with none and one in stream_drain_incomplete.
StatusPerStream ==
    /\ phase # "terminated" => opened = statuses + Cardinality(OpenStreams)
    /\ phase = "terminated" => opened = statuses + drainIncomplete

\* A wait whose condition is met has asked the dispatcher to exit: neither prepare() nor
\* finish() sits out its timer for nothing.
NoIdleWait ==
    /\ phase = "preparing" /\ pendingOpens = 0 => exiting
    /\ phase = "draining" /\ OpenStreams = {} => exiting
=============================================================================
