-------------------------- MODULE WebSocketClient --------------------------
(***************************************************************************)
(* WebSocketStreamBenchmarkClientImpl: connections upgraded in prepare(),  *)
(* numbered messages sent on them in turn and completed by the message     *)
(* that carries the number back on the same connection, and the closing    *)
(* handshake of finish(). Frames are what WebSocketFrames decodes.         *)
(*                                                                         *)
(* Resetting a stream calls onStreamReset, which finds it closed and does  *)
(* nothing. The dispatcher does not run between finish() and terminate().  *)
(***************************************************************************)
EXTENDS Integers, FiniteSets, FiniteSetsExt

CONSTANTS
    Streams,      \* stream_count_
    MaxInflight,  \* max_inflight_per_stream_
    MaxSends      \* bound: messages sent

VARIABLES
    phase, exiting,   \* where the worker is; the dispatcher was asked to exit
    stream,           \* streams_
    nextStream, nextSequence, pendingOpens,
    opened, openFailures, rejected, drainIncomplete,
    received, lost,
    lateFrame         \* history: a frame was sent after our Close frame

opens == <<pendingOpens, opened, openFailures, rejected>>
messages == <<nextStream, nextSequence, received, lost>>
vars == <<phase, exiting, stream, opens, drainIncomplete, messages, lateFrame>>

Index == 0 .. Streams - 1
Numbers == 0 .. MaxSends - 1
In(states) == {i \in Index : stream[i].state \in states}
OpenStreams == In({"open", "closing"})
Dispatching == phase \in {"preparing", "running", "draining"}
Outstanding == MapThenSumSet(LAMBDA i : Cardinality(stream[i].inflight), Index)

TypeOK ==
    /\ phase \in {"new", "preparing", "running", "draining", "finished", "terminated"}
    /\ exiting \in BOOLEAN /\ lateFrame \in BOOLEAN
    /\ stream \in [Index -> [state : {"opening", "open", "closing", "closed"},
                             encoder : BOOLEAN, closeSent : BOOLEAN, blocked : BOOLEAN,
                             inflight : {q \in SUBSET Numbers : Cardinality(q) <= MaxInflight}]]
    /\ nextStream \in Index /\ nextSequence \in 0 .. MaxSends
    /\ {pendingOpens, opened, openFailures, rejected, drainIncomplete} \subseteq 0 .. Streams
    /\ {received, lost} \subseteq 0 .. MaxSends

Init ==
    /\ phase = "new" /\ exiting = FALSE /\ lateFrame = FALSE
    /\ stream = [i \in Index |-> [state |-> "opening", encoder |-> FALSE, closeSent |-> FALSE,
                                  blocked |-> FALSE, inflight |-> {}]]
    /\ nextStream = 0 /\ nextSequence = 0 /\ pendingOpens = 0
    /\ opened = 0 /\ openFailures = 0 /\ rejected = 0 /\ drainIncomplete = 0
    /\ received = 0 /\ lost = 0

Closed(r) == [r EXCEPT !.state = "closed", !.encoder = FALSE, !.inflight = {},
                       !.blocked = FALSE]

\* openStream: a connection the cluster has no pool for fails at once.
OpenStream(i, pooled) == IF pooled THEN stream[i] ELSE Closed(stream[i])

Prepare ==
    /\ phase = "new"
    /\ \E pooled \in SUBSET Index :
         /\ stream' = [i \in Index |-> OpenStream(i, i \in pooled)]
         /\ pendingOpens' = Cardinality(pooled)
         /\ openFailures' = Streams - Cardinality(pooled)
         /\ phase' = IF pooled = {} THEN "running" ELSE "preparing"
    /\ UNCHANGED <<exiting, opened, rejected, drainIncomplete, messages, lateFrame>>

StillOpening == In({"opening"})
\* prepare()'s run of the dispatcher returns, asked to or on the open timeout: nothing joins
\* after it.
PrepareReturns ==
    /\ phase = "preparing"
    /\ phase' = "running" /\ exiting' = FALSE
    /\ stream' = [i \in Index |-> IF i \in StillOpening THEN Closed(stream[i]) ELSE stream[i]]
    /\ openFailures' = openFailures + Cardinality(StillOpening)
    /\ pendingOpens' = pendingOpens - Cardinality(StillOpening)
    /\ UNCHANGED <<opened, rejected, drainIncomplete, messages, lateFrame>>

MaybeExitWaitLoop ==
    exiting' = \/ exiting
               \/ phase = "preparing" /\ pendingOpens' = 0
               \/ phase = "draining" /\ OpenStreams' = {}

\* completeInflight without success.
LostWith(i) == Cardinality(stream[i].inflight)

\* closeStream of a connection that was not closed, however it got there.
CloseStream(i) ==
    /\ stream' = [stream EXCEPT ![i] = Closed(@)]
    /\ lost' = lost + LostWith(i)
    /\ UNCHANGED <<phase, drainIncomplete, nextStream, nextSequence, received>>
    /\ MaybeExitWaitLoop

\* A connect that ends without a response to its upgrade.
OpenFails(i) ==
    /\ pendingOpens' = pendingOpens - 1
    /\ openFailures' = openFailures + 1
    /\ UNCHANGED <<opened, rejected, lateFrame>>
    /\ CloseStream(i)

\* The upgrade request is out, or could not be encoded.
OnStreamReady(i) ==
    /\ Dispatching /\ stream[i].state = "opening" /\ ~stream[i].encoder
    /\ \/ /\ stream' = [stream EXCEPT ![i].encoder = TRUE]
          /\ UNCHANGED <<phase, exiting, opens, drainIncomplete, messages, lateFrame>>
       \/ OpenFails(i)

OnStreamOpenFailure(i) ==
    /\ Dispatching /\ stream[i].state = "opening" /\ ~stream[i].encoder
    /\ OpenFails(i)

PendingAfterResponse(accepted) == pendingOpens - 1
\* The first response headers: the 101 that was asked for, or a refusal.
OnResponseHeaders(i, accepted) ==
    /\ Dispatching /\ stream[i].state = "opening" /\ stream[i].encoder
    /\ pendingOpens' = PendingAfterResponse(accepted)
    /\ IF accepted
       THEN /\ stream' = [stream EXCEPT ![i].state = "open"]
            /\ opened' = opened + 1
            /\ UNCHANGED <<phase, openFailures, rejected, drainIncomplete, messages, lateFrame>>
            /\ MaybeExitWaitLoop
       ELSE /\ rejected' = rejected + 1
            /\ UNCHANGED <<opened, openFailures, lateFrame>>
            /\ CloseStream(i)

\* send: any frame of ours.
Send(i) == lateFrame' = (lateFrame \/ stream[i].closeSent)

CanSend(r) == r.state = "open" /\ ~r.blocked /\ Cardinality(r.inflight) < MaxInflight

TryStartRequest ==
    /\ phase = "running"
    /\ nextStream' = (nextStream + 1) % Streams
    /\ \/ ~CanSend(stream[nextStream]) /\ UNCHANGED <<stream, nextSequence, lateFrame>>
       \/ /\ CanSend(stream[nextStream]) /\ nextSequence < MaxSends
          /\ stream' = [stream EXCEPT ![nextStream].inflight = @ \cup {nextSequence}]
          /\ nextSequence' = nextSequence + 1
          /\ Send(nextStream)
    /\ UNCHANGED <<phase, exiting, opens, drainIncomplete, received, lost>>

\* A whole message with a number that is outstanding on this connection; any other is
\* stream_unexpected_message and changes nothing.
OnMessage(i, q) ==
    /\ Dispatching /\ i \in OpenStreams /\ q \in stream[i].inflight
    /\ stream' = [stream EXCEPT ![i].inflight = @ \ {q}]
    /\ received' = received + 1
    /\ UNCHANGED <<phase, exiting, opens, drainIncomplete, nextStream, nextSequence, lost,
                   lateFrame>>

AnswersPing(r) == r.state = "open"
OnPing(i) ==
    /\ Dispatching /\ i \in OpenStreams /\ AnswersPing(stream[i])
    /\ Send(i)
    /\ UNCHANGED <<phase, exiting, stream, opens, drainIncomplete, messages>>

\* The server's Close: answered when it closes first.
OnCloseFrame(i) ==
    /\ Dispatching /\ i \in OpenStreams
    /\ IF stream[i].state = "open" THEN Send(i) ELSE UNCHANGED lateFrame
    /\ UNCHANGED opens
    /\ CloseStream(i)

\* A frame the decoder refuses, and the end of the response.
OnProtocolError(i) ==
    /\ Dispatching /\ i \in OpenStreams /\ UNCHANGED <<opens, lateFrame>> /\ CloseStream(i)
OnResponseEnd(i) ==
    /\ Dispatching /\ i \in OpenStreams /\ UNCHANGED <<opens, lateFrame>> /\ CloseStream(i)

OnStreamReset(i) ==
    /\ Dispatching
    /\ \/ stream[i].state = "opening" /\ stream[i].encoder /\ OpenFails(i)
       \/ i \in OpenStreams /\ UNCHANGED <<opens, lateFrame>> /\ CloseStream(i)

OnWriteBlocked(i) ==
    /\ Dispatching /\ stream[i].state = "open"
    /\ stream' = [stream EXCEPT ![i].blocked = ~@]
    /\ UNCHANGED <<phase, exiting, opens, drainIncomplete, messages, lateFrame>>

\* finish(): a Close frame on every open connection, and a wait unless none is.
Finish ==
    /\ phase = "running"
    /\ stream' = [i \in Index |->
                    IF stream[i].state = "open"
                    THEN [stream[i] EXCEPT !.state = "closing", !.closeSent = TRUE,
                                           !.blocked = FALSE]
                    ELSE stream[i]]
    /\ phase' = IF OpenStreams = {} THEN "finished" ELSE "draining"
    /\ UNCHANGED <<exiting, opens, drainIncomplete, messages, lateFrame>>

\* The drain's run of the dispatcher returns: asked to, or on its timer.
DrainReturns ==
    /\ phase = "draining"
    /\ phase' = "finished" /\ exiting' = FALSE
    /\ drainIncomplete' = drainIncomplete + Cardinality(OpenStreams)
    /\ lost' = lost + MapThenSumSet(LostWith, OpenStreams)
    /\ stream' = [i \in Index |-> [stream[i] EXCEPT !.inflight = {}]]
    /\ UNCHANGED <<opens, nextStream, nextSequence, received, lateFrame>>

\* terminate(): cancels or resets what is not closed.
Terminate ==
    /\ phase = "finished"
    /\ phase' = "terminated"
    /\ stream' = [i \in Index |-> Closed(stream[i])]
    /\ pendingOpens' = pendingOpens - Cardinality(In({"opening"}))
    /\ lost' = lost + MapThenSumSet(LostWith, Index)
    /\ UNCHANGED <<exiting, opened, openFailures, rejected, drainIncomplete, nextStream,
                   nextSequence, received, lateFrame>>

Next ==
    \/ Prepare \/ PrepareReturns \/ TryStartRequest \/ Finish \/ DrainReturns \/ Terminate
    \/ \E i \in Index :
         \/ OnStreamReady(i) \/ OnStreamOpenFailure(i) \/ OnPing(i) \/ OnCloseFrame(i)
         \/ OnProtocolError(i) \/ OnResponseEnd(i) \/ OnStreamReset(i) \/ OnWriteBlocked(i)
         \/ \E accepted \in BOOLEAN : OnResponseHeaders(i, accepted)
         \/ \E q \in Numbers : OnMessage(i, q)

Spec == Init /\ [][Next]_vars

(***************************************************************************)
(* Properties                                                              *)
(***************************************************************************)
\* Every message sent is received, lost or outstanding, and finish() leaves none outstanding,
\* whatever the server drops, reorders or repeats.
MessagesAddUp ==
    /\ nextSequence = received + lost + Outstanding
    /\ phase \in {"finished", "terminated"} => Outstanding = 0

\* Every connection was upgraded, failed to open, was refused or is still opening, and only
\* one of them; pending_opens_ counts the last.
OpensAddUp ==
    /\ phase # "new" => pendingOpens = Cardinality(In({"opening"}))
    /\ phase \notin {"new", "terminated"} =>
         opened + openFailures + rejected + pendingOpens = Streams

\* "the run starts with what it has, and nothing joins it partway through the measurement".
NothingJoinsLate == phase \notin {"new", "preparing"} => opened' = opened

\* Nothing is sent on a connection after our Close frame (RFC 6455 5.5.1): no message, no
\* Pong, no second Close.
NothingAfterClose == ~lateFrame

\* A wait whose condition is met has asked the dispatcher to exit.
NoIdleWait ==
    /\ phase = "preparing" /\ pendingOpens = 0 => exiting
    /\ phase = "draining" /\ OpenStreams = {} => exiting
=============================================================================
