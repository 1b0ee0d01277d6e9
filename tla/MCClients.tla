------------------------------ MODULE MCClients -----------------------------
(***************************************************************************)
(* The benchmark clients for TLC, side by side: a worker has one of them,  *)
(* by the kind of its run (BenchmarkClientFactoryImpl::create), so a       *)
(* behaviour is one of a single client, which is chosen at the start; the  *)
(* others stay as they are at first. The decoder of WebSocket frames is a  *)
(* part of its own.                                                        *)
(***************************************************************************)
EXTENDS WebSocketFrames

\* Frames with data and control opcodes and one that is reserved, final or not, empty, short, of
\* the last length that fits seven bits and the first that does not.
Long(n) == [i \in 1 .. n |-> i % 256]

MCFrames ==
    [fin : BOOLEAN, rsv : {0}, opcode : {0, 1, 9}, payload : {<<>>, <<200, 7, 0>>}]
    \cup [fin : {TRUE}, rsv : {0}, opcode : {2, 8}, payload : {Long(125), Long(126)}]
    \cup [fin : {TRUE}, rsv : {0, 4}, opcode : {1, 3}, payload : {<<5>>}]

\* Lengths too long to send here survive the header's two forms, and one past the limit is seen.
ASSUME LengthsSurvive ==
    \A n \in {126, 255, 256, 65535, 65536, 2 ^ 24, kMaxPayloadLength, kMaxPayloadLength + 1} :
        LengthOf(Tail(LengthField(n))) = n

MCKeys == {<<>>, <<1, 255, 16, 0>>}

VARIABLES
    part,
    tcpPhase, tcpExiting, expectEcho, link, retry, nextSlot, tcpPendingOpens, attempts,
    tcpOpened, initials, reconnects, rotated, tcpSent, tcpReceived, tcpLost,
    udpPhase, socket, now, inflight, udpNextSequence, sweepAt, drainUntil, udpSent,
    udpReceived, udpLost, outcome,
    streamPhase, streamExiting, streams, streamNextStream, streamPendingOpens, streamOpened,
    streamOpenFailures, statuses, streamDrainIncomplete, streamSent, streamReceived,
    streamLost,
    websocketPhase, websocketExiting, connection, nextStream, nextSequence, pendingOpens,
    opened, openFailures, rejected, drainIncomplete, websocketReceived, websocketLost,
    lateFrame,
    phase, req, initiated, completed, outstanding, count, stat, abandon, timedOut, cancelled,
    exiting

tcpVars ==
    <<tcpPhase, tcpExiting, expectEcho, link, retry, nextSlot, tcpPendingOpens, attempts,
      tcpOpened, initials, reconnects, rotated, tcpSent, tcpReceived, tcpLost>>
udpVars ==
    <<udpPhase, socket, now, inflight, udpNextSequence, sweepAt, drainUntil, udpSent,
      udpReceived, udpLost, outcome>>
streamVars ==
    <<streamPhase, streamExiting, streams, streamNextStream, streamPendingOpens, streamOpened,
      streamOpenFailures, statuses, streamDrainIncomplete, streamSent, streamReceived,
      streamLost>>
websocketVars ==
    <<websocketPhase, websocketExiting, connection, nextStream, nextSequence, pendingOpens,
      opened, openFailures, rejected, drainIncomplete, websocketReceived, websocketLost,
      lateFrame>>
httpVars ==
    <<phase, req, initiated, completed, outstanding, count, stat, abandon, timedOut, cancelled,
      exiting>>

Tcp == INSTANCE TcpClient
    WITH Connections <- 2, MaxInflight <- 2, RotateAfter <- 1, MaxOpens <- 3, MaxSends <- 2,
         phase <- tcpPhase, exiting <- tcpExiting, pendingOpens <- tcpPendingOpens,
         opened <- tcpOpened, sent <- tcpSent, received <- tcpReceived, lost <- tcpLost
Udp == INSTANCE UdpClient
    WITH MaxInflight <- 2, Timeout <- 3, DrainDuration <- 5, SweepInterval <- 2,
         MaxSequence <- 4, MaxTime <- 9, phase <- udpPhase, nextSequence <- udpNextSequence,
         sent <- udpSent, received <- udpReceived, lost <- udpLost
Stream == INSTANCE GrpcStreamClient
    WITH Streams <- 3, MaxInflight <- 2, MaxSends <- 3, stream <- streams,
         phase <- streamPhase, exiting <- streamExiting, nextStream <- streamNextStream,
         pendingOpens <- streamPendingOpens, opened <- streamOpened,
         openFailures <- streamOpenFailures, drainIncomplete <- streamDrainIncomplete,
         sent <- streamSent, received <- streamReceived, lost <- streamLost
WebSocket == INSTANCE WebSocketClient
    WITH Streams <- 3, MaxInflight <- 2, MaxSends <- 3, stream <- connection,
         phase <- websocketPhase, exiting <- websocketExiting, received <- websocketReceived,
         lost <- websocketLost
\* Closed loop, with a status code of every kind that is classified in a way of its own.
Http == INSTANCE HttpClient
    WITH Requests <- 1 .. 3, Codes <- {299, 600}, GrpcStatuses <- {"ok"},
         Reasons <- {"remote_reset"}, MaxInFlight <- 2, Waits <- TRUE, ClosedLoop <- TRUE,
         Grpc <- FALSE, SimpleWarmup <- FALSE, PluginFails <- FALSE
\* Open loop and unary gRPC, after a warmup, with a plugin that can fail.
Grpc == INSTANCE HttpClient
    WITH Requests <- 1 .. 2, Codes <- {200, 404}, GrpcStatuses <- {"ok", "unavailable"},
         Reasons <- {"remote_reset"}, MaxInFlight <- 2, Waits <- TRUE, ClosedLoop <- FALSE,
         Grpc <- TRUE, SimpleWarmup <- TRUE, PluginFails <- TRUE

PartsInit ==
    /\ part \in {"frames", "tcp", "udp", "stream", "websocket", "http", "grpc"}
    /\ Init /\ (part = "frames" \/ sent = <<>>)
    /\ Tcp!Init /\ (part = "tcp" \/ expectEcho = TRUE)
    /\ Udp!Init
    /\ Stream!Init
    /\ WebSocket!Init
    /\ IF part = "grpc" THEN Grpc!Init ELSE Http!Init

FramesStep ==
    /\ part = "frames" /\ Next
    /\ UNCHANGED <<part, tcpVars, udpVars, streamVars, websocketVars, httpVars>>
TcpStep ==
    /\ part = "tcp" /\ Tcp!Next
    /\ UNCHANGED <<part, vars, udpVars, streamVars, websocketVars, httpVars>>
UdpStep ==
    /\ part = "udp" /\ Udp!Next
    /\ UNCHANGED <<part, vars, tcpVars, streamVars, websocketVars, httpVars>>
StreamStep ==
    /\ part = "stream" /\ Stream!Next
    /\ UNCHANGED <<part, vars, tcpVars, udpVars, websocketVars, httpVars>>
WebsocketStep ==
    /\ part = "websocket" /\ WebSocket!Next
    /\ UNCHANGED <<part, vars, tcpVars, udpVars, streamVars, httpVars>>
HttpStep ==
    /\ part = "http" /\ Http!Next
    /\ UNCHANGED <<part, vars, tcpVars, udpVars, streamVars, websocketVars>>
GrpcStep ==
    /\ part = "grpc" /\ Grpc!Next
    /\ UNCHANGED <<part, vars, tcpVars, udpVars, streamVars, websocketVars>>

PartsNext ==
    \/ FramesStep \/ TcpStep \/ UdpStep \/ StreamStep \/ WebsocketStep
    \/ HttpStep \/ GrpcStep

partsVars == <<part, vars, tcpVars, udpVars, streamVars, websocketVars, httpVars>>

PartsSpec == PartsInit /\ [][PartsNext]_partsVars

-----------------------------------------------------------------------------
\* What a client counts adds up. Every message it sent is received, lost or outstanding, and none
\* is outstanding after finish(): tcp_messages_sent, udp_datagrams_sent, stream_messages_sent and
\* websocket_messages_sent are the sums of what came of them. Every connection or stream it wanted
\* is opened (first, again or rotated), failed, refused or still opening, and every opened gRPC
\* stream has one status, or was still open after the drain.
CountersAddUp ==
    /\ part = "tcp" => Tcp!TypeOK /\ Tcp!MessagesAddUp /\ Tcp!ConnectionsAddUp
    /\ part = "udp" => Udp!TypeOK /\ Udp!DatagramsAddUp
    /\ part = "stream" =>
          Stream!TypeOK /\ Stream!MessagesAddUp /\ Stream!OpensAddUp /\ Stream!StatusPerStream
    /\ part = "websocket" => WebSocket!TypeOK /\ WebSocket!MessagesAddUp /\ WebSocket!OpensAddUp

\* No client waits for nothing, or for too long: in prepare() and finish() the dispatcher has been
\* asked to exit once there is nothing left to wait for; while a TCP client runs every slot has a
\* connection, one that connects, or a retry; no datagram stays outstanding for a sweep interval
\* past its timeout, and a UDP finish() waits no longer than the timeout and the drain window.
NoIdleWait ==
    /\ part = "tcp" => Tcp!NoIdleWait /\ Tcp!NoSlotStranded
    /\ part = "udp" => Udp!NoneOverdue /\ Udp!DrainBounded
    /\ part = "stream" => Stream!NoIdleWait
    /\ part = "websocket" => WebSocket!NoIdleWait
    /\ part = "http" => Http!NoIdleWait
    /\ part = "grpc" => Grpc!NoIdleWait


\* WebSocketFrames: however its bytes are cut up, what is decoded is what was sent, all of it
\* once it has arrived, and only what breaks the protocol is an error. WebSocketClient: no frame
\* follows our Close frame.
FramesSurvive ==
    /\ part = "frames" => TypeOK /\ DecodedIsSent /\ ErrorIsReal /\ AllArrivedAllDecoded
    /\ part = "websocket" => WebSocket!NothingAfterClose

\* A rotation loses no message and no slot that can send (TcpClient); a datagram is completed
\* once (UdpClient); no connection opens once the measurement has begun (WebSocketClient).
NothingDropped ==
    [][/\ part = "tcp" => Tcp!RotationDropsNothing
       /\ part = "udp" => Udp!CompletedOnce
       /\ part = "websocket" => WebSocket!NothingJoinsLate]_partsVars
=============================================================================
