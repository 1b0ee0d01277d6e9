--------------------------- MODULE RequestStream ---------------------------
(***************************************************************************)
(* A remote request source: RemoteRequestSourceImpl and its                *)
(* RequestStreamGrpcClientImpl on a worker, RequestSourceServiceImpl at    *)
(* the other end of the stream. The stream delivers in order and may end   *)
(* at any time; a message is the request specifier number it carries.      *)
(***************************************************************************)
EXTENDS Naturals, Sequences

CONSTANTS
    BufferLength,  \* header_buffer_length_
    MaxAsks        \* bound: requests for more

ASSUME StreamAssumption == BufferLength \in Nat \ {0} /\ MaxAsks \in Nat

VARIABLES
    phase,      \* of the worker: connecting, running, or done with the source
    open,       \* stream_ is set
    messages,   \* messages_
    inflight,   \* in_flight_headers_
    received,   \* total_messages_received_
    asks,       \* requests for more that were sent
    quantities, \* requests the service has not read
    owed,       \* what the service is still writing of the one it read
    wire,       \* messages on their way to the client
    written,    \* messages the service wrote
    taken       \* the last message a request was made from, and whether there was one

client == <<open, messages, inflight, received, asks>>
service == <<quantities, owed, wire, written>>
vars == <<phase, client, service, taken>>

TypeOK ==
    /\ phase \in {"new", "connecting", "running", "destroyed"} /\ open \in BOOLEAN
    /\ inflight \in 0 .. BufferLength /\ owed \in 0 .. BufferLength
    /\ received \in Nat /\ asks \in Nat /\ written \in Nat /\ taken \in Nat
    /\ messages \in Seq(Nat) /\ wire \in Seq(Nat) /\ quantities \in Seq(Nat)

Init ==
    /\ phase = "new" /\ open = FALSE /\ messages = <<>> /\ inflight = 0 /\ received = 0 /\ asks = 0
    /\ quantities = <<>> /\ owed = 0 /\ wire = <<>> /\ written = 0 /\ taken = 0

AskedFor == BufferLength

TrySendRequest ==
    IF open' THEN /\ quantities' = Append(quantities, BufferLength)
                  /\ inflight' = AskedFor /\ asks' = asks + 1
    ELSE UNCHANGED <<quantities, inflight, asks>>

\* start(): the stream may fail to start at once.
Start ==
    /\ phase = "new" /\ phase' = "connecting"
    /\ open' \in BOOLEAN
    /\ TrySendRequest
    /\ UNCHANGED <<messages, received, owed, wire, written, taken>>

StreamStatusKnown == ~open \/ received > 0

\* The wait of connectToRequestStreamGrpcService is over, or has timed out.
Connected(timeout) ==
    /\ phase = "connecting" /\ (timeout \/ StreamStatusKnown)
    /\ phase' = "running"
    /\ UNCHANGED <<client, service, taken>>

OnReceiveMessage ==
    /\ open /\ wire # <<>>
    /\ wire' = Tail(wire) /\ messages' = Append(messages, Head(wire))
    /\ inflight' = inflight - 1 /\ received' = received + 1
    /\ UNCHANGED <<phase, open, asks, quantities, owed, written, taken>>

\* What was not delivered is lost with the stream.
OnRemoteClose ==
    /\ open /\ open' = FALSE
    /\ wire' = <<>> /\ quantities' = <<>> /\ owed' = 0
    /\ UNCHANGED <<phase, messages, inflight, received, asks, written, taken>>

\* Fault: more is asked for when nothing is left, and then there is nothing to take.
AskForMoreLate == inflight = 0 /\ Len(messages') > BufferLength
AskForMore == inflight = 0 /\ Len(messages') < BufferLength

NextMessage == Head(messages)

\* maybeDequeue(); with no message there is no request and nothing changes.
MaybeDequeue ==
    /\ phase = "running" /\ messages # <<>> /\ asks < MaxAsks
    /\ taken' = NextMessage /\ messages' = Tail(messages) /\ UNCHANGED open
    /\ IF AskForMore THEN TrySendRequest ELSE UNCHANGED <<quantities, inflight, asks>>
    /\ UNCHANGED <<phase, received, owed, wire, written>>

DestroyOnThread ==
    /\ phase = "running" /\ phase' = "destroyed" /\ open' = FALSE
    /\ wire' = <<>> /\ quantities' = <<>> /\ owed' = 0
    /\ UNCHANGED <<messages, inflight, received, asks, written, taken>>

\* RequestSourceServiceImpl::RequestStream: one request after the other, as many messages.
ServiceReads ==
    /\ owed = 0 /\ quantities # <<>>
    /\ owed' = Head(quantities) /\ quantities' = Tail(quantities)
    /\ UNCHANGED <<phase, client, wire, written, taken>>

ServiceWrites ==
    /\ owed > 0 /\ owed' = owed - 1
    /\ written' = written + 1 /\ wire' = Append(wire, written')
    /\ UNCHANGED <<phase, client, quantities, taken>>

Next ==
    \/ Start \/ (\E timeout \in BOOLEAN : Connected(timeout)) \/ OnReceiveMessage \/ OnRemoteClose
    \/ MaybeDequeue \/ DestroyOnThread \/ ServiceReads \/ ServiceWrites

Spec == Init /\ [][Next]_vars

\* The service, the stream and the worker go on; nothing makes the stream end.
FairSpec ==
    Spec /\ WF_vars(OnReceiveMessage) /\ WF_vars(ServiceReads) /\ WF_vars(ServiceWrites)

(***************************************************************************)
(* Properties                                                              *)
(***************************************************************************)
\* The only wake-up of a source that ran dry is a message still to come: while the stream is
\* open and nothing is buffered, something is in flight, and the service will write it.
NeverStarved == open /\ messages = <<>> => inflight > 0

\* in_flight_headers_ is what was asked for and has not come yet, so it cannot wrap around.
InflightIsOwed ==
    open => inflight = BufferLength * Len(quantities) + owed + Len(wire)

\* Less than two seconds' worth of requests is ever buffered or on its way.
BufferBounded == Len(messages) + (IF open THEN inflight ELSE 0) < 2 * BufferLength

\* The source and its service agree on what is still to come, so that the source neither runs
\* dry for good nor asks for more than it can hold.
SourceInStep == TypeOK /\ NeverStarved /\ InflightIsOwed /\ BufferBounded

\* Every request specifier is used once, in the order the service wrote them.
UsedInOrder == [][taken' # taken => taken' = taken + 1]_vars

\* Execution starts when it is known whether requests will come, unless the wait timed out.
KnownWhenConnected == [][Connected(FALSE) => ~open \/ messages # <<>>]_vars
=============================================================================
