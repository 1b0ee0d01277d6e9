--------------------------- MODULE WebSocketEcho ---------------------------
(***************************************************************************)
(* The test server's WebSocket echo filter: one request, its upgrade, and   *)
(* the client's frames as the connection hands them over, several at once   *)
(* or one of them cut in two.  WebSocketFrames has the bytes of a frame;    *)
(* here it is its opcode, with "Bad" for what Decoder::feed refuses.        *)
(***************************************************************************)
EXTENDS Naturals, Sequences, SequencesExt

CONSTANTS
  Opcodes,    \* the frames the client may send
  MaxFrames,  \* bound: how many
  CutFrames   \* whether a frame may arrive in two pieces

VARIABLES
  wire,      \* frames that have not arrived
  cut,       \* the first of them has arrived in part
  got,       \* frames that have arrived
  ended,     \* the client has ended its side
  upgraded,  \* upgraded_
  closed,    \* closed_
  response,  \* the status of the response, 0 before
  sent       \* the encodeData() calls: what is sent, and end_stream

vars == <<wire, cut, got, ended, upgraded, closed, response, sent>>

TypeOK ==
  /\ wire \in BoundedSeq(Opcodes, MaxFrames)
  /\ got \in BoundedSeq(Opcodes, MaxFrames)
  /\ {cut, ended, upgraded, closed} \subseteq BOOLEAN
  /\ response \in {0, 101, 400, 426}
  /\ \A i \in DOMAIN sent : sent[i].end \in BOOLEAN

Init ==
  /\ wire \in BoundedSeq(Opcodes, MaxFrames)
  /\ got = <<>> /\ sent = <<>> /\ response = 0
  /\ cut = FALSE /\ ended = FALSE /\ upgraded = FALSE /\ closed = FALSE

\* Not an upgrade, an upgrade without its one key, and an upgrade.
DecodeHeaders(upgrade, keys) ==
  /\ response = 0
  /\ response' = IF ~upgrade THEN 426 ELSE IF keys # 1 THEN 400 ELSE 101
  /\ upgraded' = (upgrade /\ keys = 1)
  /\ UNCHANGED <<wire, cut, got, ended, closed, sent>>

\* What Decoder::feed may make of the frames of one buffer: it fails for all of
\* them when one is bad.  The bytes of a frame's end without its start make an
\* error, nothing yet, or some frame.
Feed(frames, headless) ==
  IF headless
    THEN {[ok |-> FALSE, frames |-> <<>>], [ok |-> TRUE, frames |-> <<>>],
          [ok |-> TRUE, frames |-> <<"Text">>]}
    ELSE {[ok |-> ~Contains(frames, "Bad"), frames |-> frames]}

\* send(): nothing after the end of the response.
Send(s, frame, end) ==
  IF s.closed THEN s ELSE [closed |-> end, sent |-> Append(s.sent, [frame |-> frame, end |-> end])]

\* The loop's body; what comes after a close finds the response ended.
Echo(s, frame) ==
  CASE frame = "Ping"  -> Send(s, "Pong", FALSE)
    [] frame = "Pong"  -> s
    [] frame = "Close" -> Send(s, frame, TRUE)
    [] OTHER           -> Send(s, frame, FALSE)

EndResponse(s, end) ==
  IF end /\ ~s.closed THEN Send(s, "empty", TRUE) ELSE s

\* decodeData()
DecodeData(s, fed, end) ==
  IF ~upgraded \/ s.closed THEN s
  ELSE IF ~fed.ok THEN Send(s, "1002", TRUE)
  ELSE EndResponse(FoldLeft(Echo, s, fed.frames), end)

\* The connection hands over n frames and, cutting, the start of the next one.
\* What decodeData() leaves of a buffer is drained by the codec: its return
\* value asks for no buffering.
Deliver(n, cutting, end) ==
  /\ response # 0 /\ ~ended /\ n <= Len(wire)
  /\ cutting => CutFrames /\ n < Len(wire) /\ ~end
  /\ end => n = Len(wire)
  /\ n > 0 \/ (cutting /\ ~cut) \/ end
  /\ wire' = SubSeq(wire, n + 1, Len(wire))
  /\ got' = got \o SubSeq(wire, 1, n)
  /\ cut' = (cutting \/ (cut /\ n = 0))
  /\ ended' = end
  /\ \E fed \in Feed(SubSeq(wire, 1, n), cut /\ n > 0) :
       LET s == DecodeData([closed |-> closed, sent |-> sent], fed, end)
       IN  closed' = s.closed /\ sent' = s.sent
  /\ UNCHANGED <<upgraded, response>>

Next ==
  \/ \E upgrade \in BOOLEAN, keys \in 0 .. 2 : DecodeHeaders(upgrade, keys)
  \/ \E n \in 0 .. MaxFrames, cutting, end \in BOOLEAN : Deliver(n, cutting, end)

Spec == Init /\ [][Next]_vars

----------------------------------------------------------------------------
\* Frames up to a close or an error.
Valid(frames) ==
  LET stops == {i \in DOMAIN frames : frames[i] \in {"Close", "Bad"}}
  IN  IF stops = {} THEN frames
      ELSE SubSeq(frames, 1, (CHOOSE i \in stops : \A j \in stops : i <= j) - 1)

\* Their answers: data comes back, and a pong for a ping.
Answers(frames) ==
  LET asked == SelectSeq(Valid(frames), LAMBDA f : f # "Pong")
  IN  [i \in DOMAIN asked |-> IF asked[i] = "Ping" THEN "Pong" ELSE asked[i]]

Echoed == LET data == SelectSeq(sent, LAMBDA d : ~d.end)
          IN  [i \in DOMAIN data |-> data[i].frame]

\* encodeData() is not called again after its end_stream, which ends the
\* upgraded connection, however the frames were batched.
OneEnd == \A i \in DOMAIN sent : sent[i].end => i = Len(sent)

\* The frames of an upgraded connection are answered in their order and, up to
\* a buffer with a protocol error in it, all of them.
AnswersInOrder ==
  upgraded => IF Contains(got, "Bad") THEN IsPrefix(Echoed, Answers(got))
              ELSE Echoed = Answers(got)

\* A close, a protocol error and the end of the request end the response.
ResponseEnds ==
  upgraded /\ (ended \/ Valid(got) # got) => sent # <<>> /\ Last(sent).end
============================================================================
