-------------------------- MODULE WebSocketFrames --------------------------
(***************************************************************************)
(* The framing of engine/source/common/websocket.cc: encodeFrame on one    *)
(* end, Decoder::feed on the other, and a network that hands the bytes     *)
(* over in pieces of any size. Bytes are 0 .. 255; a length of eight bytes *)
(* is computed up to one past kMaxPayloadLength, which is all that it is   *)
(* compared with.                                                          *)
(***************************************************************************)
EXTENDS Integers, Sequences, SequencesExt, Bitwise

CONSTANTS
    Frames,    \* what may be sent: records of fin, rsv, opcode and payload
    MaxFrames, \* bound: frames sent
    Keys,      \* masking keys, <<>> for a frame that is not masked
    Chunks     \* bound: how many bytes may arrive at once, besides all that are left

VARIABLES
    sent,     \* the frames on the wire
    wire,     \* bytes that have not arrived
    buffer,   \* bytes that have, and make no whole frame yet
    decoded,  \* frames Decoder::feed has returned
    failed    \* it has reported a protocol error

vars == <<sent, wire, buffer, decoded, failed>>

kMaxPayloadLength == 64 * 1024 * 1024
Known == {0, 1, 2, 8, 9, 10}
IsControl(opcode) == opcode >= 8

ApplyMask(payload, key) ==
    IF key = <<>> THEN payload
    ELSE [i \in 1 .. Len(payload) |-> payload[i] ^^ key[((i - 1) % 4) + 1]]

\* The low `n` bytes of a length, most significant first.
BigEndian(length, n) ==
    [i \in 1 .. n |-> IF n - i >= 4 THEN 0 ELSE (length \div 256 ^ (n - i)) % 256]

LengthField(length) ==
    IF length < 126 THEN <<length>>
    ELSE IF length <= 65535 THEN <<126>> \o BigEndian(length, 2)
    ELSE <<127>> \o BigEndian(length, 8)

\* encodeFrame; rsv, which it leaves zero, is there for other peers' frames.
EncodeFrame(f, key) ==
    LET bytes == LengthField(Len(f.payload))
        maskBit == IF key = <<>> THEN 0 ELSE 128
    IN  <<(IF f.fin THEN 128 ELSE 0) + 16 * f.rsv + f.opcode, maskBit + bytes[1]>>
        \o Tail(bytes) \o key \o ApplyMask(f.payload, key)

\* The value of the bytes, or kMaxPayloadLength + 1 when it is more than that.
LengthOf(bytes) ==
    FoldLeft(LAMBDA n, b : IF n > kMaxPayloadLength \div 256 THEN kMaxPayloadLength + 1
                           ELSE 256 * n + b, 0, bytes)

HeaderLength(length7, masked) ==
    2 + (CASE length7 = 126 -> 2 [] length7 = 127 -> 8 [] OTHER -> 0)
      + (IF masked THEN 4 ELSE 0)

\* Fault: the longest control frame is refused.
BadLengthOneLess(fin, opcode, length7, length) ==
    (length7 = 127 /\ length > kMaxPayloadLength) \/ (IsControl(opcode) /\ (~fin \/ length >= 125))
BadLength(fin, opcode, length7, length) ==
    \/ length7 = 127 /\ length > kMaxPayloadLength
    \/ IsControl(opcode) /\ (~fin \/ length > 125)

Unmasked(payload, key) == ApplyMask(payload, key)

Incomplete(data, header, length) == Len(data) < header + length

\* One turn of feed's loop: "more" bytes needed, "error", or a frame and how long it was.
DecodeOne(data) ==
    IF Len(data) < 2 THEN [result |-> "more"]
    ELSE
      LET fin == data[1] >= 128
          rsv == (data[1] \div 16) % 8
          opcode == data[1] % 16
          masked == data[2] >= 128
          length7 == data[2] % 128
          header == HeaderLength(length7, masked)
      IN  IF rsv # 0 \/ opcode \notin Known THEN [result |-> "error"]
          ELSE IF Len(data) < header THEN [result |-> "more"]
          ELSE
            LET length == CASE length7 = 126 -> LengthOf(SubSeq(data, 3, 4))
                            [] length7 = 127 -> LengthOf(SubSeq(data, 3, 10))
                            [] OTHER -> length7
                key == IF masked THEN SubSeq(data, header - 3, header) ELSE <<>>
            IN  IF BadLength(fin, opcode, length7, length) THEN [result |-> "error"]
                ELSE IF Incomplete(data, header, length) THEN [result |-> "more"]
                ELSE [result |-> "frame", length |-> header + length,
                      frame |-> [fin |-> fin, rsv |-> 0, opcode |-> opcode,
                                 payload |-> Unmasked(SubSeq(data, header + 1, header + length), key)]]

\* Decoder::feed: every whole frame at the front of data.
RECURSIVE Feed(_, _)
Feed(data, frames) ==
    LET one == DecodeOne(data)
    IN  CASE one.result = "more" -> [data |-> data, frames |-> frames, ok |-> TRUE]
          [] one.result = "error" -> [data |-> <<>>, frames |-> frames, ok |-> FALSE]
          [] OTHER -> Feed(SubSeq(data, one.length + 1, Len(data)), Append(frames, one.frame))

TypeOK ==
    /\ decoded \in Seq([fin : BOOLEAN, rsv : {0}, opcode : Known, payload : Seq(0 .. 255)])
    /\ buffer \in Seq(0 .. 255) /\ wire \in Seq(0 .. 255)
    /\ failed \in BOOLEAN

Init ==
    /\ sent \in BoundedSeq(Frames, MaxFrames)
    /\ \E key \in Keys : wire = FlattenSeq([i \in 1 .. Len(sent) |-> EncodeFrame(sent[i], key)])
    /\ buffer = <<>> /\ decoded = <<>> /\ failed = FALSE

\* The next n bytes arrive; after an error the connection is closed.
Receive(n) ==
    /\ ~failed /\ n <= Len(wire)
    /\ wire' = SubSeq(wire, n + 1, Len(wire))
    /\ LET fed == Feed(buffer \o SubSeq(wire, 1, n), <<>>)
       IN  /\ buffer' = fed.data /\ failed' = ~fed.ok
           /\ decoded' = decoded \o fed.frames
    /\ UNCHANGED sent

Next == \E n \in (Chunks \cup {Len(wire)}) \ {0} : Receive(n)

Spec == Init /\ [][Next]_vars

(***************************************************************************)
(* Properties                                                              *)
(***************************************************************************)
Valid(f) ==
    /\ f.rsv = 0 /\ f.opcode \in Known
    /\ IsControl(f.opcode) => f.fin /\ Len(f.payload) <= 125

\* However the bytes are cut up, what has been decoded is what was sent, in order and whole.
DecodedIsSent == decoded = SubSeq(sent, 1, Len(decoded))

\* An error is one: the frame it stopped at breaks the protocol, and none before it does.
ErrorIsReal ==
    failed => Len(decoded) < Len(sent) /\ ~Valid(sent[Len(decoded) + 1])

\* Nothing is kept back and nothing refused is let through: once every byte has arrived, all
\* frames have been decoded or an error has been reported.
AllArrivedAllDecoded ==
    wire = <<>> /\ ~failed => decoded = sent /\ buffer = <<>> /\ \A i \in 1 .. Len(sent) : Valid(sent[i])
=============================================================================
