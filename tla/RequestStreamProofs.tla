------------------------ MODULE RequestStreamProofs ------------------------
(***************************************************************************)
(* Proofs about the remote request source, for every length of its buffer. *)
(* The invariant behind them: at most one request for more is outstanding,  *)
(* and it is unread only while nothing of it is owed or on its way.         *)
(***************************************************************************)
EXTENDS RequestStream, TLAPS

\* One request at a time: while one is unread, the stream carries nothing else.
OneAsk ==
  /\ quantities \in {<<>>, <<BufferLength>>}
  /\ quantities # <<>> => owed = 0 /\ wire = <<>>

\* What is still to come when the stream is open.
Coming ==
  open => inflight = (IF quantities = <<>> THEN 0 ELSE BufferLength) + owed + Len(wire)

\* Before the start nothing was asked for; after the destruction there is no stream.
Phases ==
  /\ phase = "new" => ~open /\ inflight = 0 /\ messages = <<>>
  /\ ~open => quantities = <<>> /\ owed = 0 /\ wire = <<>>

IInv ==
  /\ TypeOK /\ OneAsk /\ Coming /\ Phases /\ NeverStarved /\ BufferBounded

\* The specifiers that are buffered and on their way follow the last one that
\* was used, without a gap.
Consecutive ==
  /\ \A i \in 1 .. Len(messages) : messages[i] = taken + i
  /\ \A i \in 1 .. Len(wire) : wire[i] = taken + Len(messages) + i
  /\ open => written = taken + Len(messages) + Len(wire)
  /\ phase = "new" => written = 0 /\ taken = 0

----------------------------------------------------------------------------
\* What is known of the empty sequence.
LEMMA EmptySequence == <<>> \in Seq(Nat) /\ Len(<<>>) = 0
OBVIOUS

\* The elements of a sequence with one more at its end.
LEMMA Appended ==
  ASSUME NEW s \in Seq(Nat), NEW e \in Nat, NEW i \in 1 .. Len(s) + 1
  PROVE  Append(s, e)[i] = IF i = Len(s) + 1 THEN e ELSE s[i]
OBVIOUS

\* The initial state has the invariant: nothing was asked for.
LEMMA InitIInv == Init => IInv
  <1> SUFFICES ASSUME Init PROVE IInv
    OBVIOUS
  <1>1. TypeOK
    <2>1. messages \in Seq(Nat) /\ wire \in Seq(Nat) /\ quantities \in Seq(Nat)
      BY EmptySequence, Zenon DEF Init
    <2>2. phase = "new" /\ open \in BOOLEAN
      BY Zenon DEF Init
    <2>3. inflight = 0 /\ owed = 0 /\ received = 0 /\ asks = 0 /\ written = 0 /\ taken = 0
      BY DEF Init
    <2> QED BY <2>1, <2>2, <2>3, StreamAssumption DEF TypeOK
  <1>2. OneAsk /\ Coming /\ Phases /\ NeverStarved
    BY DEF Init, OneAsk, Coming, Phases, NeverStarved
  <1>3. BufferBounded
    BY StreamAssumption, EmptySequence DEF Init, BufferBounded
  <1> QED BY <1>1, <1>2, <1>3 DEF IInv

\* Asking for more when nothing is in flight makes one request and no more.
LEMMA AskKeeps ==
  ASSUME IInv, open' = TRUE, inflight = 0, TrySendRequest,
         UNCHANGED <<owed, wire, written, received>>, open \/ phase = "new"
  PROVE  /\ quantities' = <<BufferLength>> /\ inflight' = BufferLength
         /\ owed' = 0 /\ wire' = <<>> /\ asks' = asks + 1
  <1>1. quantities = <<>> /\ owed = 0 /\ wire = <<>>
    BY StreamAssumption DEF IInv, TypeOK, OneAsk, Coming, Phases
  <1> QED BY <1>1 DEF TrySendRequest, AskedFor

\* Every step keeps the invariant.
LEMMA NextIInv == IInv /\ [Next]_vars => IInv'
  <1> SUFFICES ASSUME IInv, [Next]_vars PROVE IInv'
    OBVIOUS
  <1> USE StreamAssumption
  <1>1. CASE Start
    <2>1. CASE open'
      <3>1. inflight = 0 /\ messages = <<>> /\ ~open
        BY <1>1 DEF Start, IInv, Phases
      <3>2. /\ quantities' = <<BufferLength>> /\ inflight' = BufferLength
            /\ owed' = 0 /\ wire' = <<>> /\ asks' = asks + 1
        BY <1>1, <2>1, <3>1, AskKeeps DEF Start
      <3> QED BY <1>1, <2>1, <3>1, <3>2
            DEF Start, IInv, TypeOK, OneAsk, Coming, Phases, NeverStarved, BufferBounded
    <2>2. CASE ~open'
      BY <1>1, <2>2 DEF Start, TrySendRequest, IInv, TypeOK, OneAsk, Coming, Phases, NeverStarved, BufferBounded
    <2> QED BY <2>1, <2>2
  <1>2. ASSUME NEW timeout \in BOOLEAN, Connected(timeout) PROVE IInv'
    BY <1>2 DEF Connected, client, service, IInv, TypeOK, OneAsk, Coming, Phases, NeverStarved, BufferBounded
  <1>3. CASE OnReceiveMessage
    <2>1. quantities = <<>> /\ inflight = owed + Len(wire) /\ Len(wire) > 0
      BY <1>3 DEF OnReceiveMessage, IInv, TypeOK, OneAsk, Coming
    <2>2. /\ messages' \in Seq(Nat) /\ Len(messages') = Len(messages) + 1
          /\ wire' \in Seq(Nat) /\ Len(wire') = Len(wire) - 1
      BY <1>3, <2>1 DEF OnReceiveMessage, IInv, TypeOK
    <2>3. /\ open /\ inflight' = inflight - 1 /\ received' = received + 1
          /\ UNCHANGED <<phase, open, asks, quantities, owed, written, taken>>
      BY <1>3 DEF OnReceiveMessage
    <2>4. messages' # <<>>
      BY <2>2, EmptySequence DEF IInv, TypeOK
    <2>5. TypeOK'
      BY <2>1, <2>2, <2>3, SMTT(30) DEF IInv, TypeOK
    <2>6. OneAsk' /\ Coming'
      BY <2>1, <2>2, <2>3 DEF IInv, TypeOK, OneAsk, Coming
    <2>7. Phases'
      BY <2>3 DEF IInv, Phases
    <2>8. NeverStarved'
      BY <2>4 DEF NeverStarved
    <2>9. BufferBounded'
      BY <2>2, <2>3 DEF IInv, TypeOK, BufferBounded
    <2> QED BY <2>5, <2>6, <2>7, <2>8, <2>9 DEF IInv
  <1>4. CASE OnRemoteClose
    <2>1. TypeOK'
      <3>1. wire' \in Seq(Nat) /\ quantities' \in Seq(Nat)
        BY <1>4, EmptySequence, Zenon DEF OnRemoteClose
      <3>2. open' \in BOOLEAN
        BY <1>4, Zenon DEF OnRemoteClose
      <3>3. owed' = 0 /\ UNCHANGED <<phase, messages, inflight, received, asks, written, taken>>
        BY <1>4 DEF OnRemoteClose
      <3> QED BY <3>1, <3>2, <3>3 DEF IInv, TypeOK
    <2>2. (OneAsk /\ Coming /\ Phases /\ NeverStarved)'
      BY <1>4 DEF OnRemoteClose, IInv, OneAsk, Coming, Phases, NeverStarved
    <2>3. BufferBounded'
      BY <1>4 DEF OnRemoteClose, IInv, TypeOK, BufferBounded
    <2> QED BY <2>1, <2>2, <2>3 DEF IInv
  <1>5. CASE MaybeDequeue
    <2>1. messages' \in Seq(Nat) /\ Len(messages') = Len(messages) - 1 /\ taken' \in Nat
      BY <1>5 DEF MaybeDequeue, NextMessage, IInv, TypeOK
    <2>2. CASE AskForMore /\ open
      <3>1. inflight = 0 /\ Len(messages') < BufferLength
        BY <2>2 DEF AskForMore
      <3>2. /\ quantities' = <<BufferLength>> /\ inflight' = BufferLength
            /\ owed' = 0 /\ wire' = <<>> /\ asks' = asks + 1
        BY <1>5, <2>2, <3>1, AskKeeps DEF MaybeDequeue
      <3>3. /\ phase = "running" /\ UNCHANGED <<phase, open, received, written>>
        BY <1>5 DEF MaybeDequeue
      <3>4. quantities' \in Seq(Nat) /\ wire' \in Seq(Nat) /\ Len(wire') = 0
        BY <3>2, EmptySequence
      <3>5. TypeOK'
        BY <2>1, <3>2, <3>3, <3>4 DEF IInv, TypeOK
      <3>6. OneAsk' /\ Coming'
        BY <3>2, <3>4 DEF OneAsk, Coming
      <3>7. Phases' /\ NeverStarved'
        BY <2>2, <3>2, <3>3 DEF Phases, NeverStarved
      <3>8. BufferBounded'
        <4>1. Len(messages) \in Nat /\ inflight' = BufferLength
          BY <3>2 DEF IInv, TypeOK
        <4> QED BY <2>1, <3>1, <4>1 DEF BufferBounded
      <3> QED BY <3>5, <3>6, <3>7, <3>8 DEF IInv
    <2>3. CASE ~(AskForMore /\ open)
      <3>1. UNCHANGED <<quantities, inflight, asks>>
        BY <1>5, <2>3 DEF MaybeDequeue, TrySendRequest
      <3>2. open /\ messages' = <<>> => inflight > 0
        <4>1. messages' = <<>> => Len(messages') < BufferLength
          BY EmptySequence
        <4> QED BY <4>1, <2>3 DEF AskForMore, IInv, TypeOK
      <3>3. TypeOK'
        <4>1. UNCHANGED <<phase, open, wire, owed, received, written>>
          BY <1>5 DEF MaybeDequeue
        <4> QED BY <2>1, <3>1, <4>1 DEF IInv, TypeOK
      <3>4. (OneAsk /\ Coming /\ Phases)'
        BY <1>5, <3>1 DEF MaybeDequeue, IInv, OneAsk, Coming, Phases
      <3>5. NeverStarved'
        BY <1>5, <3>1, <3>2 DEF MaybeDequeue, NeverStarved
      <3>6. BufferBounded'
        <4>1. Len(messages) \in Nat /\ inflight \in Nat /\ BufferBounded
          BY DEF IInv, TypeOK
        <4>2. open' = open
          BY <1>5, <2>3 DEF MaybeDequeue, TrySendRequest
        <4> QED BY <2>1, <3>1, <4>1, <4>2 DEF BufferBounded
      <3> QED BY <3>3, <3>4, <3>5, <3>6 DEF IInv
    <2> QED BY <2>2, <2>3
  <1>6. CASE DestroyOnThread
    <2>1. TypeOK'
      <3>1. wire' \in Seq(Nat) /\ quantities' \in Seq(Nat)
        BY <1>6, EmptySequence, Zenon DEF DestroyOnThread
      <3>2. phase' = "destroyed" /\ open' \in BOOLEAN
        BY <1>6, Zenon DEF DestroyOnThread
      <3>3. owed' = 0 /\ UNCHANGED <<messages, inflight, received, asks, written, taken>>
        BY <1>6 DEF DestroyOnThread
      <3> QED BY <3>1, <3>2, <3>3 DEF IInv, TypeOK
    <2>2. (OneAsk /\ Coming /\ Phases /\ NeverStarved)'
      BY <1>6 DEF DestroyOnThread, IInv, OneAsk, Coming, Phases, NeverStarved
    <2>3. BufferBounded'
      BY <1>6 DEF DestroyOnThread, IInv, TypeOK, BufferBounded
    <2> QED BY <2>1, <2>2, <2>3 DEF IInv
  <1>7. CASE ServiceReads
    <2>1. quantities = <<BufferLength>> /\ wire = <<>>
      BY <1>7 DEF ServiceReads, IInv, OneAsk
    <2>2. owed' = BufferLength /\ quantities' = <<>>
      BY <1>7, <2>1 DEF ServiceReads
    <2> QED BY <1>7, <2>1, <2>2
          DEF ServiceReads, client, IInv, TypeOK, OneAsk, Coming, Phases, NeverStarved, BufferBounded
  <1>8. CASE ServiceWrites
    <2>1. quantities = <<>>
      BY <1>8 DEF ServiceWrites, IInv, OneAsk, TypeOK
    <2>2. wire' \in Seq(Nat) /\ Len(wire') = Len(wire) + 1 /\ written' \in Nat /\ open
      BY <1>8 DEF ServiceWrites, IInv, TypeOK, Phases
    <2> QED BY <1>8, <2>1, <2>2
          DEF ServiceWrites, client, IInv, TypeOK, OneAsk, Coming, Phases, NeverStarved, BufferBounded
  <1>9. CASE UNCHANGED vars
    BY <1>9 DEF vars, client, service, IInv, TypeOK, OneAsk, Coming, Phases, NeverStarved, BufferBounded
  <1> QED BY <1>1, <1>2, <1>3, <1>4, <1>5, <1>6, <1>7, <1>8, <1>9 DEF Next

\* In every behaviour, for every buffer length.
LEMMA IInvHolds == Spec => []IInv
BY InitIInv, NextIInv, PTL DEF Spec

\* A source with an open stream and an empty buffer has something in flight, so
\* that maybeDequeue(), which alone asks for more, is not the one to wait for.
THEOREM NeverStarvedHolds == Spec => []NeverStarved
  <1>1. IInv => NeverStarved
    BY DEF IInv
  <1> QED BY <1>1, IInvHolds, PTL

\* Less than two buffers' worth is ever buffered or in flight.
THEOREM BufferBoundedHolds == Spec => []BufferBounded
  <1>1. IInv => BufferBounded
    BY DEF IInv
  <1> QED BY <1>1, IInvHolds, PTL

\* in_flight_headers_ counts exactly what is still to come, and so never wraps.
THEOREM InflightIsOwedHolds == Spec => []InflightIsOwed
  <1>1. IInv => InflightIsOwed
    <2> SUFFICES ASSUME IInv, open PROVE inflight = BufferLength * Len(quantities) + owed + Len(wire)
      BY DEF InflightIsOwed
    <2>1. CASE quantities = <<>>
      BY <2>1, StreamAssumption DEF IInv, Coming, TypeOK
    <2>2. CASE quantities = <<BufferLength>>
      <3>1. Len(quantities) = 1 /\ quantities # <<>>
        BY <2>2
      <3> QED BY <2>2, <3>1, StreamAssumption DEF IInv, Coming, TypeOK
    <2> QED BY <2>1, <2>2 DEF IInv, OneAsk
  <1> QED BY <1>1, IInvHolds, PTL

\* The state agrees with the types of the code's fields.
THEOREM TypeCorrect == Spec => []TypeOK
  <1>1. IInv => TypeOK
    BY DEF IInv
  <1> QED BY <1>1, IInvHolds, PTL

\* The source and its service agree on what is still to come, for every length of
\* the buffer and of the service's list.
THEOREM SourceInStepHolds == Spec => []SourceInStep
  <1>1. TypeOK /\ NeverStarved /\ InflightIsOwed /\ BufferBounded => SourceInStep
    BY DEF SourceInStep
  <1> QED BY <1>1, TypeCorrect, NeverStarvedHolds, InflightIsOwedHolds, BufferBoundedHolds, PTL

----------------------------------------------------------------------------
\* Every step keeps the specifiers consecutive, and uses the next one if any.
LEMMA NextConsecutive ==
  ASSUME IInv, Consecutive, [Next]_vars
  PROVE  Consecutive' /\ (taken' # taken => taken' = taken + 1)
  <1> USE StreamAssumption
  <1>1. CASE Start
    <2>1. wire = <<>> /\ messages = <<>> /\ written = 0 /\ taken = 0 /\ UNCHANGED <<wire, messages, written, taken>> /\ phase' = "connecting"
      BY <1>1 DEF Start, IInv, Phases, Consecutive
    <2> QED BY <2>1 DEF Consecutive
  <1>2. ASSUME NEW timeout \in BOOLEAN, Connected(timeout)
        PROVE  Consecutive' /\ (taken' # taken => taken' = taken + 1)
    BY <1>2 DEF Connected, client, service, Consecutive
  <1>3. CASE OnReceiveMessage
    <2>1. messages \in Seq(Nat) /\ wire \in Seq(Nat) /\ taken \in Nat /\ wire # <<>> /\ open /\ phase # "new"
      BY <1>3 DEF OnReceiveMessage, IInv, TypeOK, Phases
    <2>2. /\ messages' = Append(messages, Head(wire)) /\ wire' = Tail(wire)
          /\ UNCHANGED <<taken, written, open, phase>>
      BY <1>3 DEF OnReceiveMessage
    <2>3. Head(wire) = taken + Len(messages) + 1
      BY <2>1 DEF Consecutive
    <2>4. Len(messages') = Len(messages) + 1 /\ Len(wire') = Len(wire) - 1
      BY <2>1, <2>2
    <2>5. \A i \in 1 .. Len(messages') : messages'[i] = taken' + i
      <3> SUFFICES ASSUME NEW i \in 1 .. Len(messages) + 1
                   PROVE  Append(messages, Head(wire))[i] = taken + i
        BY <2>2, <2>4
      <3>1. Head(wire) \in Nat
        BY <2>1
      <3>2. i \in Nat /\ (i # Len(messages) + 1 => i \in 1 .. Len(messages))
        BY <2>1
      <3>3. Append(messages, Head(wire))[i] =
              IF i = Len(messages) + 1 THEN Head(wire) ELSE messages[i]
        BY <2>1, <3>1, Appended
      <3>4. i # Len(messages) + 1 => messages[i] = taken + i
        BY <3>2 DEF Consecutive
      <3>5. CASE i = Len(messages) + 1
        BY <2>1, <2>3, <3>3, <3>5
      <3>6. CASE i # Len(messages) + 1
        BY <3>3, <3>4, <3>6
      <3> QED BY <3>5, <3>6
    <2>6. \A i \in 1 .. Len(wire') : wire'[i] = taken' + Len(messages') + i
      <3> SUFFICES ASSUME NEW i \in 1 .. Len(wire) - 1
                   PROVE  Tail(wire)[i] = taken + (Len(messages) + 1) + i
        BY <2>2, <2>4
      <3>1. Tail(wire)[i] = wire[i + 1] /\ i + 1 \in 1 .. Len(wire)
        BY <2>1
      <3>2. wire[i + 1] = taken + Len(messages) + (i + 1)
        BY <3>1 DEF Consecutive
      <3> QED BY <2>1, <3>1, <3>2
    <2> QED BY <2>1, <2>2, <2>4, <2>5, <2>6, SMTT(30) DEF Consecutive
  <1>4. CASE OnRemoteClose
    BY <1>4 DEF OnRemoteClose, Consecutive
  <1>5. CASE MaybeDequeue
    <2>1. messages \in Seq(Nat) /\ wire \in Seq(Nat) /\ taken \in Nat /\ written \in Nat /\ messages # <<>>
      BY <1>5 DEF MaybeDequeue, IInv, TypeOK
    <2>2. /\ messages' = Tail(messages) /\ taken' = Head(messages)
          /\ UNCHANGED <<wire, written, open, phase>> /\ phase = "running"
      BY <1>5 DEF MaybeDequeue, NextMessage
    <2>3. taken' = taken + 1 /\ Len(messages') = Len(messages) - 1
      BY <2>1, <2>2 DEF Consecutive
    <2>4. \A i \in 1 .. Len(messages') : messages'[i] = taken' + i
      BY <2>1, <2>2, <2>3 DEF Consecutive
    <2>5. \A i \in 1 .. Len(wire') : wire'[i] = taken' + Len(messages') + i
      BY <2>1, <2>2, <2>3 DEF Consecutive
    <2> QED BY <2>1, <2>2, <2>3, <2>4, <2>5 DEF Consecutive
  <1>6. CASE DestroyOnThread
    BY <1>6 DEF DestroyOnThread, Consecutive
  <1>7. CASE ServiceReads
    BY <1>7 DEF ServiceReads, client, Consecutive
  <1>8. CASE ServiceWrites
    <2>1. messages \in Seq(Nat) /\ wire \in Seq(Nat) /\ taken \in Nat /\ written \in Nat /\ open /\ phase # "new"
      BY <1>8 DEF ServiceWrites, IInv, TypeOK, Phases
    <2>2. wire' = Append(wire, written + 1) /\ written' = written + 1 /\ UNCHANGED <<messages, taken, open, phase>>
      BY <1>8 DEF ServiceWrites, client
    <2>3. Len(wire') = Len(wire) + 1
      BY <2>1, <2>2
    <2>4. \A i \in 1 .. Len(wire') : wire'[i] = taken' + Len(messages') + i
      <3> SUFFICES ASSUME NEW i \in 1 .. Len(wire) + 1
                   PROVE  Append(wire, written + 1)[i] = taken + Len(messages) + i
        BY <2>2, <2>3
      <3>1. i \in Nat /\ (i # Len(wire) + 1 => i \in 1 .. Len(wire))
        BY <2>1
      <3>2. written = taken + Len(messages) + Len(wire)
        BY <2>1 DEF Consecutive
      <3>3. Append(wire, written + 1)[i] = IF i = Len(wire) + 1 THEN written + 1 ELSE wire[i]
        BY <2>1, Appended
      <3>4. i # Len(wire) + 1 => wire[i] = taken + Len(messages) + i
        BY <3>1 DEF Consecutive
      <3>5. CASE i = Len(wire) + 1
        <4>1. Len(wire) \in Nat /\ Len(messages) \in Nat /\ taken \in Nat
          BY <2>1
        <4> QED BY ONLY <3>2, <3>3, <3>5, <4>1
      <3>6. CASE i # Len(wire) + 1
        BY ONLY <3>3, <3>4, <3>6
      <3> QED BY <3>5, <3>6
    <2> QED BY <2>1, <2>2, <2>3, <2>4 DEF Consecutive
  <1>9. CASE UNCHANGED vars
    BY <1>9 DEF vars, client, service, Consecutive
  <1> QED BY <1>1, <1>2, <1>3, <1>4, <1>5, <1>6, <1>7, <1>8, <1>9 DEF Next

\* Every request specifier is used once, in the order in which the service
\* wrote them, also across the end of the stream.
THEOREM UsedInOrderHolds == Spec => UsedInOrder
  <1>1. Init => Consecutive
    BY DEF Init, Consecutive
  <1>2. IInv /\ Consecutive /\ [Next]_vars => Consecutive'
    BY NextConsecutive
  <1>3. Spec => []Consecutive
    BY <1>1, <1>2, IInvHolds, PTL DEF Spec
  <1>4. IInv /\ Consecutive /\ [Next]_vars => [taken' # taken => taken' = taken + 1]_vars
    BY NextConsecutive
  <1> QED BY <1>3, <1>4, IInvHolds, PTL DEF Spec, UsedInOrder

============================================================================
