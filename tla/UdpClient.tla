----------------------------- MODULE UdpClient -----------------------------
(***************************************************************************)
(* UdpBenchmarkClientImpl: datagrams matched with their echoes by number,  *)
(* a sweep that gives up on the ones past their timeout, and the drain of  *)
(* finish(). The network loses, delays, duplicates and reorders, and may   *)
(* bring datagrams that are no echo at all: any number may arrive at any   *)
(* time. Timers run when they are due.                                     *)
(***************************************************************************)
EXTENDS Integers, FiniteSets, FiniteSetsExt, Functions

CONSTANTS
    MaxInflight, Timeout, DrainDuration,
    SweepInterval,  \* kSweepInterval
    MaxSequence,    \* bound: datagrams tried
    MaxTime         \* bound: the clock

VARIABLES
    phase,        \* where the worker is with this client
    socket,       \* socket_ is set
    now,
    inflight,     \* inflight_: sequence -> sent_at
    nextSequence,
    sweepAt,      \* when the sweep timer runs, Never when it is not enabled
    drainUntil,   \* when the drain timer runs
    sent, received, lost,
    outcome       \* history: how each datagram's request completed

counters == <<sent, received, lost, outcome>>
vars == <<phase, socket, now, inflight, nextSequence, sweepAt, drainUntil, counters>>

Never == MaxTime + 1
Sequences == 0 .. MaxSequence - 1
Outstanding == DOMAIN inflight

TypeOK ==
    /\ phase \in {"new", "running", "draining", "finished", "terminated"}
    /\ socket \in BOOLEAN
    /\ now \in 0 .. MaxTime
    /\ Outstanding \subseteq Sequences /\ Cardinality(Outstanding) <= MaxInflight
    /\ \A q \in Outstanding : inflight[q] \in 0 .. now
    /\ nextSequence \in 0 .. MaxSequence
    /\ {sweepAt, drainUntil} \subseteq 0 .. Never + SweepInterval + DrainDuration
    /\ {sent, received, lost} \subseteq 0 .. MaxSequence
    /\ outcome \in [Sequences -> {"none", "received", "lost", "dropped"}]

Init ==
    /\ phase = "new" /\ socket = FALSE /\ now = 0
    /\ inflight = [q \in {} |-> 0] /\ nextSequence = 0
    /\ sweepAt = Never /\ drainUntil = Never
    /\ sent = 0 /\ received = 0 /\ lost = 0
    /\ outcome = [q \in Sequences |-> "none"]

\* prepare: without a host, a socket or a connect nothing is ever sent.
Prepare ==
    /\ phase = "new" /\ phase' = "running"
    /\ \/ socket' = TRUE /\ sweepAt' = now + SweepInterval
       \/ UNCHANGED <<socket, sweepAt>>
    /\ UNCHANGED <<now, inflight, nextSequence, drainUntil, counters>>

HasRoom == Cardinality(Outstanding) < MaxInflight

NumberAfter(ok) == nextSequence + 1

\* A send that is dropped before it has a number changes nothing.
TryStartRequest ==
    /\ phase = "running" /\ socket
    /\ HasRoom
    /\ nextSequence < MaxSequence
    /\ \/ /\ sent' = sent + 1
          /\ nextSequence' = NumberAfter(TRUE)
          /\ inflight' = [q \in Outstanding \cup {nextSequence} |->
                            IF q = nextSequence THEN now ELSE inflight[q]]
          /\ UNCHANGED outcome
       \/ /\ outcome' = [outcome EXCEPT ![nextSequence] = "dropped"]   \* udp_send_errors
          /\ nextSequence' = NumberAfter(FALSE)
          /\ UNCHANGED <<sent, inflight>>
    /\ UNCHANGED <<phase, socket, now, sweepAt, drainUntil, received, lost>>

\* completeAll and sweep: the requests of the datagrams in qs fail.
GiveUp(qs) ==
    /\ inflight' = Restrict(inflight, Outstanding \ qs)
    /\ lost' = lost + Cardinality(qs)
    /\ outcome' = [q \in Sequences |-> IF q \in qs THEN "lost" ELSE outcome[q]]

\* A datagram with the message and a number; any other, and any other number, is
\* udp_unexpected and changes nothing. The last one awaited ends a drain.
OnDatagram(q) ==
    /\ socket /\ q \in Outstanding
    /\ inflight' = Restrict(inflight, Outstanding \ {q})
    /\ received' = received + 1
    /\ outcome' = [outcome EXCEPT ![q] = "received"]
    /\ drainUntil' = IF phase = "draining" /\ Outstanding = {q} THEN now ELSE drainUntil
    /\ UNCHANGED <<phase, socket, now, nextSequence, sweepAt, sent, lost>>

\* What the sweep pops: from the oldest on, up to the first one still in time.
Overdue ==
    {q \in Outstanding : \A p \in Outstanding : p <= q => now - inflight[p] >= Timeout}

Sweep ==
    /\ sweepAt = now
    /\ GiveUp(Overdue)
    /\ IF phase = "draining" /\ Overdue = Outstanding
       THEN sweepAt' = Never /\ drainUntil' = now
       ELSE sweepAt' = now + SweepInterval /\ UNCHANGED drainUntil
    /\ UNCHANGED <<phase, socket, now, nextSequence, sent, received>>

DrainWindow == Min({DrainDuration, Timeout})

Finish ==
    /\ phase = "running"
    /\ IF Outstanding # {} /\ socket
       THEN /\ phase' = "draining" /\ drainUntil' = now + DrainWindow
            /\ UNCHANGED sweepAt
       ELSE phase' = "finished" /\ sweepAt' = Never /\ UNCHANGED drainUntil
    /\ UNCHANGED <<socket, now, inflight, nextSequence, counters>>

LeftOver == Outstanding
\* The drain's run of the dispatcher returns: on its timer, or when nothing is awaited.
DrainReturns ==
    /\ phase = "draining" /\ drainUntil = now
    /\ phase' = "finished" /\ sweepAt' = Never
    /\ GiveUp(LeftOver)
    /\ UNCHANGED <<socket, now, nextSequence, drainUntil, sent, received>>

Terminate ==
    /\ phase = "finished"
    /\ phase' = "terminated" /\ socket' = FALSE
    /\ UNCHANGED <<now, inflight, nextSequence, sweepAt, drainUntil, counters>>

\* Time passes, never past a timer that is due.
Tick ==
    /\ now < MaxTime /\ sweepAt # now
    /\ phase = "draining" => drainUntil # now
    /\ now' = now + 1
    /\ UNCHANGED <<phase, socket, inflight, nextSequence, sweepAt, drainUntil, counters>>

Next ==
    \/ Prepare \/ TryStartRequest \/ Sweep \/ Finish \/ DrainReturns \/ Terminate \/ Tick
    \/ \E q \in Sequences : OnDatagram(q)

Spec == Init /\ [][Next]_vars

(***************************************************************************)
(* Properties                                                              *)
(***************************************************************************)
\* Every datagram sent is received, lost or outstanding, and after finish() none is
\* outstanding: the three counters add up whatever the network repeats or delays.
DatagramsAddUp ==
    /\ sent = received + lost + Cardinality(Outstanding)
    /\ phase \in {"finished", "terminated"} => Outstanding = {}

\* A request completes once: an echo after the sweep gave up, or a second one, is unexpected.
CompletedOnce ==
    \A q \in Sequences : outcome[q] # "none" => outcome'[q] = outcome[q]

\* Stopping the sweep at the first datagram still in time leaves none behind: nothing stays
\* outstanding for a sweep interval past its timeout.
NoneOverdue ==
    \A q \in Outstanding : now - inflight[q] <= Timeout + SweepInterval - 1
                           \/ sweepAt = now \/ (phase = "draining" /\ drainUntil = now)

\* finish() waits no longer than the drain window and no longer than the timeout.
DrainBounded == phase = "draining" => drainUntil - now <= Timeout
=============================================================================
