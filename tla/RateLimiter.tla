---------------------------- MODULE RateLimiter ----------------------------
(***************************************************************************)
(* The rate limiters of engine/source/common/rate_limiter_impl.cc in the   *)
(* order SequencerFactoryImpl::create stacks them: a linear or a linearly  *)
(* ramping one, which starts at a scheduled time; around it a bursting one *)
(* and around that one that adds jitter, where they are configured. Their  *)
(* joint state is one record. Time is in ticks; where the code computes    *)
(* with floating point, this is the exact value.                           *)
(***************************************************************************)
EXTENDS Integers, Sequences, SequencesExt, FiniteSetsExt

CONSTANTS
    Ramping,   \* the base is a LinearRampingRateLimiterImpl
    Interval,  \* ticks per acquisition at the full rate
    RampTime,  \* ramp_time_
    StartAt,   \* scheduled_starting_time_
    BurstSize, \* burst_size_, 0 for no BurstingRateLimiter
    Jitter     \* the largest random offset, 0 for no DistributionSamplingRateLimiterImpl

NotStarted == -1

NewLimiter == [start |-> NotStarted, acquireable |-> 0, acquired |-> 0,
               accumulated |-> 0, releasing |-> FALSE, paired |-> FALSE,
               timings |-> <<>>, pendingRelease |-> TRUE, asserts |-> {}]

\* std::round of n / d, for n >= 0.
RoundDiv(n, d) == (2 * n + d) \div (2 * d)
CeilDiv(n, d) == -((-n) \div d)

(***************************************************************************)
(* The base                                                                *)
(***************************************************************************)
Linear(e) == (2 * e + Interval) \div (2 * Interval)

TotalRampRequests == RoundDiv(RampTime, 2 * Interval)
Ramp(e) ==
    IF e < RampTime THEN RoundDiv(e * e, 2 * RampTime * Interval)
    ELSE TotalRampRequests + RoundDiv(e - RampTime, Interval)

\* How many acquisitions are due e ticks after the first call.
Due(e) == IF Ramping THEN Ramp(e) ELSE Linear(e)

Taken(l) == [l EXCEPT !.acquireable = @ - 1, !.acquired = @ + 1]

Refill(l, e) == Due(e) - l.acquired

HandOut(filled) ==
    IF filled.acquireable > 0 THEN [ok |-> TRUE, l |-> Taken(filled)]
    ELSE [ok |-> FALSE, l |-> filled]

\* elapsed() starts the rate limiter's clock if nothing did before.
Started(l, now) == IF l.start = NotStarted THEN [l EXCEPT !.start = now] ELSE l
Filled(l, now) == [l EXCEPT !.acquireable = Refill(l, now - l.start)]

\* tryAcquireOne() of the scheduled start and of the base behind it.
BaseTry(l, now) ==
    IF now < StartAt THEN [ok |-> FALSE, l |-> l]
    ELSE IF l.acquireable > 0 THEN [ok |-> TRUE, l |-> Taken(l)]
    ELSE HandOut(Filled(Started(l, now), now))

BaseRelease(l) == [l EXCEPT !.acquireable = @ + 1, !.acquired = @ - 1]

\* When acquisition number acquired + 1 is due, after the first call.
LinearDue(l) == CeilDiv(Interval * (2 * l.acquired + 1), 2)
\* Twice the unrounded number of acquisitions at which the next one is due.
\* Fault: the next whole number is waited for.
RampTargetWhole(l) == 2 * l.acquired + 2
RampTarget(l) == 2 * l.acquired + 1

RampDue(l) ==
    LET target2 == RampTarget(l)
    IN  IF target2 * Interval >= RampTime
        THEN Max({RampTime,
                  RampTime + CeilDiv((target2 - 2 * TotalRampRequests) * Interval, 2)})
        ELSE Min({e \in 0 .. RampTime : e * e >= target2 * RampTime * Interval})

BaseWait(l, now) ==
    IF now < StartAt THEN StartAt - now
    ELSE IF l.acquireable > 0 \/ l.start = NotStarted THEN 0
    ELSE Max({0, (IF Ramping THEN RampDue(l) ELSE LinearDue(l)) - (now - l.start)})

(***************************************************************************)
(* Bursts                                                                  *)
(***************************************************************************)
BurstComplete(l) == l.accumulated % BurstSize = 0

\* The greedy loop: acquisitions are collected until a burst is complete or none is due.
Collected(l) == IF BurstComplete(l) THEN [l EXCEPT !.releasing = TRUE] ELSE l
Collect(t) == IF t.ok THEN Collected([t.l EXCEPT !.accumulated = @ + 1]) ELSE t.l
Accumulate(l, now) ==
    LET Step(l1, i) == IF l1.releasing THEN l1 ELSE Collect(BaseTry(l1, now))
    IN  FoldLeft(Step, l, [i \in 1 .. BurstSize |-> i])

LetGo(a) == [a EXCEPT !.accumulated = @ - 1, !.releasing = a.accumulated > 1, !.paired = TRUE]

FromBurst(a) ==
    IF a.releasing THEN [ok |-> TRUE, l |-> LetGo(a)]
    ELSE [ok |-> FALSE, l |-> [a EXCEPT !.paired = FALSE]]

BurstTry(l, now) ==
    IF BurstSize = 0 THEN BaseTry(l, now)
    ELSE FromBurst(IF l.releasing THEN l ELSE Accumulate(l, now))

\* paired is previously_releasing_ == true, which the code asserts here.
BurstRelease(l) ==
    IF BurstSize = 0 THEN BaseRelease(l)
    ELSE [l EXCEPT !.accumulated = @ + 1, !.releasing = TRUE, !.paired = FALSE,
                   !.asserts = @ \cup (IF l.accumulated < BurstSize THEN {} ELSE {"accumulated"})
                                 \cup (IF l.paired THEN {} ELSE {"paired"})]

BurstWait(l, now) == IF BurstSize > 0 /\ l.releasing THEN 0 ELSE BaseWait(l, now)

(***************************************************************************)
(* Jitter                                                                  *)
(***************************************************************************)
Inserted(timings, t) ==
    LET n == Quantify(DOMAIN timings, LAMBDA i : timings[i] <= t)
    IN  SubSeq(timings, 1, n) \o <<t>> \o SubSeq(timings, n + 1, Len(timings))

Popped(l) == [l EXCEPT !.timings = Tail(@), !.pendingRelease = FALSE]

Queued(t, due) == IF t.ok THEN [t.l EXCEPT !.timings = Inserted(@, due)] ELSE t.l
FromQueue(l, now) ==
    IF l.timings # <<>> /\ Head(l.timings) <= now THEN [ok |-> TRUE, l |-> Popped(l)]
    ELSE [ok |-> FALSE, l |-> l]

TryAcquireOne(l, now, offset) ==
    IF Jitter = 0 THEN BurstTry(l, now)
    ELSE FromQueue(Queued(BurstTry(l, now), now + offset), now)

ReleaseOne(l) ==
    IF Jitter = 0 THEN BurstRelease(l)
    ELSE BurstRelease([l EXCEPT !.pendingRelease = TRUE,
                                !.asserts = @ \cup (IF l.pendingRelease THEN {"pending"} ELSE {})])

TimeUntilNextRelease(l, now) ==
    IF Jitter = 0 \/ l.timings = <<>> THEN BurstWait(l, now)
    ELSE Max({0, Min({Head(l.timings) - now, BurstWait(l, now)})})
=============================================================================
