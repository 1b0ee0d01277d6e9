----------------------------- MODULE LimiterUse -----------------------------
(***************************************************************************)
(* A rate limiter in use: time passes, acquisitions are asked for, and one *)
(* that the target has no room for is given back at once, which is the     *)
(* contract of the sequencer with its rate limiter.                        *)
(***************************************************************************)
EXTENDS RateLimiter

CONSTANTS
    MaxTime  \* bound: ticks

VARIABLES
    now,
    limiter,
    given    \* acquisitions handed out and kept

vars == <<now, limiter, given>>

TypeOK ==
    /\ now \in 0 .. MaxTime /\ given \in Nat
    /\ limiter.acquireable \in Nat /\ limiter.acquired \in Nat
    /\ limiter.accumulated \in Nat /\ limiter.start \in {NotStarted} \cup StartAt .. MaxTime

Init == now = 0 /\ limiter = NewLimiter /\ given = 0

Tick == now < MaxTime /\ now' = now + 1 /\ UNCHANGED <<limiter, given>>

\* One turn of the sequencer's loop: an acquisition, used or given back.
Acquire(offset, used) ==
    \E t \in {TryAcquireOne(limiter, now, offset)} :
        /\ limiter' = IF t.ok /\ ~used THEN ReleaseOne(t.l) ELSE t.l
        /\ given' = IF t.ok /\ used THEN given + 1 ELSE given
        /\ UNCHANGED now

Next == Tick \/ \E offset \in 0 .. Jitter, used \in BOOLEAN : Acquire(offset, used)

Spec == Init /\ [][Next]_vars

(***************************************************************************)
(* Properties                                                              *)
(***************************************************************************)
\* Nothing is lost or made up between the layers: what the base has handed out is in use, or
\* accumulating for a burst, or waiting for its jitter, whatever was given back on the way.
NothingLost == limiter.acquired = given + limiter.accumulated + Len(limiter.timings)

\* The configured rate is never exceeded, from the first acquisition on, and no more is ever
\* acquireable than is due.
NeverAhead ==
    /\ limiter.acquired > 0 => limiter.acquired <= Due(now - limiter.start)
    /\ limiter.acquireable > 0 =>
           limiter.acquired + limiter.acquireable <= Due(now - limiter.start)

\* timeUntilNextRelease() is a lower bound: nothing can be acquired before that time is up, so a
\* sequencer that sleeps so long misses nothing.
WaitMissesNothing ==
    \A d \in 0 .. TimeUntilNextRelease(limiter, now) - 1 :
        \A offset \in {0, Jitter} : ~TryAcquireOne(limiter, now + d, offset).ok

\* Without bursts and jitter it is exact: once the time is up, an acquisition succeeds.
WaitIsEnough ==
    BurstSize = 0 /\ Jitter = 0 /\ limiter.start # NotStarted =>
        TryAcquireOne(limiter, now + TimeUntilNextRelease(limiter, now), 0).ok

\* Timings come due in order.
TimingsSorted ==
    \A i \in 1 .. Len(limiter.timings) - 1 : limiter.timings[i] <= limiter.timings[i + 1]

\* A burst is let go when it is whole, and what is left of it is less than one burst.
LetGoWhole ==
    ~limiter.releasing /\ limiter'.releasing => given' = given \/ limiter'.accumulated = BurstSize - 1
BurstBounded ==
    BurstSize > 0 => IF limiter.releasing THEN limiter.accumulated \in 1 .. BurstSize
                     ELSE limiter.accumulated \in 0 .. BurstSize - 1

\* The assertions of releaseOne(): it follows a successful acquisition of the same limiter.
ReleasePaired == limiter.asserts = {}
=============================================================================
