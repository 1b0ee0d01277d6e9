----------------------------- MODULE Sequencer -----------------------------
(***************************************************************************)
(* SequencerImpl with its rate limiter, its two timers and its chain of    *)
(* termination predicates, over a target that has room for Capacity calls  *)
(* at a time. A tick is NighthawkTimerResolution; the dispatcher runs a    *)
(* timer when it is due, the earlier first, a zero timer before a tick has *)
(* passed; the time stays the same during a run, but for SLEEP's sleep.    *)
(***************************************************************************)
EXTENDS RateLimiter

CONSTANTS
    Strategies,   \* the idle strategies, a subset of {"SPIN", "POLL", "SLEEP", "WAIT"}
    MaxIdleWait,  \* NighthawkMaxIdleWait, in ticks
    SleepTime,    \* how long SLEEP sleeps
    Capacity,     \* calls the target can have in flight
    Duration,     \* of the duration predicate
    FailLimit,    \* of the failure predicate
    TermLimit,    \* of the configured termination predicate
    MaxTime       \* bound: ticks

VARIABLES
    now,
    strategy,
    state,         \* running_, and whether it was ever set
    periodic, spin,\* when each timer is due, Off when it is not enabled
    limiter,
    initiated, completed,
    good, bad,     \* the counters that the configured predicates watch
    cancelAt,      \* when graceful_stop_requested was set, Off before
    blockedStart,  \* blocked_start_, Off when not blocked_
    blockedTime,   \* the sum of blocked_statistic_
    failed,        \* failed_terminations
    stoppedAfter   \* Off before stop()

predicates == <<good, bad, cancelAt>>
blocking == <<blockedStart, blockedTime>>
vars == <<now, strategy, state, periodic, spin, limiter, initiated, completed, predicates,
          blocking, failed, stoppedAfter>>

Off == -1
Running == state = "running"
Blocked == blockedStart # Off
Inflight == initiated - completed

TypeOK ==
    /\ now \in 0 .. MaxTime /\ strategy \in Strategies
    /\ state \in {"new", "running", "stopped"}
    /\ {periodic, spin, cancelAt, blockedStart, stoppedAfter}
           \subseteq {Off} \cup 0 .. MaxTime + MaxIdleWait
    /\ completed \in 0 .. initiated /\ Inflight <= Capacity
    /\ good + bad = completed /\ blockedTime \in 0 .. MaxTime /\ failed \in 0 .. 1

Init ==
    /\ now = 0 /\ strategy \in Strategies /\ state = "new"
    /\ periodic = Off /\ spin = Off /\ limiter = NewLimiter
    /\ initiated = 0 /\ completed = 0 /\ good = 0 /\ bad = 0 /\ cancelAt = Off
    /\ blockedStart = Off /\ blockedTime = 0 /\ failed = 0 /\ stoppedAfter = Off

(***************************************************************************)
(* The termination predicates                                              *)
(***************************************************************************)
\* Fault: the duration is linked last.
ChainDurationLast == <<"graceful_stop_requested", "failure", "termination", "duration">>
\* From the root to the last child, as TerminationPredicateFactoryImpl::create links them.
Chain == <<"graceful_stop_requested", "duration", "failure", "termination">>

Over == now - StartAt > Duration
Evaluate(p) ==
    CASE p = "graceful_stop_requested" -> IF cancelAt # Off THEN "TERMINATE" ELSE "PROCEED"
      [] p = "duration" -> IF Over THEN "TERMINATE" ELSE "PROCEED"
      [] p = "failure" -> IF bad > FailLimit THEN "FAIL" ELSE "PROCEED"
      [] p = "termination" -> IF good > TermLimit THEN "TERMINATE" ELSE "PROCEED"

\* A child before its parent, up to the first that does not say PROCEED.
EvaluateChain ==
    FoldRight(LAMBDA p, status : IF status = "PROCEED" THEN Evaluate(p) ELSE status,
              Chain, "PROCEED")

(***************************************************************************)
(* The timers                                                              *)
(***************************************************************************)
\* Fault: the cap is taken whatever the rate limiter says.
IdleWaitWhole(l) == MaxIdleWait
IdleWait(l) == Max({1, Min({MaxIdleWait, TimeUntilNextRelease(l, now)})})

ScheduleRun(l) == now + (IF strategy = "WAIT" THEN IdleWait(l) ELSE 1)

(***************************************************************************)
(* A run                                                                   *)
(***************************************************************************)
\* The blocked statistic's sum once a blocked time ends now.
BlockedSum == IF Blocked THEN blockedTime + now - blockedStart ELSE blockedTime

StoppedAfter == now - Started(limiter, now).start

Stop(fail) ==
    /\ state' = "stopped"
    /\ periodic' = Off /\ spin' = Off
    /\ blockedStart' = Off /\ blockedTime' = BlockedSum
    /\ failed' = IF fail THEN failed + 1 ELSE failed
    /\ stoppedAfter' = StoppedAfter
    /\ limiter' = Started(limiter, now)
    /\ UNCHANGED <<now, initiated, completed, bad>>

Refused(l) == ReleaseOne(l)

\* The target has no room for another call, in closed loop.
Full(started) == Inflight + started >= Capacity

\* The loop: one acquisition after the other, until none is to be had or the target has no room.
\* Calls that complete at once (sync) leave no less room for the next.
Turn(s, t, sync) ==
    IF ~t.ok THEN [s EXCEPT !.l = t.l, !.done = TRUE]
    ELSE IF ~sync /\ Full(s.started)
         THEN [s EXCEPT !.l = Refused(t.l), !.refused = TRUE, !.done = TRUE]
    ELSE [s EXCEPT !.l = t.l, !.started = @ + 1]
Loop(sync) ==
    LET Turns(s, i) == IF s.done THEN s ELSE Turn(s, TryAcquireOne(s.l, now, 0), sync)
    IN  FoldLeft(Turns, [l |-> limiter, started |-> 0, refused |-> FALSE, done |-> FALSE],
                 [i \in 1 .. Due(now) + 1 |-> i])

\* A start ends the blocked time, a refusal begins one.
BlockedAfter(r) ==
    IF r.refused /\ (r.started > 0 \/ ~Blocked) THEN now
    ELSE IF r.started > 0 THEN Off ELSE blockedStart

Rearm(fromPeriodic, l, armed) ==
    IF strategy = "WAIT" \/ fromPeriodic THEN ScheduleRun(l) ELSE armed

Proceed(fromPeriodic, sync, armed, spinning) ==
    \E r \in {Loop(sync)} :
    LET done == IF sync THEN r.started ELSE 0
        idle == ~fromPeriodic /\ \/ strategy = "SPIN" /\ Inflight + r.started = done
                                 \/ strategy = "SLEEP"
    IN  /\ state' = "running"
        /\ limiter' = r.l
        /\ initiated' = initiated + r.started
        /\ completed' = completed + done /\ bad' = bad + done
        /\ blockedStart' = BlockedAfter(r)
        /\ blockedTime' = IF r.started > 0 THEN BlockedSum ELSE blockedTime
        /\ periodic' = Rearm(fromPeriodic, r.l, armed)
        /\ now' = IF idle /\ strategy = "SLEEP" THEN now + SleepTime ELSE now
        /\ spin' = IF idle THEN now' ELSE IF done > 0 THEN now ELSE spinning
        /\ UNCHANGED <<failed, stoppedAfter>>

\* armed and spinning are the timers as the run finds them.
Run(fromPeriodic, sync, armed, spinning) ==
    /\ CASE EvaluateChain = "PROCEED" -> Proceed(fromPeriodic, sync, armed, spinning)
         [] EvaluateChain = "TERMINATE" -> Stop(FALSE)
         [] EvaluateChain = "FAIL" -> Stop(TRUE)
    /\ UNCHANGED <<strategy, good, cancelAt>>

Start(sync) ==
    /\ state = "new"
    /\ Run(FALSE, sync, ScheduleRun(limiter), Off)

PeriodicTimer(sync) ==
    /\ Running /\ periodic # Off /\ periodic <= now /\ (spin = Off \/ periodic <= spin)
    /\ Run(TRUE, sync, Off, spin)

SpinTimer(sync) ==
    /\ Running /\ spin # Off /\ (periodic = Off \/ spin <= periodic)
    /\ Run(FALSE, sync, periodic, Off)

SpinAfterCompletion == IF Running THEN now ELSE spin

\* The callback of a call, while the sequencer runs or while the client drains after it.
Complete(ok) ==
    /\ Inflight > 0
    /\ completed' = completed + 1
    /\ IF ok THEN good' = good + 1 /\ UNCHANGED bad ELSE bad' = bad + 1 /\ UNCHANGED good
    /\ spin' = SpinAfterCompletion
    /\ UNCHANGED <<now, strategy, state, periodic, limiter, initiated, cancelAt, blocking,
                   failed, stoppedAfter>>

RequestStop ==
    /\ cancelAt = Off /\ cancelAt' = now
    /\ UNCHANGED <<now, strategy, state, periodic, spin, limiter, initiated, completed, good, bad,
                   blocking, failed, stoppedAfter>>

Tick ==
    /\ now < MaxTime
    /\ Running => (periodic = Off \/ now < periodic) /\ (spin = Off \/ now <= spin)
    /\ now' = now + 1
    /\ UNCHANGED <<strategy, state, periodic, spin, limiter, initiated, completed, predicates,
                   blocking, failed, stoppedAfter>>

Next ==
    \/ \E sync \in BOOLEAN : Start(sync) \/ PeriodicTimer(sync) \/ SpinTimer(sync)
    \/ \E ok \in BOOLEAN : Complete(ok)
    \/ RequestStop \/ Tick

Spec == Init /\ [][Next]_vars

\* The worker starts its sequencer, the dispatcher runs what is due, and time passes.
FairSpec ==
    /\ Spec
    /\ WF_vars(\E sync \in BOOLEAN : Start(sync)) /\ WF_vars(Tick)
    /\ WF_vars(\E sync \in BOOLEAN : PeriodicTimer(sync))
    /\ WF_vars(\E sync \in BOOLEAN : SpinTimer(sync))

(***************************************************************************)
(* Properties                                                              *)
(***************************************************************************)
\* While it runs the sequencer is never left without its periodic timer, whichever timer,
\* strategy or completion ran last; once stopped nothing is armed, although calls still complete.
AlwaysArmed == IF Running THEN periodic # Off ELSE periodic = Off /\ spin = Off

\* A request that the target had no room for goes out as soon as there is: a blocked sequencer
\* with room has its spin timer set.
BlockedIsRetried == Running /\ Blocked /\ Inflight < Capacity => spin # Off

\* WAIT never sleeps through a request: while neither timer is due none is to be had, but for
\* one the target has no room for.
NoSleepPastDue ==
    strategy = "WAIT" /\ Running /\ ~Blocked /\ spin = Off /\ periodic > now =>
        LET t == TryAcquireOne(limiter, now, 0)
        IN  t.ok => limiter.start = NotStarted

\* The cap is how late an execution can end or notice that it was cancelled.
OverrunBounded ==
    Running => /\ now <= StartAt + Duration + MaxIdleWait
               /\ cancelAt # Off => now <= cancelAt + MaxIdleWait

\* What is acquired was initiated or is held for a burst: a refused acquisition is given back.
AcquiredIsInitiated == limiter.acquired = initiated + limiter.accumulated

\* The sequencer keeps the rate limiter's contract: releaseOne() only after an acquisition.
LimiterContractKept == limiter.asserts = {}

\* The rate derived from the execution time is no higher than what was asked for, and the time
\* the client drains afterwards is no part of it.
DurationIsLatched ==
    state = "stopped" => /\ stoppedAfter <= Duration + MaxIdleWait
                         /\ initiated <= Due(stoppedAfter)

\* Times blocked do not overlap: together they fit in the execution.
BlockedTimeFits ==
    blockedTime + (IF Blocked THEN now - blockedStart ELSE 0) <= Max({0, now - StartAt})

\* No request is sent in the overrun of a duration, nor before the scheduled start.
StartsInTime == initiated' > initiated => now \in StartAt .. StartAt + Duration

\* Neither the duration nor a cancellation hides that a failure predicate had fired.
FailureShown ==
    state' = "stopped" /\ state # "stopped" /\ bad > FailLimit /\ good <= TermLimit => failed' = 1
=============================================================================
