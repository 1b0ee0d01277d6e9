----------------------------- MODULE MCRequests -----------------------------
(***************************************************************************)
(* Where requests come from and when they are sent, for TLC, side by side: *)
(* the remote request source, the rate limiters, the sequencer, the        *)
(* request generators and the options. The sequencer has its rate limiter; *)
(* the others share no state, so a behaviour is one of a single part,      *)
(* which is chosen at the start; the others stay as they are at first.     *)
(***************************************************************************)
EXTENDS RequestStream, OptionsCases

CONSTANT None  \* what is not set

VARIABLES
    part,
    now, limiter, given,
    sequencerNow, strategy, state, periodic, spin, sequencerLimiter, initiated, completed,
    good, bad, cancelAt, blockedStart, blockedTime, failed, stoppedAfter,
    source, options, list, specifier, total, left, counter, calls, yielded, dry, request,
    headersPhase, argv, added, sent, ours, opts, before

rampVars == <<now, limiter, given>>
sequencerVars ==
    <<sequencerNow, strategy, state, periodic, spin, sequencerLimiter, initiated, completed,
      good, bad, cancelAt, blockedStart, blockedTime, failed, stoppedAfter>>
generatorsVars ==
    <<source, options, list, specifier, total, left, counter, calls, yielded, dry, request>>
headersVars == <<headersPhase, argv, added, sent, ours, opts, before>>

OptionParts == {"argv", "message", "headers"}

\* A linear ramp of thirty ticks to a request every four.
Ramp == INSTANCE LimiterUse
    WITH Ramping <- TRUE, Interval <- 4, RampTime <- 30, StartAt <- 1, BurstSize <- 0,
         Jitter <- 0, MaxTime <- 60
\* Bursts of three.
Burst == INSTANCE LimiterUse
    WITH Ramping <- FALSE, Interval <- 2, RampTime <- 1, StartAt <- 1, BurstSize <- 3,
         Jitter <- 0, MaxTime <- 24
\* Requests delayed by up to three ticks.
Jittered == INSTANCE LimiterUse
    WITH Ramping <- FALSE, Interval <- 2, RampTime <- 1, StartAt <- 1, BurstSize <- 0,
         Jitter <- 3, MaxTime <- 12
Sequencer == INSTANCE Sequencer
    WITH Ramping <- FALSE, Interval <- 2, RampTime <- 1, StartAt <- 3, BurstSize <- 0,
         Jitter <- 0, MaxTime <- 14, Strategies <- {"SPIN", "POLL", "SLEEP", "WAIT"},
         MaxIdleWait <- 2, SleepTime <- 2, Capacity <- 2, Duration <- 8, FailLimit <- 1,
         TermLimit <- 1, now <- sequencerNow, limiter <- sequencerLimiter
BurstSeq == INSTANCE Sequencer
    WITH Ramping <- FALSE, Interval <- 1, RampTime <- 1, StartAt <- 3, BurstSize <- 2,
         Jitter <- 0, MaxTime <- 14, Strategies <- {"SPIN", "POLL", "SLEEP", "WAIT"},
         MaxIdleWait <- 2, SleepTime <- 2, Capacity <- 2, Duration <- 8, FailLimit <- 1,
         TermLimit <- 1, now <- sequencerNow, limiter <- sequencerLimiter
Gen == INSTANCE RequestGenerators
    WITH Width <- 3, Yields <- {0, 2, 7}, Totals <- {0, 3}, MaxCalls <- 5
\* Headers of up to five characters.
Headers == INSTANCE OptionsCli
    WITH ArgvBases <- {HttpRun}, Arguments <- HeaderArguments(5), Messages <- {},
         Fields <- NoFields, MaxAdded <- 1, phase <- headersPhase
\* Command lines of every kind of run, with two further arguments.
Argv == INSTANCE OptionsCli
    WITH ArgvBases <- ArgvBasesOfEveryKind, Arguments <- FurtherArguments, Messages <- {},
         Fields <- NoFields, MaxAdded <- 2, phase <- headersPhase
\* Messages of every kind of run, with three further fields.
Message == INSTANCE OptionsCli
    WITH ArgvBases <- {}, Arguments <- NoFields, Messages <- MessagesOfEveryKind,
         Fields <- FurtherFields, MaxAdded <- 3, phase <- headersPhase

PartsInit ==
    /\ part \in {"source", "ramp", "burst", "jitter", "sequencer", "bursting", "generators",
                 "headers", "argv", "message"}
    /\ Init
    /\ IF part = "jitter" THEN Jittered!Init ELSE IF part = "burst" THEN Burst!Init ELSE Ramp!Init
    /\ (IF part = "bursting" THEN BurstSeq!Init ELSE Sequencer!Init) /\ (part \in {"sequencer", "bursting"} \/ strategy = "SPIN")
    /\ Gen!Init /\ (part = "generators" \/ (source = "static" /\ left = 0 /\ options = CHOOSE o \in Gen!Options : TRUE))
    /\ IF part = "message" THEN Message!Init ELSE IF part = "argv" THEN Argv!Init ELSE Headers!Init

SourceStep ==
    /\ part = "source" /\ Next
    /\ UNCHANGED <<part, rampVars, sequencerVars, generatorsVars, headersVars>>
RampStep ==
    /\ part = "ramp" /\ Ramp!Next
    /\ UNCHANGED <<part, vars, sequencerVars, generatorsVars, headersVars>>
BurstStep ==
    /\ part = "burst" /\ Burst!Next
    /\ UNCHANGED <<part, vars, sequencerVars, generatorsVars, headersVars>>
JitterStep ==
    /\ part = "jitter" /\ Jittered!Next
    /\ UNCHANGED <<part, vars, sequencerVars, generatorsVars, headersVars>>
SequencerStep ==
    /\ part = "sequencer" /\ Sequencer!Next
    /\ UNCHANGED <<part, vars, rampVars, generatorsVars, headersVars>>
BurstingStep ==
    /\ part = "bursting" /\ BurstSeq!Next
    /\ UNCHANGED <<part, vars, rampVars, generatorsVars, headersVars>>
GeneratorsStep ==
    /\ part = "generators" /\ Gen!Next
    /\ UNCHANGED <<part, vars, rampVars, sequencerVars, headersVars>>
HeadersStep ==
    /\ part = "headers" /\ Headers!Next
    /\ UNCHANGED <<part, vars, rampVars, sequencerVars, generatorsVars>>
ArgvStep ==
    /\ part = "argv" /\ Argv!Next
    /\ UNCHANGED <<part, vars, rampVars, sequencerVars, generatorsVars>>
MessageStep ==
    /\ part = "message" /\ Message!Next
    /\ UNCHANGED <<part, vars, rampVars, sequencerVars, generatorsVars>>

PartsNext ==
    \/ SourceStep \/ RampStep \/ BurstStep \/ JitterStep \/ SequencerStep
    \/ BurstingStep \/ GeneratorsStep \/ HeadersStep \/ ArgvStep \/ MessageStep

partsVars == <<part, vars, rampVars, sequencerVars, generatorsVars, headersVars>>

PartsSpec == PartsInit /\ [][PartsNext]_partsVars

-----------------------------------------------------------------------------

\* LimiterUse: timeUntilNextRelease() is right: nothing can be acquired before it is up and,
\* without bursts and jitter, something can be once it is.
WaitsExact ==
    /\ part = "ramp" => Ramp!WaitMissesNothing /\ Ramp!WaitIsEnough
    /\ part = "burst" => Burst!WaitMissesNothing
    /\ part = "jitter" => Jittered!WaitMissesNothing

\* Sequencer: it wakes up in time. It has its periodic timer exactly while it runs; a blocked
\* request goes out as soon as the target has room; WAIT never sleeps through a request; and the
\* idle wait bounds how late an execution ends or is cancelled.
WakesInTime ==
    /\ part \in {"sequencer", "bursting"} => Sequencer!AlwaysArmed
    /\ part = "sequencer" => /\ Sequencer!TypeOK /\ Sequencer!BlockedIsRetried
                             /\ Sequencer!NoSleepPastDue /\ Sequencer!OverrunBounded
    /\ part = "bursting" => BurstSeq!NoSleepPastDue



\* Nothing happens out of turn: a burst is let go when it is whole (LimiterUse); no request is
\* sent before the start or after the duration, and neither the duration nor a cancellation hides
\* that a failure predicate fired (Sequencer); a remote source's requests are used once and in
\* order, and execution starts when it is known whether they will come (RequestStream).
NothingOutOfTurn ==
    /\ [][part = "burst" => Burst!LetGoWhole]_partsVars
    /\ [][part = "sequencer" => Sequencer!StartsInTime /\ Sequencer!FailureShown]_partsVars
    /\ UsedInOrder /\ KnownWhenConnected
=============================================================================
