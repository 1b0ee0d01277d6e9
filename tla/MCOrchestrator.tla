--------------------------- MODULE MCOrchestrator ---------------------------
(***************************************************************************)
(* The orchestrator's parts for TLC, side by side: the runner, a call of a *)
(* backend, a distributor's stream, the results file and the two           *)
(* computations of the plan's compilation. They share no state, so a       *)
(* behaviour is one of a single part, which is chosen at the start; the    *)
(* others stay as they are at first.                                       *)
(***************************************************************************)
EXTENDS MCRunner

CONSTANTS
    Addresses, Spellings, Pools, MaxAnswers, \* the distributor's, see Distributor
    MaxWrites, MaxRuns,                      \* of ResultsStream
    Width, Rates, Workers, PoolSizes,        \* of RateDivision
    MaxInt64, Durations                      \* of BackendDeadline

ASSUME PoolsOfNames ==
    Pools \subseteq Seq([addr : Addresses, spelling : Spellings]) /\ MaxAnswers \in Nat
ASSUME FileBounds == MaxWrites \in Nat /\ MaxRuns \in Nat
ASSUME RatesFit ==
    /\ Width \in Nat /\ Rates \subseteq 0 .. Width - 1
    /\ Workers \subseteq 1 .. Width - 1 /\ PoolSizes \subseteq 1 .. Width - 1
ASSUME DurationsFit == MaxInt64 \in Nat /\ MaxInt64 >= 2 /\ Durations \subseteq 0 .. MaxInt64

VARIABLES
    part,
    pc, callCause, callCaller, gotten, cancelled, result, toService, toClient, service,
    outcome, link, inTime,
    targets, state, answered, names, failed, broken,
    file, synced, open, torn, writes, runs, written, durable,
    rateCall, rates,
    deadlineCall, deadline

executeVars ==
    <<pc, callCause, callCaller, gotten, cancelled, result, toService, toClient, service,
      outcome, link, inTime>>
distributorVars == <<targets, state, answered, names, failed, broken>>
fileVars == <<file, synced, open, torn, writes, runs, written, durable>>
rateVars == <<rateCall, rates>>
deadlineVars == <<deadlineCall, deadline>>

\* One target or two; answers may be spelled in two ways or come from a stranger.
Name(addr, spelling) == [addr |-> addr, spelling |-> spelling]
MCPools == {<<Name("a", 1)>>, <<Name("a", 1), Name("b", 2)>>}

\* A word of four bits. Targets times workers is on both sides of it: 8 times 2 wraps to zero,
\* 8 times 3 to another divisor.
MCRates == 1 .. 15
MCWorkers == {1, 2, 3, 4, 8}
MCPoolSizes == 1 .. 3

Call == INSTANCE ExecuteCall WITH cause <- callCause, caller <- callCaller
Dist == INSTANCE Distributor
File == INSTANCE ResultsStream
Rate == INSTANCE RateDivision WITH Backends <- PoolSizes, call <- rateCall, result <- rates
Deadline == INSTANCE BackendDeadline WITH None <- -1, call <- deadlineCall

PartsInit ==
    /\ part \in {"runner", "execute", "distributor", "file", "rate", "deadline"}
    /\ Init
    /\ Call!Init
    /\ Dist!Init /\ (part = "distributor" \/ targets = CHOOSE p \in Pools : TRUE)
    /\ File!Init
    /\ Rate!Init /\ (part = "rate" \/ rateCall = CHOOSE c \in Rate!Calls : TRUE)
    /\ IF part = "deadline" THEN Deadline!Init
       ELSE deadlineCall = (CHOOSE c \in Deadline!Calls : TRUE) /\ deadline = -1

RunnerStep ==
    /\ part = "runner" /\ Next
    /\ UNCHANGED <<part, executeVars, distributorVars, fileVars, rateVars, deadlineVars>>
ExecuteStep ==
    /\ part = "execute" /\ Call!Next
    /\ UNCHANGED <<part, vars, distributorVars, fileVars, rateVars, deadlineVars>>
DistributorStep ==
    /\ part = "distributor" /\ Dist!Next
    /\ UNCHANGED <<part, vars, executeVars, fileVars, rateVars, deadlineVars>>
FileStep ==
    /\ part = "file" /\ File!Next
    /\ UNCHANGED <<part, vars, executeVars, distributorVars, rateVars, deadlineVars>>
RateStep ==
    /\ part = "rate" /\ Rate!Next
    /\ UNCHANGED <<part, vars, executeVars, distributorVars, fileVars, deadlineVars>>
DeadlineStep ==
    /\ part = "deadline" /\ Deadline!Next
    /\ UNCHANGED <<part, vars, executeVars, distributorVars, fileVars, rateVars>>

PartsNext ==
    \/ RunnerStep \/ ExecuteStep \/ DistributorStep \/ FileStep \/ RateStep
    \/ DeadlineStep

partsVars == <<part, vars, executeVars, distributorVars, fileVars, rateVars, deadlineVars>>

PartsSpec == PartsInit /\ [][PartsNext]_partsVars

-----------------------------------------------------------------------------
\* ExecuteCall: what the service said before the deadline is what Execute returns, and no service
\* is left running an execution that was not asked to stop.
NothingLostOrLeft ==
    part = "execute" =>
       Call!TypeOK /\ Call!ArrivedInTimeIsReturned /\ Call!NothingLeftRunning

\* ExecuteCall: Execute keeps the promise of BackendCall.
ImplementsCall == Call!ImplementsCall

\* Distributor: every target has one output or a failure, and one target's failure does not cost
\* the others their results.
EveryTargetAccounted ==
    part = "distributor" => Dist!TypeOK /\ Dist!EveryTargetAccounted /\ Dist!OthersKept

\* ResultsStream: no line of the file is made of two records, and a record that was written is a
\* line of its own for good.
RecordsAreLines == part = "file" => File!TypeOK /\ File!NoLineJoined /\ File!WrittenIsLine

\* RateDivision: what a pool, or a distributor's targets, send adds up to the plan's rate, or the
\* plan is refused (for a distributor where targets times workers fits the word); no backend is idle, and none differs by more than one per worker.
\* BackendDeadline: a backend has time for every wait it was asked for.
PlanArithmetic ==
    /\ part = "rate" => Rate!TypeOK /\ Rate!RateExact /\ Rate!SharesEven /\ Rate!UniformExact
    /\ part = "deadline" => Deadline!TypeOK /\ Deadline!LeavesTimeForWaits
=============================================================================
