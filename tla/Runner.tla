------------------------------- MODULE Runner -------------------------------
(***************************************************************************)
(* Runner.Run (internal/run/run.go): the executions of a plan, scenario by *)
(* scenario. The targets of a weighted scenario start together, stage by   *)
(* stage; every execution runs on every backend of the pool. A goroutine   *)
(* per execution and, under it, one per backend; what a backend's call may *)
(* return is BackendCall's promise.                                        *)
(*                                                                         *)
(* The context of a stage is a child of the caller's. It ends with it, and *)
(* when a backend refuses a start at its engine's execution cap.           *)
(***************************************************************************)
EXTENDS Integers, Sequences, CallResults

CONSTANTS
    Plan,      \* per scenario: its targets, 0 if not weighted, and a staircase's stages
    Backends   \* the pool's services

ASSUME PlanShape == Plan \in Seq([targets : Nat, stages : Nat])

VARIABLES
    phase,     \* "resolving", "next", "running", "returned"
    scenario,  \* the current scenario
    first,     \* the current group is executions[first:upto] of it: i
    upto,      \* and j
    caller,    \* the caller's context has ended
    cause,     \* the cause of the stage's context: "none", "caller", "cap"
    call,      \* per execution of the group and backend: what its call returned
    report,    \* per execution of the group: its report, NoReport before
    started,   \* executions the observer was told have started
    done,      \* Report.Executions, and what the observer was told finished
    pass,      \* Report.Pass
    err        \* the error Run returned with

vars == <<phase, scenario, first, upto, caller, cause, call, report, started, done, pass, err>>

\* A report with no verdict, a call that has not returned, and the report of an
\* execution that has not.
Unjudged(error) == [error |-> error, judged |-> FALSE, pass |-> FALSE]
Pending == [result |-> "none", output |-> "none", outcome |-> "unknown"]
NoReport == Unjudged("none")

\* expand: an execution per target and stage, by stage; the group of each, the
\* stage's number for a weighted scenario and Alone for an execution by itself.
Alone == 0
AtLeastOne(n) == IF n = 0 THEN 1 ELSE n
Expand(s) ==
    [i \in 1 .. AtLeastOne(s.targets) * AtLeastOne(s.stages) |->
        IF s.targets = 0 THEN Alone ELSE (i - 1) \div s.targets + 1]
Executions(s) == Expand(Plan[s])

\* The executions of the plan, and their order.
AllExecutions == UNION {{<<s, i>> : i \in DOMAIN Executions(s)} : s \in DOMAIN Plan}
Before(e, f) == e[1] < f[1] \/ (e[1] = f[1] /\ e[2] < f[2])

\* executions[i:j] is the group at i: those after i of the same group.
IsGroup(execs, i, j) ==
    /\ execs[i] = Alone => j = i + 1
    /\ \A m \in i .. j - 1 : execs[m] = execs[i]
    /\ execs[i] # Alone /\ j <= Len(execs) => execs[j] # execs[i]

\* The executions that are running.
Group == IF phase = "running" THEN first .. upto - 1 ELSE {}

\* What a call can hand to dispatch. A response may have no results, and its
\* results may be those of a run that stalled. Without a response the outcome
\* is left unknown: nothing here depends on it.
CallReturns ==
    {c \in [result : Results, output : {"none", "full", "stalled"},
            outcome : Outcomes] :
        /\ MayReturn(c.result, TRUE, c.outcome)
        /\ c.output # "none" => c.result \in {"ok", "reported", "stopped"}
        /\ c.result \in {"failed", "cancelled"} => c.outcome = "unknown"}

Errors == {"none", "dispatch", "cap", "cancelled", "noResult", "notRun"}
Reports == [error : Errors, judged : BOOLEAN, pass : BOOLEAN]

TypeOK ==
    /\ phase \in {"resolving", "next", "running", "returned"}
    /\ scenario \in 1 .. Len(Plan) + 1
    /\ first \in Nat \ {0} /\ upto \in Nat \ {0}
    /\ caller \in BOOLEAN
    /\ cause \in {"none", "caller", "cap"}
    /\ call \in [Group -> [Backends -> CallReturns \cup {Pending}]]
    /\ report \in [Group -> Reports]
    /\ started \subseteq AllExecutions
    /\ done \in Seq([execution : AllExecutions, report : Reports])
    /\ pass \in BOOLEAN
    /\ err \in {"none", "resolve", "cancelled"}

Init ==
    /\ phase = "resolving"
    /\ scenario = 1 /\ first = 1 /\ upto = 1
    /\ caller = FALSE /\ cause = "none"
    /\ call = <<>> /\ report = <<>>
    /\ started = {} /\ done = <<>>
    /\ pass = TRUE /\ err = "none"

-----------------------------------------------------------------------------
\* The dns pools' names have addresses.
Resolve ==
    /\ phase = "resolving"
    /\ phase' = "next"
    /\ UNCHANGED <<scenario, first, upto, caller, cause, call, report, started, done, pass, err>>

\* A name does not resolve, within its timeout or before the caller gave up.
ResolveFails ==
    /\ phase = "resolving"
    /\ phase' = "returned"
    /\ err' = "resolve"
    /\ UNCHANGED <<scenario, first, upto, caller, cause, call, report, started, done, pass>>

\* The user interrupts the run.
CallerEnds ==
    /\ ~caller /\ phase # "returned"
    /\ caller' = TRUE
    /\ cause' = IF phase = "running" /\ cause = "none" THEN "caller" ELSE cause
    /\ UNCHANGED <<phase, scenario, first, upto, call, report, started, done, pass, err>>

\* The next group of the scenario; runGroup starts its goroutines.
StartGroup ==
    /\ phase = "next" /\ scenario <= Len(Plan) /\ first <= Len(Executions(scenario))
    /\ phase' = "running"
    /\ cause' = IF caller THEN "caller" ELSE "none"
    /\ \E j \in first + 1 .. Len(Executions(scenario)) + 1 :
          /\ IsGroup(Executions(scenario), first, j)
          /\ upto' = j
          /\ call' = [k \in first .. j - 1 |-> [b \in Backends |-> Pending]]
          /\ report' = [k \in first .. j - 1 |-> NoReport]
          /\ started' = started \cup {<<scenario, k>> : k \in first .. j - 1}
    /\ UNCHANGED <<scenario, first, caller, done, pass, err>>

NextScenario ==
    /\ phase = "next" /\ scenario <= Len(Plan) /\ first > Len(Executions(scenario))
    /\ scenario' = scenario + 1 /\ first' = 1
    /\ UNCHANGED <<phase, upto, caller, cause, call, report, started, done, pass, err>>

Finish ==
    /\ phase = "next" /\ scenario > Len(Plan)
    /\ phase' = "returned"
    /\ UNCHANGED <<scenario, first, upto, caller, cause, call, report, started, done, pass, err>>

Unreported(k) == report[k] = NoReport

\* A backend's goroutine in dispatch: its call returns, and a refusal at the
\* cap ends the stage's context unless something else has already.
Return(k, b) ==
    /\ Unreported(k) /\ call[k][b] = Pending
    /\ \E c \in CallReturns :
          /\ call' = [call EXCEPT ![k][b] = c]
          /\ cause' = IF c.result = "busy" /\ cause = "none" THEN "cap" ELSE cause
    /\ UNCHANGED <<phase, scenario, first, upto, caller, report, started, done, pass, err>>

\* compile.ForPool finds the execution impossible: nothing is dispatched.
DispatchFails(k) ==
    /\ Unreported(k) /\ \A b \in Backends : call[k][b] = Pending
    /\ report' = [report EXCEPT ![k] = Unjudged("dispatch")]
    /\ UNCHANGED <<phase, scenario, first, upto, caller, cause, call, started, done, pass, err>>

\* A backend that did not finish cleanly: an error, no results, or results of a
\* run far longer than the plan's.
Failed(k, b) == call[k][b].result # "ok" \/ call[k][b].output # "full"

\* The report of an execution all of whose calls have returned. The thresholds
\* hold or do not.
Judge(k) ==
    IF cause = "cap" THEN {Unjudged("cap")}
    ELSE IF cause = "caller" THEN {Unjudged("cancelled")}
    ELSE IF \A b \in Backends : call[k][b].output = "none"
    THEN {Unjudged("noResult")}
    ELSE [error : {"none"}, judged : {TRUE},
          pass : IF \E b \in Backends : Failed(k, b) THEN {FALSE} ELSE BOOLEAN]

\* runExecution, from dispatch's return on.
JoinBackends(k) ==
    /\ Unreported(k) /\ \A b \in Backends : call[k][b] # Pending
    /\ \E r \in Judge(k) : report' = [report EXCEPT ![k] = r]
    /\ UNCHANGED <<phase, scenario, first, upto, caller, cause, call, started, done, pass, err>>

\* Fault: an execution that had returned before a sibling was refused keeps its
\* verdict.
StageReportsAsTheyCame == report

\* The end of runGroup: the stage was stopped at the cap for all of them.
StageReports ==
    [k \in DOMAIN report |-> IF cause = "cap" THEN Unjudged("cap")
                             ELSE report[k]]

Entry(e, r) == [execution |-> e, report |-> r]

\* The execution after the group's, or the scenario's end after a refusal at
\* the cap.
NextFirst == IF cause = "cap" THEN Len(Executions(scenario)) + 1 ELSE upto

\* The reports of the group and of what is not run after it.
GroupReports ==
    [k \in first .. NextFirst - 1 |->
        IF k < upto THEN StageReports[k] ELSE Unjudged("notRun")]

\* Fault: the executions that did not run do not count.
AllPassThatRan(reports) ==
    \A k \in DOMAIN reports : reports[k].pass \/ ~reports[k].judged

\* The plan passes only if every report does.
AllPass(reports) == \A k \in DOMAIN reports : reports[k].pass

\* Run, from runGroup's return to the next group, or to its return when the
\* caller's context has ended.
JoinGroup ==
    /\ phase = "running" /\ \A k \in Group : ~Unreported(k)
    /\ LET stop == caller /\ \E k \in DOMAIN GroupReports : GroupReports[k].error # "none"
       IN  /\ phase' = IF stop THEN "returned" ELSE "next"
           /\ err' = IF stop THEN "cancelled" ELSE "none"
    /\ done' = done \o [i \in 1 .. NextFirst - first |->
                          Entry(<<scenario, first + i - 1>>, GroupReports[first + i - 1])]
    /\ pass' = (pass /\ AllPass(GroupReports))
    /\ first' = NextFirst
    /\ cause' = "none" /\ call' = <<>> /\ report' = <<>>
    /\ UNCHANGED <<scenario, upto, caller, started>>

Next ==
    \/ Resolve \/ ResolveFails \/ CallerEnds
    \/ StartGroup \/ NextScenario \/ Finish \/ JoinGroup
    \/ \E k \in Group :
          \/ DispatchFails(k) \/ JoinBackends(k)
          \/ \E b \in Backends : Return(k, b)

Spec == Init /\ [][Next]_vars

-----------------------------------------------------------------------------
(* Properties                                                              *)

\* The executions that have been reported.
Reported == {done[i].execution : i \in DOMAIN done}

\* Executions of one scenario that start together.
SameStage(e, f) ==
    \/ e = f
    \/ Executions(e[1])[e[2]] = Executions(f[1])[f[2]] /\ Executions(e[1])[e[2]] # Alone

\* A backend at its cap stops the whole stage, whenever its refusal comes: every
\* execution of it says so and none is judged, one that had already returned
\* included; what comes after it in the scenario is reported and never started.
StageStoppedAsOne ==
    \A i, j \in DOMAIN done :
        LET e == done[i].execution
            f == done[j].execution
        IN  done[i].report.error = "cap" /\ e[1] = f[1] =>
              IF SameStage(e, f) THEN done[j].report = Unjudged("cap")
              ELSE Before(e, f) => done[j].report.error = "notRun" /\ f \notin started

\* A passing execution is one that every backend ran to its end and accounted
\* for in full: no survivors' verdict, no cancelled, empty or stalled run.
PassIsEarned ==
    \A k \in Group : report[k].pass =>
        \A b \in Backends : call[k][b] = [result |-> "ok", output |-> "full", outcome |-> "complete"]

\* The report lists the plan's executions in plan order, each once and with no
\* gap, whatever was refused or failed (the observer hears the same).
ReportsInPlanOrder ==
    /\ \A i, j \in DOMAIN done : i < j => Before(done[i].execution, done[j].execution)
    /\ \A e \in AllExecutions, f \in Reported : Before(e, f) => e \in Reported

\* A plan that passes ran, and passed, all of its executions.
PassMeansAllRan ==
    phase = "returned" /\ err = "none" /\ pass =>
        /\ Reported = AllExecutions /\ started = AllExecutions
        /\ \A i \in DOMAIN done : done[i].report.judged /\ done[i].report.pass

\* The run goes through the plan in step: the reports are in its order, and a
\* refusal at the cap stops its whole stage and what comes after it.
StagesInStep == TypeOK /\ ReportsInPlanOrder /\ StageStoppedAsOne

\* A pass says what it seems to, of an execution and of the plan.
PassIsReal == PassIsEarned /\ PassMeansAllRan

\* "ExecutionFinished is called once for every execution of the plan" (Observer).
EveryExecutionFinished ==
    phase = "returned" /\ err # "resolve" => Reported = AllExecutions
=============================================================================
