---------------------------- MODULE RunnerProofs ----------------------------
(***************************************************************************)
(* Proofs about Runner for every plan and every pool: the reports come in  *)
(* the plan's order with no gap, a refusal at the cap stops its stage as   *)
(* one, and a plan that passes ran and passed in full.                     *)
(***************************************************************************)
EXTENDS Runner, TLAPS

\* Run's cursor: where it is in the plan, and where the group it runs ends. The
\* execution at the cursor begins a stage.
Cursor ==
    /\ scenario <= Len(Plan) => first <= Len(Executions(scenario)) + 1
    /\ scenario <= Len(Plan) /\ first > 1 /\ first <= Len(Executions(scenario)) =>
          \/ Executions(scenario)[first] = Alone
          \/ Executions(scenario)[first] # Executions(scenario)[first - 1]
    /\ phase = "running" =>
          /\ scenario <= Len(Plan) /\ first < upto /\ upto <= Len(Executions(scenario)) + 1
          /\ IsGroup(Executions(scenario), first, upto)
    /\ phase = "returned" /\ err = "none" => scenario > Len(Plan)

\* What is reported is what the cursor has passed, in order.
Past(e) == e[1] < scenario \/ (e[1] = scenario /\ e[2] < first)

Listed ==
    /\ Reported = {e \in AllExecutions : Past(e)}
    /\ \A i, j \in DOMAIN done : i < j => Before(done[i].execution, done[j].execution)

\* What has started is what was passed and run, and what is running.
Begun ==
    /\ \A i \in DOMAIN done : done[i].execution \in started <=> done[i].report.error # "notRun"
    /\ \A k \in Group : <<scenario, k>> \in started
    /\ \A e \in started : Past(e) \/ (e[1] = scenario /\ e[2] \in Group)

\* A pass is a verdict, the plan's is all of them, and a report of the cap is due
\* to the cap.
Sound(r) == r.pass => r.judged /\ r.error = "none"
Verdicts ==
    /\ \A i \in DOMAIN done : Sound(done[i].report)
    /\ pass => \A i \in DOMAIN done : done[i].report.pass
    /\ \A k \in Group :
          /\ Sound(report[k]) /\ report[k].error # "notRun"
          /\ report[k].error = "cap" => cause = "cap"

\* A refusal at the cap ends its scenario.
EndsScenario ==
    \A i \in DOMAIN done :
        done[i].report.error = "cap" /\ done[i].execution[1] = scenario =>
            first > Len(Executions(scenario))

IInv ==
    /\ TypeOK /\ Cursor /\ Listed /\ Begun /\ Verdicts /\ EndsScenario
    /\ StageStoppedAsOne /\ PassIsEarned

-----------------------------------------------------------------------------
\* An element of a sequence.
LEMMA ElementType ==
    ASSUME NEW S, NEW q \in Seq(S), NEW i \in 1 .. Len(q)
    PROVE  q[i] \in S
  OBVIOUS

\* Division by the number of targets keeps the order.
LEMMA DivMonotone ==
    ASSUME NEW n \in Nat \ {0}, NEW a \in Nat, NEW b \in Nat, a <= b
    PROVE  a \div n \in Nat /\ a \div n <= b \div n
  <1>1. a \div n \in Nat /\ b \div n \in Nat
    OBVIOUS
  <1>2. n * (a \div n) <= a /\ b < n * (b \div n + 1)
    OBVIOUS
  <1>3. ASSUME NEW p \in Nat, NEW q \in Nat, n * p <= a, b < n * (q + 1), p > q PROVE FALSE
    <2>1. n * p >= n * (q + 1)
      BY <1>3
    <2> QED BY <1>3, <2>1
  <1> QED BY <1>1, <1>2, <1>3

\* The executions of a scenario are in the order of their stages.
LEMMA Expanded ==
    ASSUME NEW s \in DOMAIN Plan
    PROVE  /\ Executions(s) \in Seq(Nat)
           /\ \A a, b \in DOMAIN Executions(s) : a <= b => Executions(s)[a] <= Executions(s)[b]
  <1> DEFINE t == Plan[s].targets
             n == AtLeastOne(t) * AtLeastOne(Plan[s].stages)
             L(i) == IF t = 0 THEN 0 ELSE (i - 1) \div t + 1
  <1>1. t \in Nat /\ Plan[s].stages \in Nat
    <2>1. Plan \in Seq([targets : Nat, stages : Nat]) /\ s \in 1 .. Len(Plan)
      BY PlanShape
    <2>2. Plan[s] \in [targets : Nat, stages : Nat]
      BY <2>1, ElementType, Zenon
    <2> QED BY <2>2
  <1>2. n \in Nat
    BY <1>1 DEF AtLeastOne
  <1>3. Executions(s) = [i \in 1 .. n |-> L(i)]
    BY DEF Executions, Expand, Alone
  <1>4. \A a, b \in 1 .. n : L(a) \in Nat /\ (a <= b => L(a) <= L(b))
    <2> SUFFICES ASSUME NEW a \in 1 .. n, NEW b \in 1 .. n
                 PROVE  L(a) \in Nat /\ (a <= b => L(a) <= L(b))
      OBVIOUS
    <2>1. CASE t = 0
      BY <2>1
    <2>2. CASE t # 0
      <3>1. a - 1 \in Nat /\ b - 1 \in Nat /\ t \in Nat \ {0}
        BY <1>1, <1>2, <2>2
      <3>2. (a - 1) \div t \in Nat /\ (b - 1) \div t \in Nat
        BY <3>1, DivMonotone
      <3>3. a <= b => (a - 1) \div t <= (b - 1) \div t
        BY <3>1, DivMonotone
      <3> HIDE DEF t, n
      <3> QED BY <2>2, <3>2, <3>3
    <2> QED BY <2>1, <2>2
  <1> HIDE DEF n, L
  <1> QED BY <1>2, <1>3, <1>4

\* The executions of the plan are the pairs of a scenario and an index of it.
LEMMA InPlan ==
    /\ \A e \in AllExecutions :
          /\ e[1] \in 1 .. Len(Plan) /\ e[2] \in 1 .. Len(Executions(e[1]))
          /\ e = <<e[1], e[2]>>
    /\ \A s \in 1 .. Len(Plan) :
          /\ Executions(s) \in Seq(Nat) /\ Len(Executions(s)) \in Nat
          /\ \A i \in 1 .. Len(Executions(s)) : <<s, i>> \in AllExecutions
    /\ Len(Plan) \in Nat
  <1>1. Len(Plan) \in Nat /\ DOMAIN Plan = 1 .. Len(Plan)
    BY PlanShape
  <1>2. ASSUME NEW s \in 1 .. Len(Plan)
        PROVE  /\ Executions(s) \in Seq(Nat) /\ Len(Executions(s)) \in Nat
               /\ DOMAIN Executions(s) = 1 .. Len(Executions(s))
    <2>1. Executions(s) \in Seq(Nat)
      BY <1>1, Expanded
    <2> QED BY <2>1
  <1> QED BY <1>1, <1>2 DEF AllExecutions

-----------------------------------------------------------------------------
LEMMA InitIInv == Init => IInv
  <1> SUFFICES ASSUME Init PROVE IInv
    OBVIOUS
  <1> USE DEF Init
  <1>1. done = <<>> /\ DOMAIN done = {} /\ Reported = {} /\ Group = {}
    BY DEF Reported, Group
  <1>2. caller \in BOOLEAN /\ pass \in BOOLEAN
    BY Zenon
  <1>3. call \in [Group -> [Backends -> CallReturns \cup {Pending}]] /\ report \in [Group -> Reports]
    BY <1>1
  <1>4. done \in Seq([execution : AllExecutions, report : Reports])
    BY <1>1
  <1>5. TypeOK
    BY <1>2, <1>3, <1>4, InPlan DEF TypeOK
  <1>6. Cursor
    BY InPlan DEF Cursor
  <1>7. \A e \in AllExecutions : ~Past(e)
    BY InPlan DEF Past
  <1>8. Listed /\ Begun /\ Verdicts /\ EndsScenario /\ StageStoppedAsOne /\ PassIsEarned
    BY <1>1, <1>7 DEF Listed, Begun, Verdicts, EndsScenario, StageStoppedAsOne,
        PassIsEarned
  <1> QED BY <1>5, <1>6, <1>8 DEF IInv

\* A step that neither moves the cursor nor reports, starts or joins anything
\* keeps what is said of the reports.
LEMMA Quiet ==
    ASSUME IInv, UNCHANGED <<scenario, first, started, done, pass>>
    PROVE  Listed' /\ EndsScenario' /\ StageStoppedAsOne'
  <1>1. /\ UNCHANGED <<Reported, Executions(scenario)>>
        /\ \A e \in AllExecutions : Past(e)' <=> Past(e)
    BY DEF Reported, Past
  <1>2. Listed'
    BY <1>1 DEF IInv, Listed
  <1>3. EndsScenario'
    BY <1>1 DEF IInv, EndsScenario
  <1>4. StageStoppedAsOne'
    BY DEF IInv, StageStoppedAsOne
  <1> QED BY <1>2, <1>3, <1>4

\* If, besides, the group goes on or there is none, it keeps what is said of the
\* cursor and of what has started.
LEMMA QuietGroup ==
    ASSUME IInv, UNCHANGED <<scenario, first, upto, started, done, pass>>, Group' = Group,
           phase' = "running" => phase = "running",
           phase' = "returned" /\ err' = "none" =>
               scenario > Len(Plan) \/ (phase = "returned" /\ err = "none")
    PROVE  Cursor' /\ Begun'
  <1>1. \A e \in started : Past(e)' <=> Past(e)
    BY DEF Past
  <1>2. Begun'
    BY <1>1 DEF IInv, Begun
  <1>3. Cursor'
    BY DEF IInv, Cursor
  <1> QED BY <1>2, <1>3

\* The steps before the first group, after the last, and the caller's.
LEMMA OutsideIInv ==
    ASSUME IInv, Resolve \/ ResolveFails \/ CallerEnds \/ Finish
    PROVE  IInv'
  <1> USE DEF Resolve, ResolveFails, CallerEnds, Finish
  <1>1. /\ UNCHANGED <<scenario, first, upto, started, done, pass, call, report>>
        /\ phase' = "running" <=> phase = "running"
    OBVIOUS
  <1>2. Group' = Group
    BY <1>1 DEF Group
  <1>3. phase' = "returned" /\ err' = "none" =>
            scenario > Len(Plan) \/ (phase = "returned" /\ err = "none")
    OBVIOUS
  <1>4. Listed' /\ EndsScenario' /\ StageStoppedAsOne' /\ Cursor' /\ Begun'
    BY <1>1, <1>2, <1>3, Quiet, QuietGroup
  <1>5. caller' \in BOOLEAN /\ pass' \in BOOLEAN
    BY Zenon DEF IInv, TypeOK
  <1>6. TypeOK'
    BY <1>1, <1>2, <1>5 DEF IInv, TypeOK
  <1>7. cause = "cap" => cause' = "cap"
    OBVIOUS
  <1>8. Verdicts' /\ PassIsEarned'
    BY <1>1, <1>2, <1>7 DEF IInv, Verdicts, PassIsEarned
  <1> QED BY <1>4, <1>6, <1>8 DEF IInv

\* A backend's call returns; an execution is reported.
LEMMA RunningIInv ==
    ASSUME IInv, NEW k \in Group,
           DispatchFails(k) \/ JoinBackends(k) \/ \E b \in Backends : Return(k, b)
    PROVE  IInv'
  <1>1. UNCHANGED <<phase, scenario, first, upto, caller, started, done, pass, err>>
    BY DEF DispatchFails, JoinBackends, Return
  <1>2. Group' = Group
    BY <1>1 DEF Group
  <1>3. Listed' /\ EndsScenario' /\ StageStoppedAsOne' /\ Cursor' /\ Begun'
    BY <1>1, <1>2, Quiet, QuietGroup
  <1>4. /\ report \in [Group -> Reports] /\ report[k] = NoReport
        /\ call \in [Group -> [Backends -> CallReturns \cup {Pending}]]
    BY DEF IInv, TypeOK, DispatchFails, JoinBackends, Return, Unreported
  <1>5. SUFFICES /\ report' \in [Group -> Reports]
                 /\ call' \in [Group -> [Backends -> CallReturns \cup {Pending}]]
                 /\ cause' \in {"none", "caller", "cap"}
                 /\ Verdicts' /\ PassIsEarned'
    BY <1>1, <1>2, <1>3 DEF IInv, TypeOK
  <1>6. CASE DispatchFails(k)
    <2>1. /\ UNCHANGED <<call, cause>>
          /\ report' = [report EXCEPT ![k] = Unjudged("dispatch")]
      BY <1>6 DEF DispatchFails
    <2>2. Unjudged("dispatch") \in Reports
      BY DEF Unjudged, Reports, Errors
    <2>3. report' \in [Group -> Reports]
      BY <1>4, <2>1, <2>2
    <2>4. Verdicts' /\ PassIsEarned'
      BY <1>1, <1>2, <1>4, <2>1 DEF IInv, Verdicts, PassIsEarned, Sound, Unjudged
    <2> QED BY <1>4, <2>1, <2>3, <2>4 DEF IInv, TypeOK
  <1>7. CASE JoinBackends(k)
    <2>1. PICK r \in Judge(k) : report' = [report EXCEPT ![k] = r]
      BY <1>7, Zenon DEF JoinBackends
    <2>2. UNCHANGED <<call, cause>> /\ \A b \in Backends : call[k][b] # Pending
      BY <1>7 DEF JoinBackends
    <2>3. /\ r \in Reports /\ Sound(r) /\ r.error # "notRun"
          /\ r.error = "cap" => cause = "cap"
          /\ r.pass => \A b \in Backends : ~Failed(k, b)
      <3>1. CASE r = Unjudged("cap") /\ cause = "cap"
        BY <3>1 DEF Unjudged, Reports, Errors, Sound
      <3>2. CASE r = Unjudged("cancelled")
        BY <3>2 DEF Unjudged, Reports, Errors, Sound
      <3>3. CASE r = Unjudged("noResult")
        BY <3>3 DEF Unjudged, Reports, Errors, Sound
      <3>4. CASE r \in [error : {"none"}, judged : {TRUE},
                        pass : IF \E b \in Backends : Failed(k, b) THEN {FALSE} ELSE BOOLEAN]
        <4>1. r \in [error : {"none"}, judged : {TRUE}, pass : BOOLEAN]
          BY <3>4, Zenon
        <4>2. r.pass => \A b \in Backends : ~Failed(k, b)
          BY <3>4, Zenon
        <4> QED BY <4>1, <4>2, Zenon DEF Unjudged, Reports, Errors, Sound
      <3> QED BY <3>1, <3>2, <3>3, <3>4, Zenon DEF Judge
    <2>4. ASSUME NEW b \in Backends, ~Failed(k, b)
          PROVE  call[k][b] = [result |-> "ok", output |-> "full", outcome |-> "complete"]
      <3>1. call[k][b] \in CallReturns
        BY <1>4, <2>2
      <3>2. call[k][b].result = "ok" /\ call[k][b].output = "full"
        BY <2>4 DEF Failed
      <3>3. call[k][b].outcome = "complete"
        BY <3>1, <3>2 DEF CallReturns, MayReturn
      <3> QED BY <3>1, <3>2, <3>3, Zenon DEF CallReturns
    <2>5. report' \in [Group -> Reports]
      BY <1>4, <2>1, <2>3
    <2>6. Verdicts'
      BY <1>1, <1>2, <1>4, <2>1, <2>2, <2>3 DEF IInv, Verdicts
    <2>7. PassIsEarned'
      BY <1>2, <1>4, <2>1, <2>2, <2>3, <2>4 DEF IInv, PassIsEarned
    <2> QED BY <1>4, <2>2, <2>5, <2>6, <2>7 DEF IInv, TypeOK
  <1>8. CASE \E b \in Backends : Return(k, b)
    <2>1. PICK b \in Backends : Return(k, b)
      BY <1>8
    <2>2. PICK c \in CallReturns :
             /\ call' = [call EXCEPT ![k][b] = c]
             /\ cause' = IF c.result = "busy" /\ cause = "none" THEN "cap" ELSE cause
      BY <2>1, Zenon DEF Return
    <2>3. report' = report
      BY <2>1 DEF Return
    <2>4. call' \in [Group -> [Backends -> CallReturns \cup {Pending}]]
      BY <1>4, <2>2
    <2>5. \A m \in Group : m # k => call'[m] = call[m]
      BY <1>4, <2>2
    <2>6. cause = "cap" => cause' = "cap"
      BY <2>2
    <2>7. Verdicts'
      BY <1>1, <1>2, <2>3, <2>6 DEF IInv, Verdicts
    <2>8. PassIsEarned'
      BY <1>2, <1>4, <2>3, <2>5 DEF IInv, PassIsEarned, NoReport, Unjudged
    <2> QED BY <1>4, <2>2, <2>3, <2>4, <2>7, <2>8 DEF IInv, TypeOK
  <1> QED BY <1>6, <1>7, <1>8

\* The scenario is through: what was passed is the same.
LEMMA NextScenarioIInv ==
    ASSUME IInv, NextScenario
    PROVE  IInv'
  <1>1. /\ UNCHANGED <<phase, upto, caller, cause, call, report, started, done, pass, err>>
        /\ phase = "next" /\ scenario <= Len(Plan) /\ first > Len(Executions(scenario))
        /\ scenario' = scenario + 1 /\ first' = 1
    BY DEF NextScenario
  <1>2. scenario \in 1 .. Len(Plan) /\ Len(Executions(scenario)) \in Nat /\ first \in Nat
    BY <1>1, InPlan DEF IInv, TypeOK
  <1>3. Group = {} /\ Group' = {} /\ Reported' = Reported
    BY <1>1 DEF Group, Reported
  <1>4. \A e \in AllExecutions : Past(e)' <=> Past(e)
    <2>1. ASSUME NEW e \in AllExecutions
          PROVE  e[1] \in Nat /\ e[2] \in Nat /\ e[2] > 0 /\ (e[1] = scenario => e[2] < first)
      <3>1. e[1] \in 1 .. Len(Plan) /\ e[2] \in 1 .. Len(Executions(e[1])) /\ Len(Plan) \in Nat
        BY InPlan
      <3>2. Len(Executions(e[1])) \in Nat
        BY <3>1, InPlan
      <3> QED BY <1>1, <1>2, <3>1, <3>2
    <2>2. \A e \in AllExecutions : Past(e)' <=> e[1] < scenario + 1 \/ (e[1] = scenario + 1 /\ e[2] < 1)
      BY <1>1 DEF Past
    <2> QED BY <1>2, <2>1, <2>2 DEF Past
  <1>5. TypeOK'
    BY <1>1, <1>2, <1>3, InPlan DEF IInv, TypeOK
  <1>6. Cursor'
    BY <1>1, <1>2, InPlan DEF Cursor
  <1>7. Listed'
    BY <1>1, <1>3, <1>4 DEF IInv, Listed
  <1>8. Begun'
    BY <1>1, <1>3, <1>4 DEF IInv, TypeOK, Begun
  <1>9. EndsScenario'
    <2>1. ASSUME NEW i \in DOMAIN done PROVE done[i].execution[1] <= scenario
      <3>1. done[i].execution \in AllExecutions /\ Past(done[i].execution)
        BY DEF IInv, Listed, Reported
      <3>2. done[i].execution[1] \in Nat
        BY <3>1, InPlan
      <3> QED BY <1>2, <3>1, <3>2 DEF Past
    <2> QED BY <1>1, <1>2, <2>1 DEF EndsScenario
  <1>10. StageStoppedAsOne'
    <2>1. UNCHANGED <<started, done>>
      BY <1>1
    <2> QED BY ONLY <2>1, IInv DEF IInv, StageStoppedAsOne
  <1>11. Verdicts' /\ PassIsEarned'
    BY <1>1, <1>3 DEF IInv, Verdicts, PassIsEarned
  <1> QED BY <1>5, <1>6, <1>7, <1>8, <1>9, <1>10, <1>11 DEF IInv

\* A group starts: what it starts was not reported.
LEMMA StartGroupIInv ==
    ASSUME IInv, StartGroup
    PROVE  IInv'
  <1>1. PICK j \in first + 1 .. Len(Executions(scenario)) + 1 :
           /\ IsGroup(Executions(scenario), first, j)
           /\ upto' = j
           /\ call' = [k \in first .. j - 1 |-> [b \in Backends |-> Pending]]
           /\ report' = [k \in first .. j - 1 |-> NoReport]
           /\ started' = started \cup {<<scenario, k>> : k \in first .. j - 1}
    BY DEF StartGroup
  <1>2. /\ UNCHANGED <<scenario, first, caller, done, pass, err>>
        /\ phase = "next" /\ scenario <= Len(Plan) /\ phase' = "running"
        /\ cause' = IF caller THEN "caller" ELSE "none"
    BY DEF StartGroup
  <1>3. scenario \in 1 .. Len(Plan) /\ Len(Executions(scenario)) \in Nat /\ first \in Nat \ {0}
    BY <1>2, InPlan DEF IInv, TypeOK
  <1>4. Group = {} /\ Group' = first .. j - 1 /\ Reported' = Reported
    BY <1>1, <1>2 DEF Group, Reported
  <1>5. \A e : Past(e)' <=> Past(e)
    BY <1>2 DEF Past
  <1>6. \A i \in DOMAIN done : done[i].execution \in started' <=> done[i].execution \in started
    <2>1. \A i \in DOMAIN done : Past(done[i].execution)
      BY DEF IInv, Listed, Reported
    <2>2. \A k \in first .. j - 1 : ~Past(<<scenario, k>>)
      BY <1>3 DEF Past
    <2> QED BY <1>1, <2>1, <2>2
  <1>7. TypeOK'
    <2>1. NoReport \in Reports
      BY DEF NoReport, Unjudged, Reports, Errors
    <2>2. /\ call' \in [Group' -> [Backends -> CallReturns \cup {Pending}]]
          /\ report' \in [Group' -> Reports]
      BY <1>1, <1>4, <2>1
    <2>3. started' \subseteq AllExecutions
      <3>1. ASSUME NEW k \in first .. j - 1 PROVE <<scenario, k>> \in AllExecutions
        <4>1. k \in 1 .. Len(Executions(scenario))
          BY <1>3
        <4> QED BY <1>3, <4>1, InPlan
      <3> QED BY <1>1, <3>1 DEF IInv, TypeOK
    <2>4. upto' \in Nat \ {0}
      BY <1>1, <1>3
    <2> QED BY <1>2, <2>2, <2>3, <2>4 DEF IInv, TypeOK
  <1>8. Cursor'
    BY <1>1, <1>2, <1>3 DEF IInv, Cursor
  <1>9. Listed'
    BY <1>2, <1>4, <1>5 DEF IInv, Listed
  <1>10. Begun'
    <2>1. \A i \in DOMAIN done' : done'[i].execution \in started' <=> done'[i].report.error # "notRun"
      BY <1>2, <1>6 DEF IInv, Begun
    <2>2. \A k \in Group' : <<scenario', k>> \in started'
      BY <1>1, <1>2, <1>4
    <2>3. ASSUME NEW e \in started' PROVE Past(e)' \/ (e[1] = scenario' /\ e[2] \in Group')
      BY <1>1, <1>2, <1>4, <1>5 DEF IInv, Begun
    <2> QED BY <2>1, <2>2, <2>3 DEF Begun
  <1>11. EndsScenario'
    BY <1>2 DEF IInv, EndsScenario
  <1>12. StageStoppedAsOne'
    BY <1>2, <1>6 DEF IInv, StageStoppedAsOne
  <1>13. Verdicts' /\ PassIsEarned'
    BY <1>1, <1>2, <1>4, Zenon DEF IInv, Verdicts, PassIsEarned, Sound, NoReport, Unjudged
  <1> QED BY <1>7, <1>8, <1>9, <1>10, <1>11, <1>12, <1>13 DEF IInv

\* The elements of two sequences one after the other.
LEMMA Concatenated ==
    ASSUME NEW S, NEW q \in Seq(S), NEW r \in Seq(S)
    PROVE  /\ q \o r \in Seq(S) /\ Len(q \o r) = Len(q) + Len(r)
           /\ \A i \in 1 .. Len(q) : (q \o r)[i] = q[i]
           /\ \A i \in 1 .. Len(r) : (q \o r)[Len(q) + i] = r[i]
  OBVIOUS

\* What a running group is: executions of one stage, and all of it.
LEMMA GroupIsStage ==
    ASSUME IInv, phase = "running"
    PROVE  LET E == Executions(scenario) IN
           /\ scenario \in 1 .. Len(Plan) /\ Len(E) \in Nat
           /\ first \in 1 .. Len(E) /\ upto \in first + 1 .. Len(E) + 1
           /\ Group = first .. upto - 1
           /\ \A k, m \in Group : SameStage(<<scenario, k>>, <<scenario, m>>)
           /\ \A k \in Group, m \in (1 .. Len(E)) \ Group :
                 ~SameStage(<<scenario, k>>, <<scenario, m>>)
  <1> DEFINE E == Executions(scenario)
  <1>1. /\ scenario \in 1 .. Len(Plan) /\ Len(E) \in Nat
        /\ first \in 1 .. Len(E) /\ upto \in first + 1 .. Len(E) + 1
        /\ IsGroup(E, first, upto)
    <2>1. /\ scenario <= Len(Plan) /\ first < upto /\ upto <= Len(E) + 1
          /\ IsGroup(E, first, upto)
      BY DEF IInv, Cursor
    <2>2. scenario \in 1 .. Len(Plan) /\ first \in Nat \ {0} /\ upto \in Nat
      BY <2>1, InPlan DEF IInv, TypeOK
    <2>3. Len(E) \in Nat
      BY <2>2, InPlan
    <2> HIDE DEF E
    <2> QED BY <2>1, <2>2, <2>3
  <1>2. Group = first .. upto - 1
    BY DEF Group
  <1>3. /\ DOMAIN E = 1 .. Len(E)
        /\ \A a, b \in 1 .. Len(E) : E[a] \in Nat /\ (a <= b => E[a] <= E[b])
    <2>1. scenario \in DOMAIN Plan
      BY <1>1, PlanShape
    <2>2. E \in Seq(Nat) /\ \A a, b \in DOMAIN E : a <= b => E[a] <= E[b]
      BY <2>1, Expanded
    <2> QED BY <2>2
  <1>4. \A k \in Group : k \in 1 .. Len(E) /\ E[k] = E[first]
    BY <1>1, <1>2 DEF IsGroup
  <1>5. ASSUME NEW k \in Group, NEW m \in Group
        PROVE  SameStage(<<scenario, k>>, <<scenario, m>>)
    BY <1>1, <1>2, <1>4 DEF SameStage, IsGroup
  <1>6. ASSUME NEW k \in Group, NEW m \in (1 .. Len(E)) \ Group,
               SameStage(<<scenario, k>>, <<scenario, m>>)
        PROVE  FALSE
    <2>1. E[m] = E[first] /\ E[first] # Alone
      BY <1>4, <1>6 DEF SameStage
    <2>2. CASE m < first
      <3>1. first > 1 /\ E[first] # E[first - 1]
        BY <1>1, <2>1, <2>2 DEF IInv, Cursor
      <3>2. E[m] <= E[first - 1] /\ E[first - 1] <= E[first]
        BY <1>1, <1>3, <2>2
      <3> QED BY <1>1, <1>3, <2>1, <3>1, <3>2
    <2>3. CASE m >= upto
      <3>1. upto \in 1 .. Len(E) /\ E[upto] # E[first]
        BY <1>1, <2>1, <2>3 DEF IsGroup
      <3>2. E[first] <= E[upto] /\ E[upto] <= E[m]
        BY <1>1, <1>3, <2>3, <3>1
      <3> QED BY <1>1, <1>3, <2>1, <3>1, <3>2
    <2> QED BY <1>1, <1>2, <2>2, <2>3
  <1> QED BY <1>1, <1>2, <1>5, <1>6, Zenon

\* The reports of a group that is joined, and of what is not run after it.
LEMMA Joined ==
    ASSUME IInv, JoinGroup
    PROVE  /\ NextFirst \in upto .. Len(Executions(scenario)) + 1
           /\ cause # "cap" => NextFirst = upto
           /\ \A k \in first .. NextFirst - 1 :
                 /\ GroupReports[k] \in Reports /\ Sound(GroupReports[k])
                 /\ GroupReports[k].error = "notRun" <=> k >= upto
                 /\ GroupReports[k].error = "cap" <=> cause = "cap" /\ k < upto
                 /\ cause = "cap" /\ k < upto => GroupReports[k] = Unjudged("cap")
  <1>1. phase = "running"
    BY DEF JoinGroup
  <1>2. /\ Len(Executions(scenario)) \in Nat /\ first \in Nat
        /\ upto \in first + 1 .. Len(Executions(scenario)) + 1 /\ Group = first .. upto - 1
    BY <1>1, GroupIsStage
  <1>3. NextFirst \in upto .. Len(Executions(scenario)) + 1 /\ (cause # "cap" => NextFirst = upto)
    BY <1>2 DEF NextFirst
  <1>4. /\ report \in [Group -> Reports]
        /\ \A k \in Group :
              /\ Sound(report[k]) /\ report[k].error # "notRun"
              /\ report[k].error = "cap" => cause = "cap"
    BY DEF IInv, TypeOK, Verdicts
  <1>5. ASSUME NEW error \in Errors
        PROVE  Unjudged(error) \in Reports /\ Sound(Unjudged(error)) /\ Unjudged(error).error = error
    BY DEF Unjudged, Reports, Sound
  <1>6. "cap" \in Errors /\ "notRun" \in Errors
    BY DEF Errors
  <1>7. ASSUME NEW k \in first .. NextFirst - 1
        PROVE  /\ GroupReports[k] \in Reports /\ Sound(GroupReports[k])
               /\ GroupReports[k].error = "notRun" <=> k >= upto
               /\ GroupReports[k].error = "cap" <=> cause = "cap" /\ k < upto
               /\ cause = "cap" /\ k < upto => GroupReports[k] = Unjudged("cap")
    <2>1. CASE k < upto /\ cause = "cap"
      <3>1. k \in DOMAIN report
        BY <1>2, <1>4, <2>1
      <3>2. GroupReports[k] = Unjudged("cap")
        BY <2>1, <3>1 DEF GroupReports, StageReports
      <3> QED BY <1>2, <1>5, <1>6, <2>1, <3>2
    <2>2. CASE k < upto /\ cause # "cap"
      <3>1. k \in Group
        BY <1>2, <2>2
      <3>2. GroupReports[k] = report[k]
        BY <1>4, <2>2, <3>1 DEF GroupReports, StageReports
      <3>3. ~(k >= upto)
        BY <1>2, <1>3, <2>2
      <3>4. report[k] \in Reports
        BY <1>4, <3>1
      <3>5. Sound(report[k]) /\ report[k].error # "notRun" /\ report[k].error # "cap"
        BY <1>4, <2>2, <3>1, Zenon
      <3> QED BY <2>2, <3>2, <3>3, <3>4, <3>5
    <2>3. CASE k >= upto
      <3>1. ~(k < upto) /\ GroupReports[k] = Unjudged("notRun")
        BY <1>2, <2>3 DEF GroupReports
      <3> QED BY <1>5, <1>6, <2>3, <3>1
    <2> QED BY <1>2, <2>1, <2>2, <2>3
  <1> QED BY <1>3, <1>7

\* The elements of the report after a group is joined.
LEMMA JoinedDone ==
    ASSUME IInv, JoinGroup
    PROVE  /\ done' \in Seq([execution : AllExecutions, report : Reports])
           /\ Len(done) \in Nat /\ Len(done') = Len(done) + NextFirst - first
           /\ \A i \in 1 .. Len(done) : done'[i] = done[i]
           /\ \A k \in first .. NextFirst - 1 :
                 done'[Len(done) + (k - first + 1)] = Entry(<<scenario, k>>, GroupReports[k])
  <1> DEFINE S == [execution : AllExecutions, report : Reports]
             n == NextFirst - first
             new == [i \in 1 .. n |-> Entry(<<scenario, first + i - 1>>, GroupReports[first + i - 1])]
  <1>1. phase = "running" /\ done' = done \o new
    BY DEF JoinGroup
  <1>2. /\ scenario \in 1 .. Len(Plan) /\ Len(Executions(scenario)) \in Nat
        /\ first \in 1 .. Len(Executions(scenario))
        /\ upto \in first + 1 .. Len(Executions(scenario)) + 1
    BY <1>1, GroupIsStage
  <1>3. /\ NextFirst \in upto .. Len(Executions(scenario)) + 1
        /\ \A k \in first .. NextFirst - 1 : GroupReports[k] \in Reports
    BY Joined
  <1>4. n \in Nat /\ \A i \in 1 .. n : first + i - 1 \in first .. NextFirst - 1
    BY <1>2, <1>3
  <1>5. ASSUME NEW k \in first .. NextFirst - 1 PROVE Entry(<<scenario, k>>, GroupReports[k]) \in S
    <2>1. k \in 1 .. Len(Executions(scenario))
      BY <1>2, <1>3
    <2>2. <<scenario, k>> \in AllExecutions
      BY <1>2, <2>1, InPlan
    <2> QED BY <1>3, <2>2 DEF Entry
  <1>6. new \in Seq(S) /\ Len(new) = n
    <2>1. \A i \in 1 .. n : Entry(<<scenario, first + i - 1>>, GroupReports[first + i - 1]) \in S
      BY <1>4, <1>5
    <2> HIDE DEF S, n
    <2> QED BY <1>4, <2>1
  <1>7. done \in Seq(S)
    BY DEF IInv, TypeOK
  <1>8. ASSUME NEW k \in first .. NextFirst - 1
        PROVE  /\ k - first + 1 \in 1 .. n
               /\ new[k - first + 1] = Entry(<<scenario, k>>, GroupReports[k])
    <2>1. k - first + 1 \in 1 .. n /\ first + (k - first + 1) - 1 = k
      BY <1>2, <1>3
    <2> HIDE DEF n
    <2> QED BY <2>1
  <1> HIDE DEF new, S
  <1>9. /\ done \o new \in Seq(S) /\ Len(done \o new) = Len(done) + Len(new)
        /\ \A i \in 1 .. Len(done) : (done \o new)[i] = done[i]
        /\ \A i \in 1 .. Len(new) : (done \o new)[Len(done) + i] = new[i]
    <2>1. ASSUME NEW q \in Seq(S), NEW r \in Seq(S)
          PROVE  /\ q \o r \in Seq(S) /\ Len(q \o r) = Len(q) + Len(r)
                 /\ \A i \in 1 .. Len(q) : (q \o r)[i] = q[i]
                 /\ \A i \in 1 .. Len(r) : (q \o r)[Len(q) + i] = r[i]
      BY Concatenated
    <2> QED BY <1>6, <1>7, <2>1, Zenon
  <1>10. Len(done) \in Nat
    BY <1>7
  <1>11. Len(done') = Len(done) + NextFirst - first
    BY <1>1, <1>2, <1>3, <1>6, <1>9, <1>10
  <1> HIDE DEF n
  <1>12. \A k \in first .. NextFirst - 1 :
            done'[Len(done) + (k - first + 1)] = Entry(<<scenario, k>>, GroupReports[k])
    BY <1>1, <1>6, <1>8, <1>9
  <1> QED BY <1>1, <1>9, <1>10, <1>11, <1>12, Zenon DEF S

\* The reports after a group is joined are those before it, and then the group's and
\* those of what is not run, in the order of their executions.
LEMMA OldOrNew ==
    ASSUME IInv, JoinGroup, NEW i \in DOMAIN done'
    PROVE  \/ i \in DOMAIN done /\ i <= Len(done) /\ done'[i] = done[i]
           \/ \E k \in first .. NextFirst - 1 :
                 i = Len(done) + (k - first + 1) /\ done'[i] = Entry(<<scenario, k>>, GroupReports[k])
  <1>1. /\ done' \in Seq([execution : AllExecutions, report : Reports])
        /\ Len(done) \in Nat /\ Len(done') = Len(done) + NextFirst - first
        /\ \A m \in 1 .. Len(done) : done'[m] = done[m]
        /\ \A k \in first .. NextFirst - 1 :
              done'[Len(done) + (k - first + 1)] = Entry(<<scenario, k>>, GroupReports[k])
    BY JoinedDone
  <1>2. first \in Nat /\ NextFirst \in Nat
    <2>1. phase = "running"
      BY DEF JoinGroup
    <2>2. Len(Executions(scenario)) \in Nat /\ first \in Nat /\ upto \in Nat
      BY <2>1, GroupIsStage
    <2> QED BY <2>2, Joined
  <1>3. i \in 1 .. Len(done') /\ DOMAIN done = 1 .. Len(done)
    BY <1>1 DEF IInv, TypeOK
  <1>4. CASE i <= Len(done)
    BY <1>1, <1>3, <1>4
  <1>5. CASE i > Len(done)
    <2> DEFINE k == i - Len(done) + first - 1
    <2>1. k \in first .. NextFirst - 1 /\ i = Len(done) + (k - first + 1)
      BY <1>1, <1>2, <1>3, <1>5
    <2> QED BY <1>1, <2>1
  <1> QED BY <1>1, <1>3, <1>4, <1>5

\* A group is joined: the cursor passes it and, after a refusal at the cap, the rest
\* of its scenario.
LEMMA JoinGroupIInv ==
    ASSUME IInv, JoinGroup
    PROVE  IInv'
  <1> DEFINE E == Executions(scenario)
             N == NextFirst
             At(k) == <<scenario, k>>
  <1>1. /\ phase = "running" /\ first' = N /\ phase' \in {"next", "returned"}
        /\ phase' = "returned" => err' = "cancelled"
        /\ err' \in {"none", "cancelled"} /\ cause' = "none" /\ call' = <<>> /\ report' = <<>>
        /\ UNCHANGED <<scenario, upto, caller, started>>
    BY DEF JoinGroup
  <1>2. /\ scenario \in 1 .. Len(Plan) /\ Len(E) \in Nat /\ first \in 1 .. Len(E)
        /\ upto \in first + 1 .. Len(E) + 1 /\ N \in upto .. Len(E) + 1
        /\ Group = first .. upto - 1
    BY <1>1, GroupIsStage, Joined
  <1>20. /\ \A k, m \in Group : SameStage(At(k), At(m))
         /\ \A k \in Group, m \in (1 .. Len(E)) \ Group : ~SameStage(At(k), At(m))
    BY <1>1, GroupIsStage
  <1>3. \A k \in first .. N - 1 :
           /\ GroupReports[k] \in Reports /\ Sound(GroupReports[k])
           /\ GroupReports[k].error = "notRun" <=> k >= upto
           /\ GroupReports[k].error = "cap" <=> cause = "cap" /\ k < upto
           /\ cause = "cap" /\ k < upto => GroupReports[k] = Unjudged("cap")
    BY Joined
  <1>4. /\ done' \in Seq([execution : AllExecutions, report : Reports])
        /\ Len(done) \in Nat /\ Len(done') = Len(done) + N - first
        /\ \A i \in 1 .. Len(done) : done'[i] = done[i]
        /\ \A k \in first .. N - 1 :
              done'[Len(done) + (k - first + 1)] = Entry(At(k), GroupReports[k])
    BY JoinedDone
  <1>5. /\ DOMAIN done = 1 .. Len(done) /\ DOMAIN done' = 1 .. Len(done')
        /\ \A i \in DOMAIN done :
              done[i].execution \in AllExecutions /\ Past(done[i].execution)
        /\ \A k \in first .. N - 1 : Len(done) + (k - first + 1) \in DOMAIN done'
    <2>1. DOMAIN done = 1 .. Len(done) /\ DOMAIN done' = 1 .. Len(done')
      BY <1>4 DEF IInv, TypeOK
    <2>2. \A i \in DOMAIN done : done[i].execution \in AllExecutions /\ Past(done[i].execution)
      BY DEF IInv, Listed, Reported
    <2>3. \A k \in first .. N - 1 : Len(done) + (k - first + 1) \in DOMAIN done'
      <3>1. ASSUME NEW k \in first .. N - 1
            PROVE  Len(done) + (k - first + 1) \in 1 .. Len(done) + N - first
        BY <1>2, <1>4
      <3> QED BY <1>4, <2>1, <3>1
    <2> QED BY <2>1, <2>2, <2>3
  <1> DEFINE Old(i) == i \in DOMAIN done /\ i <= Len(done) /\ done'[i] = done[i]
             New(i, k) == /\ k \in first .. N - 1 /\ i = Len(done) + (k - first + 1)
                          /\ done'[i].execution = At(k) /\ done'[i].report = GroupReports[k]
  <1>6. ASSUME NEW i \in DOMAIN done' PROVE Old(i) \/ \E k \in first .. N - 1 : New(i, k)
    BY OldOrNew DEF Entry
  <1>7. \A k \in first .. N - 1 : At(k) \in AllExecutions /\ ~Past(At(k)) /\ At(k)[1] = scenario
    <2>1. \A k \in first .. N - 1 : k \in 1 .. Len(E)
      BY <1>2
    <2>2. \A k \in first .. N - 1 : At(k) \in AllExecutions
      BY <1>2, <2>1, InPlan
    <2> QED BY <1>2, <2>2 DEF Past
  <1>8. \A e \in AllExecutions : Past(e)' <=> Past(e) \/ \E k \in first .. N - 1 : e = At(k)
    <2>1. ASSUME NEW e \in AllExecutions
          PROVE  Past(e)' <=> Past(e) \/ \E k \in first .. N - 1 : e = At(k)
      <3>1. e[1] \in Nat /\ e[2] \in Nat /\ e = <<e[1], e[2]>>
        BY InPlan
      <3>2. Past(e)' <=> e[1] < scenario \/ (e[1] = scenario /\ e[2] < N)
        BY <1>1 DEF Past
      <3>3. CASE e[1] = scenario /\ e[2] >= first /\ e[2] < N
        <4>1. e[2] \in first .. N - 1 /\ e = At(e[2])
          BY <1>2, <3>1, <3>3
        <4> QED BY <3>2, <3>3, <4>1
      <3>4. CASE ~(e[1] = scenario /\ e[2] >= first /\ e[2] < N)
        <4>1. \A k \in first .. N - 1 : e # At(k)
          BY <1>2, <3>4
        <4>2. Past(e)' <=> Past(e)
          BY <1>2, <3>1, <3>2, <3>4 DEF Past
        <4> QED BY <4>1, <4>2
      <3> QED BY <3>3, <3>4
    <2> QED BY <2>1
  <1>9. Group' = {}
    BY <1>1 DEF Group
  <1>10. TypeOK'
    <2>1. pass' \in BOOLEAN
      <3>1. pass' = (pass /\ AllPass(GroupReports))
        BY DEF JoinGroup
      <3> QED BY <3>1, Zenon
    <2>2. call' \in [Group' -> [Backends -> CallReturns \cup {Pending}]] /\ report' \in [Group' -> Reports]
      BY <1>1, <1>9
    <2>3. first' \in Nat \ {0}
      BY <1>1, <1>2
    <2> QED BY <1>1, <1>4, <2>1, <2>2, <2>3 DEF IInv, TypeOK
  <1>11. Cursor'
    <2>1. N <= Len(E) => E[N] = Alone \/ E[N] # E[N - 1]
      <3>1. SUFFICES ASSUME N <= Len(E), E[N] # Alone PROVE E[N] # E[N - 1]
        OBVIOUS
      <3>2. N = upto /\ IsGroup(E, first, upto)
        BY <1>1, <1>2, <3>1 DEF NextFirst, IInv, Cursor
      <3>3. E[upto - 1] = E[first] /\ (E[first] # Alone => E[upto] # E[first])
        BY <1>2, <3>1, <3>2 DEF IsGroup
      <3> QED BY <3>1, <3>2, <3>3
    <2>2. N <= Len(E) + 1
      BY <1>2
    <2> QED BY <1>1, <2>1, <2>2 DEF Cursor
  <1>12. Listed'
    <2>1. Reported' = {e \in AllExecutions : Past(e)'}
      <3>1. ASSUME NEW e \in Reported' PROVE e \in AllExecutions /\ Past(e)'
        <4>1. PICK i \in DOMAIN done' : e = done'[i].execution
          BY DEF Reported
        <4> QED BY <1>5, <1>6, <1>7, <1>8, <4>1, Zenon
      <3>2. ASSUME NEW e \in AllExecutions, Past(e)' PROVE e \in Reported'
        <4>1. CASE Past(e)
          <5>1. PICK i \in DOMAIN done : e = done[i].execution
            BY <4>1 DEF IInv, Listed, Reported
          <5>2. i \in DOMAIN done' /\ done'[i] = done[i]
            <6>1. i \in 1 .. Len(done) /\ DOMAIN done' = 1 .. Len(done')
              BY <1>5, Zenon
            <6>2. Len(done) \in Nat /\ Len(done') \in Nat /\ Len(done) <= Len(done')
              BY <1>2, <1>4
            <6>3. i \in 1 .. Len(done')
              BY ONLY <6>1, <6>2
            <6> QED BY <1>4, <6>1, <6>3, Zenon
          <5> QED BY <5>1, <5>2 DEF Reported
        <4>2. CASE \E k \in first .. N - 1 : e = At(k)
          <5>1. PICK k \in first .. N - 1 : e = At(k)
            BY <4>2
          <5>2. done'[Len(done) + (k - first + 1)].execution = e
            <6>1. done'[Len(done) + (k - first + 1)] = Entry(At(k), GroupReports[k])
              BY <1>4
            <6>2. Entry(At(k), GroupReports[k]).execution = At(k)
              BY DEF Entry
            <6> QED BY ONLY <5>1, <6>1, <6>2
          <5> QED BY <1>5, <5>2 DEF Reported
        <4> QED BY <1>8, <3>2, <4>1, <4>2
      <3> QED BY <3>1, <3>2
    <2>2. ASSUME NEW i \in DOMAIN done', NEW j \in DOMAIN done', i < j
          PROVE  Before(done'[i].execution, done'[j].execution)
      <3>1. CASE Old(i) /\ Old(j)
        BY <2>2, <3>1 DEF IInv, Listed
      <3>2. ASSUME NEW k \in first .. N - 1, Old(i), New(j, k) PROVE Before(done'[i].execution, done'[j].execution)
        <4>1. Past(done[i].execution) /\ done[i].execution \in AllExecutions
          BY <1>5, <3>2, Zenon
        <4>2. done[i].execution[1] \in Nat /\ done[i].execution[2] \in Nat
          BY <4>1, InPlan
        <4>3. /\ done'[i].execution = done[i].execution
              /\ done'[j].execution[1] = scenario /\ done'[j].execution[2] = k
          BY <3>2
        <4>4. k >= first /\ k \in Int /\ first \in Int
          BY <1>2
        <4> QED BY ONLY <4>1, <4>2, <4>3, <4>4 DEF Past, Before
      <3>3. ASSUME NEW k \in first .. N - 1, New(i, k), Old(j) PROVE FALSE
        <4>1. /\ i = Len(done) + (k - first + 1) /\ j <= Len(done) /\ i < j
              /\ j \in Int
          BY <1>5, <2>2, <3>3
        <4>2. k >= first /\ k \in Int /\ first \in Int /\ Len(done) \in Int
          BY <1>2, <1>4
        <4> QED BY ONLY <4>1, <4>2
      <3>4. ASSUME NEW k \in first .. N - 1, NEW m \in first .. N - 1, New(i, k), New(j, m)
            PROVE  Before(done'[i].execution, done'[j].execution)
        <4>1. k < m
          <5>1. i = Len(done) + (k - first + 1) /\ j = Len(done) + (m - first + 1) /\ i < j
            BY <2>2, <3>4
          <5>2. k \in Int /\ m \in Int /\ first \in Int /\ Len(done) \in Int
            BY <1>2, <1>4
          <5> QED BY ONLY <5>1, <5>2
        <4> QED BY <3>4, <4>1 DEF Before
      <3> QED BY <1>6, <3>1, <3>2, <3>3, <3>4, Zenon
    <2> QED BY <2>1, <2>2 DEF Listed
  <1>13. Begun'
    <2>1. ASSUME NEW i \in DOMAIN done'
          PROVE  done'[i].execution \in started <=> done'[i].report.error # "notRun"
      <3>1. CASE Old(i)
        BY <3>1 DEF IInv, Begun
      <3>2. ASSUME NEW k \in first .. N - 1, New(i, k)
            PROVE  done'[i].execution \in started <=> done'[i].report.error # "notRun"
        <4>1. k < upto => At(k) \in started
          BY <1>2 DEF IInv, Begun
        <4>2. k >= upto => At(k) \notin started
          BY <1>2, <1>7 DEF IInv, Begun
        <4>3. k \in Int /\ upto \in Int
          BY <1>2
        <4> QED BY <1>3, <3>2, <4>1, <4>2, <4>3
      <3> QED BY <1>6, <3>1, <3>2
    <2>2. ASSUME NEW e \in started PROVE Past(e)'
      <3>1. e \in AllExecutions
        BY DEF IInv, TypeOK
      <3>2. e[2] \in Nat /\ e = <<e[1], e[2]>>
        BY <3>1, InPlan
      <3>3. CASE Past(e)
        BY <1>8, <3>1, <3>3
      <3>4. CASE e[1] = scenario /\ e[2] \in Group
        <4>1. e[2] \in first .. N - 1 /\ e = At(e[2])
          BY <1>2, <3>2, <3>4
        <4> QED BY <1>8, <3>1, <4>1
      <3> QED BY <3>3, <3>4 DEF IInv, Begun
    <2> QED BY <1>1, <1>9, <2>1, <2>2 DEF Begun
  <1>14. Verdicts'
    <2>1. pass' => pass /\ \A k \in first .. N - 1 : GroupReports[k].pass
      <3>1. DOMAIN GroupReports = first .. N - 1
        BY DEF GroupReports
      <3> QED BY <3>1, Zenon DEF JoinGroup, AllPass
    <2>2. ASSUME NEW i \in DOMAIN done'
          PROVE  Sound(done'[i].report) /\ (pass' => done'[i].report.pass)
      <3>1. CASE Old(i)
        BY <2>1, <3>1, Zenon DEF IInv, Verdicts
      <3>2. ASSUME NEW k \in first .. N - 1, New(i, k)
            PROVE  Sound(done'[i].report) /\ (pass' => done'[i].report.pass)
        BY <1>3, <2>1, <3>2
      <3> QED BY <1>6, <3>1, <3>2, Zenon
    <2> QED BY <1>9, <2>2 DEF Verdicts
  <1>15. \A i \in DOMAIN done : done[i].report.error = "cap" => done[i].execution[1] # scenario
    BY <1>2 DEF IInv, EndsScenario
  <1>16. EndsScenario'
    <2>1. ASSUME NEW i \in DOMAIN done', done'[i].report.error = "cap",
                 done'[i].execution[1] = scenario
          PROVE  N > Len(E)
      <3>1. PICK k \in first .. N - 1 : New(i, k)
        BY <1>6, <1>15, <2>1
      <3>2. cause = "cap"
        BY <1>3, <2>1, <3>1
      <3> QED BY <1>2, <3>2 DEF NextFirst
    <2> QED BY <1>1, <2>1 DEF EndsScenario
  <1>17. StageStoppedAsOne'
    <2> DEFINE Stopped(e, f, r, set) ==
                 IF SameStage(e, f) THEN r = Unjudged("cap")
                 ELSE Before(e, f) => r.error = "notRun" /\ f \notin set
    <2>1. ASSUME NEW i \in DOMAIN done', NEW j \in DOMAIN done', done'[i].report.error = "cap",
                 done'[i].execution[1] = done'[j].execution[1]
          PROVE  Stopped(done'[i].execution, done'[j].execution, done'[j].report, started)
      <3>1. CASE Old(i) /\ Old(j)
        BY <2>1, <3>1, Zenon DEF IInv, StageStoppedAsOne
      <3>2. ASSUME NEW m \in first .. N - 1, Old(i), New(j, m) PROVE FALSE
        BY <1>7, <1>15, <2>1, <3>2, Zenon
      <3>3. ASSUME NEW k \in first .. N - 1, New(i, k), Old(j)
            PROVE  Stopped(done'[i].execution, done'[j].execution, done'[j].report, started)
        <4>1. PICK f \in AllExecutions : f = done[j].execution /\ Past(f)
          BY <1>5, <3>3
        <4>2. f[1] = scenario /\ f[2] \in 1 .. Len(E) /\ f = At(f[2])
          <5>1. f[1] = scenario
            BY <2>1, <3>3, <4>1
          <5>2. f[2] \in 1 .. Len(Executions(f[1])) /\ f = <<f[1], f[2]>>
            BY InPlan
          <5> QED BY <5>1, <5>2
        <4>3. f[2] < first /\ f[2] \in Nat
          <5>1. scenario \in Nat /\ first \in Nat /\ f[2] \in Nat
            BY <1>2, <4>2
          <5> QED BY <4>1, <4>2, <5>1 DEF Past
        <4>4. k \in Group
          BY <1>2, <1>3, <2>1, <3>3
        <4>5. f[2] \notin Group
          BY <1>2, <4>3
        <4>6. ~SameStage(At(k), f)
          BY <1>20, <4>2, <4>4, <4>5
        <4>7. ~Before(At(k), f)
          <5>1. k \in Int /\ first \in Int /\ k >= first
            BY <1>2, <4>4
          <5>2. At(k)[1] = scenario /\ At(k)[2] = k /\ scenario \in Int
            BY <1>2
          <5> QED BY <4>2, <4>3, <5>1, <5>2 DEF Before
        <4>8. done'[i].execution = At(k) /\ done'[j].execution = f
          BY <3>3, <4>1
        <4> QED BY <4>6, <4>7, <4>8, Zenon
      <3>4. ASSUME NEW k \in first .. N - 1, NEW m \in first .. N - 1, New(i, k), New(j, m)
            PROVE  Stopped(done'[i].execution, done'[j].execution, done'[j].report, started)
        <4>1. cause = "cap" /\ k < upto /\ k \in Group
          <5>1. GroupReports[k].error = "cap"
            BY <2>1, <3>4
          <5>2. cause = "cap" /\ k < upto
            BY <1>3, <5>1
          <5> QED BY <1>2, <5>2
        <4>2. done'[i].execution = At(k) /\ done'[j].execution = At(m) /\ done'[j].report = GroupReports[m]
          BY <3>4
        <4>3. CASE m < upto
          <5>1. m \in Group /\ GroupReports[m] = Unjudged("cap")
            BY <1>2, <1>3, <4>1, <4>3
          <5>2. SameStage(At(k), At(m))
            BY <1>20, <4>1, <5>1
          <5> QED BY <4>2, <5>1, <5>2
        <4>4. CASE m >= upto
          <5>1. m \in (1 .. Len(E)) \ Group
            BY <1>2, <4>4
          <5>2. ~SameStage(At(k), At(m))
            BY <1>20, <4>1, <5>1
          <5>3. GroupReports[m].error = "notRun"
            BY <1>3, <4>4
          <5>4. At(m) \notin started
            BY <1>1, <1>13, <4>2, <5>3 DEF Begun
          <5> QED BY <4>2, <5>2, <5>3, <5>4
        <4>5. m < upto \/ m >= upto
          <5>1. m \in Int /\ upto \in Int
            BY <1>2
          <5> QED BY <5>1
        <4> QED BY <4>3, <4>4, <4>5, Zenon
      <3> QED BY <1>6, <3>1, <3>2, <3>3, <3>4, Zenon
    <2> QED BY <1>1, <2>1, Zenon DEF StageStoppedAsOne
  <1>18. PassIsEarned'
    BY <1>9 DEF PassIsEarned
  <1> QED BY <1>10, <1>11, <1>12, <1>13, <1>14, <1>16, <1>17, <1>18 DEF IInv

-----------------------------------------------------------------------------
\* The inductive invariant holds of every reachable state, whatever the plan and
\* the pool.
THEOREM Invariance == Spec => []IInv
  <1>1. IInv /\ [Next]_vars => IInv'
    <2> SUFFICES ASSUME IInv, [Next]_vars PROVE IInv'
      OBVIOUS
    <2>1. CASE UNCHANGED vars
      <3>1. /\ UNCHANGED <<scenario, first, upto, started, done, pass, call, report>>
            /\ UNCHANGED <<phase, caller, cause, err>>
        BY <2>1 DEF vars
      <3>2. Group' = Group
        BY <3>1 DEF Group
      <3>3. Listed' /\ EndsScenario' /\ StageStoppedAsOne' /\ Cursor' /\ Begun'
        BY <3>1, <3>2, Quiet, QuietGroup
      <3>4. TypeOK' /\ Verdicts' /\ PassIsEarned'
        BY <3>1, <3>2, Zenon DEF IInv, TypeOK, Verdicts, PassIsEarned
      <3> QED BY <3>3, <3>4 DEF IInv
    <2> QED
      BY <2>1, OutsideIInv, RunningIInv, NextScenarioIInv, StartGroupIInv,
          JoinGroupIInv DEF Next
  <1> QED BY <1>1, InitIInv, PTL DEF Spec

\* Run's reports are the plan's executions in order with none left out, and a refusal
\* at the cap stops its stage as one and what comes after it.
THEOREM StagesInStepHolds == Spec => []StagesInStep
  <1>1. IInv => StagesInStep
    <2> SUFFICES ASSUME IInv PROVE ReportsInPlanOrder
      BY DEF IInv, StagesInStep
    <2>1. ASSUME NEW e \in AllExecutions, NEW f \in Reported, Before(e, f) PROVE Past(e)
      <3>1. f \in AllExecutions /\ Past(f)
        BY DEF IInv, Listed
      <3>2. /\ e[1] \in Nat /\ e[2] \in Nat /\ f[1] \in Nat /\ f[2] \in Nat
            /\ scenario \in Nat /\ first \in Nat
        <4>1. \A x \in AllExecutions : x[1] \in Nat /\ x[2] \in Nat
          BY InPlan
        <4>2. scenario \in Nat /\ first \in Nat
          BY InPlan DEF IInv, TypeOK
        <4> QED BY <3>1, <4>1, <4>2
      <3> QED BY <2>1, <3>1, <3>2 DEF Before, Past
    <2> QED BY <2>1 DEF IInv, Listed, ReportsInPlanOrder
  <1> QED BY <1>1, Invariance, PTL

\* An execution that passes was run to its end by every backend, and a plan that passes
\* started, ran and passed every execution.
THEOREM PassIsRealHolds == Spec => []PassIsReal
  <1>1. IInv => PassIsReal
    <2> SUFFICES ASSUME IInv, phase = "returned", err = "none", pass
                 PROVE  /\ Reported = AllExecutions /\ started = AllExecutions
                        /\ \A i \in DOMAIN done : done[i].report.judged /\ done[i].report.pass
      BY DEF IInv, PassIsReal, PassMeansAllRan
    <2>1. scenario > Len(Plan) /\ scenario \in Nat
      BY InPlan DEF IInv, TypeOK, Cursor
    <2>2. \A e \in AllExecutions : Past(e)
      BY <2>1, InPlan DEF Past
    <2>3. Reported = AllExecutions
      BY <2>2 DEF IInv, Listed
    <2>4. \A i \in DOMAIN done :
             done[i].report.judged /\ done[i].report.pass /\ done[i].report.error = "none"
      BY DEF IInv, Verdicts, Sound
    <2>5. \A e \in AllExecutions : e \in started
      BY <2>3, <2>4 DEF Reported, IInv, Begun
    <2>6. started \subseteq AllExecutions
      BY DEF IInv, TypeOK
    <2> QED BY <2>3, <2>4, <2>5, <2>6
  <1> QED BY <1>1, Invariance, PTL
=============================================================================
