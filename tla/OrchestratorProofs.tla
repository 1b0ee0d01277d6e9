------------------------- MODULE OrchestratorProofs -------------------------
(***************************************************************************)
(* Proofs about the orchestrator's parts, for every pool, number of        *)
(* answers and records, rate and duration. The distributor's stream and    *)
(* the arithmetic of the plan's compilation are proved about here; the     *)
(* results file and the call have their proofs in modules of their own,    *)
(* which are instantiated here and cited for the parts.                    *)
(***************************************************************************)
EXTENDS MCOrchestrator, TLAPS

\* What a sequence is after one more element.
LEMMA Appended ==
    ASSUME NEW S, NEW q \in Seq(S), NEW x \in S
    PROVE  /\ Append(q, x) \in Seq(S) /\ Len(q) \in Nat /\ Len(Append(q, x)) = Len(q) + 1
           /\ DOMAIN Append(q, x) = DOMAIN q \cup {Len(q) + 1} /\ Len(q) + 1 \notin DOMAIN q
           /\ Append(q, x)[Len(q) + 1] = x
           /\ \A k \in DOMAIN q : Append(q, x)[k] = q[k]
  OBVIOUS

(***************************************************************************)
(* The distributor                                                         *)
(***************************************************************************)
WithOutput(k) == answered[k].kind \in {"output", "output and error"}

\* What is to be judged was answered, and two of it by two answers.
NamesAnswered ==
    /\ \A i \in DOMAIN names : \E k \in DOMAIN answered : answered[k].name = names[i]
    /\ \A i, j \in DOMAIN names : i # j =>
          \E k, l \in DOMAIN answered :
             k # l /\ answered[k].name = names[i] /\ answered[l].name = names[j]

\* Every answer so far is to be judged, or its target has failed.
AnswersKept ==
    \A k \in DOMAIN answered :
        /\ WithOutput(k) => Dist!Has(answered[k].name, names)
        /\ ~WithOutput(k) => Dist!HasFailed(answered[k].name)

\* The inductive invariant. What the stream's end decides is only known from there on; before
\* it, what matters is how what is to be returned comes from the answers.
DistInv ==
    /\ Dist!TypeOK
    /\ NamesAnswered
    /\ state = "sending" => answered = <<>>
    /\ state \in {"sending", "receiving"} => AnswersKept
    /\ Dist!EveryTargetAccounted
    /\ Dist!OthersKept

\* Nothing has been heard.
LEMMA DistInit == Dist!Init => DistInv
  <1> SUFFICES ASSUME Dist!Init PROVE DistInv
    OBVIOUS
  <1>1. /\ targets \in Pools /\ state = "sending" /\ answered = <<>> /\ names = <<>> /\ failed = {}
        /\ DOMAIN answered = {} /\ DOMAIN names = {}
    BY DEF Dist!Init
  <1>2. broken \in BOOLEAN
    BY Zenon DEF Dist!Init
  <1>3. answered \in Seq(Dist!Answers) /\ names \in Seq(Dist!Names) /\ Len(answered) <= MaxAnswers
    BY <1>1, PoolsOfNames
  <1>4. Dist!TypeOK
    BY <1>1, <1>2, <1>3 DEF Dist!TypeOK
  <1>5. NamesAnswered /\ AnswersKept
    BY <1>1 DEF NamesAnswered, AnswersKept
  <1>6. Dist!EveryTargetAccounted /\ Dist!OthersKept
    BY <1>1 DEF Dist!EveryTargetAccounted, Dist!OthersKept
  <1> QED BY <1>1, <1>4, <1>5, <1>6 DEF DistInv

\* An answer with nothing to judge is a failure, and no answer is passed over.
LEMMA FailureOrOutput ==
    \A kind \in Dist!Kinds : kind \in {"output", "output and error"} \/ Dist!FailureOf(kind) # {}
  BY Zenon DEF Dist!Kinds, Dist!FailureOf

\* A failure has one of the reasons.
LEMMA FailureReason == \A kind \in Dist!Kinds : Dist!FailureOf(kind) \subseteq Dist!Reasons
  BY Zenon DEF Dist!Kinds, Dist!FailureOf, Dist!Reasons

\* An answer is kept: what there is to judge of it, or its target's failure.
LEMMA RecvKeeps ==
    ASSUME DistInv, NEW a \in Dist!Answers, Dist!Recv(a)
    PROVE  DistInv'
  <1> DEFINE n == Len(answered)
  <1>1. /\ state = "receiving" /\ UNCHANGED <<targets, state, broken>> /\ n < MaxAnswers
        /\ answered' = Append(answered, a)
        /\ names' = IF a.kind \in {"output", "output and error"} THEN Append(names, a.name) ELSE names
    BY Zenon DEF Dist!Recv
  <1>0. failed' = failed \cup {[target |-> a.name, why |-> w] : w \in Dist!FailureOf(a.kind)}
    BY Zenon DEF Dist!Recv
  <1>2. /\ answered \in Seq(Dist!Answers) /\ names \in Seq(Dist!Names) /\ n \in Nat /\ Len(names) \in Nat
    BY DEF DistInv, Dist!TypeOK
  <1>3. /\ DOMAIN answered' = DOMAIN answered \cup {n + 1} /\ answered'[n + 1] = a
        /\ n + 1 \notin DOMAIN answered
        /\ Len(answered') = n + 1 /\ answered' \in Seq(Dist!Answers)
        /\ \A k \in DOMAIN answered : answered'[k] = answered[k]
    <2>1. ASSUME NEW q \in Seq(Dist!Answers), NEW x \in Dist!Answers
          PROVE  /\ DOMAIN Append(q, x) = DOMAIN q \cup {Len(q) + 1} /\ Append(q, x)[Len(q) + 1] = x
                 /\ Len(q) + 1 \notin DOMAIN q
                 /\ Len(Append(q, x)) = Len(q) + 1 /\ Append(q, x) \in Seq(Dist!Answers)
                 /\ \A k \in DOMAIN q : Append(q, x)[k] = q[k]
      BY Appended
    <2>2. answered \in Seq(Dist!Answers) /\ answered' = Append(answered, a)
      BY <1>1, <1>2, Zenon
    <2> QED BY ONLY <2>1, <2>2, a \in Dist!Answers
  <1>4. a.name \in Dist!Names /\ a.kind \in Dist!Kinds
    BY DEF Dist!Answers
  <1>5. /\ names' \in Seq(Dist!Names)
        /\ \A i \in DOMAIN names : i \in DOMAIN names' /\ names'[i] = names[i]
        /\ \A i \in DOMAIN names' : i \in DOMAIN names \/ (i = Len(names) + 1 /\ names'[i] = a.name)
        /\ a.kind \in {"output", "output and error"} => \E i \in DOMAIN names' : names'[i] = a.name
    <2>1. CASE names' = Append(names, a.name)
      <3>1. ASSUME NEW q \in Seq(Dist!Names), NEW x \in Dist!Names
            PROVE  /\ Append(q, x) \in Seq(Dist!Names)
                   /\ DOMAIN Append(q, x) = DOMAIN q \cup {Len(q) + 1} /\ Append(q, x)[Len(q) + 1] = x
                   /\ \A i \in DOMAIN q : Append(q, x)[i] = q[i]
        BY Appended
      <3>2. names \in Seq(Dist!Names) /\ a.name \in Dist!Names
        BY <1>2, <1>4
      <3>3. /\ names' \in Seq(Dist!Names) /\ DOMAIN names' = DOMAIN names \cup {Len(names) + 1}
            /\ names'[Len(names) + 1] = a.name /\ \A i \in DOMAIN names : names'[i] = names[i]
        BY ONLY <2>1, <3>1, <3>2
      <3> QED BY ONLY <3>3, Zenon
    <2>2. CASE names' = names /\ a.kind \notin {"output", "output and error"}
      BY <1>2, <2>2, Zenon
    <2> QED BY <1>1, <2>1, <2>2, Zenon
  <1>6. Dist!TypeOK'
    <2>1. failed' \subseteq [target : Dist!Names, why : Dist!Reasons]
      <3>1. \A w \in Dist!FailureOf(a.kind) : w \in Dist!Reasons
        BY <1>4, FailureReason
      <3>2. \A w \in Dist!FailureOf(a.kind) :
               [target |-> a.name, why |-> w] \in [target : Dist!Names, why : Dist!Reasons]
        BY <1>4, <3>1
      <3>3. failed \subseteq [target : Dist!Names, why : Dist!Reasons]
        BY DEF DistInv, Dist!TypeOK
      <3> QED BY <1>0, <3>2, <3>3, Zenon
    <2>2. broken' \in BOOLEAN
      BY <1>1, Zenon DEF DistInv, Dist!TypeOK
    <2>3. Len(answered') <= MaxAnswers
      <3>1. MaxAnswers \in Nat
        BY PoolsOfNames
      <3>2. Len(answered') = n + 1
        BY <1>3
      <3>3. n \in Nat
        BY <1>2
      <3>4. n < MaxAnswers
        BY <1>1, Zenon
      <3> QED BY ONLY <3>1, <3>2, <3>3, <3>4
    <2>4. targets' \in Pools /\ state' \in {"sending", "receiving", "returned", "error"}
      BY <1>1, Zenon DEF DistInv, Dist!TypeOK
    <2> QED BY <1>3, <1>5, <2>1, <2>2, <2>3, <2>4, Zenon DEF Dist!TypeOK
  <1>7. NamesAnswered'
    <2>1. ASSUME NEW i \in DOMAIN names' PROVE \E k \in DOMAIN answered' : answered'[k].name = names'[i]
      <3>1. CASE i \in DOMAIN names
        <4>1. PICK k \in DOMAIN answered : answered[k].name = names[i]
          BY <3>1 DEF DistInv, NamesAnswered
        <4> QED BY <1>3, <1>5, <3>1, <4>1, Zenon
      <3>2. CASE names'[i] = a.name
        BY <1>3, <3>2
      <3> QED BY <1>5, <3>1, <3>2, Zenon
    <2>2. ASSUME NEW i \in DOMAIN names', NEW j \in DOMAIN names', i # j
          PROVE  \E k, l \in DOMAIN answered' :
                    k # l /\ answered'[k].name = names'[i] /\ answered'[l].name = names'[j]
      <3>1. CASE i \in DOMAIN names /\ j \in DOMAIN names
        <4>1. PICK k \in DOMAIN answered, l \in DOMAIN answered :
                 k # l /\ answered[k].name = names[i] /\ answered[l].name = names[j]
          BY <2>2, <3>1 DEF DistInv, NamesAnswered
        <4>2. k \in DOMAIN answered' /\ l \in DOMAIN answered'
          BY <1>3, <4>1
        <4>3. answered'[k] = answered[k] /\ answered'[l] = answered[l]
          BY <1>3, <4>1
        <4>4. names'[i] = names[i] /\ names'[j] = names[j]
          BY <1>5, <3>1, Zenon
        <4> QED BY ONLY <4>1, <4>2, <4>3, <4>4
      <3>2. CASE i \in DOMAIN names /\ names'[j] = a.name
        <4>1. PICK k \in DOMAIN answered : answered[k].name = names[i]
          BY <3>2 DEF DistInv, NamesAnswered
        <4>2. k \in DOMAIN answered' /\ n + 1 \in DOMAIN answered' /\ k # n + 1
          BY <1>3, <4>1
        <4> QED BY <1>3, <1>5, <3>2, <4>1, <4>2, Zenon
      <3>3. CASE names'[i] = a.name /\ j \in DOMAIN names
        <4>1. PICK l \in DOMAIN answered : answered[l].name = names[j]
          BY <3>3 DEF DistInv, NamesAnswered
        <4>2. l \in DOMAIN answered' /\ n + 1 \in DOMAIN answered' /\ l # n + 1
          BY <1>3, <4>1
        <4> QED BY <1>3, <1>5, <3>3, <4>1, <4>2, Zenon
      <3> QED BY <1>5, <2>2, <3>1, <3>2, <3>3, Zenon
    <2> QED BY <2>1, <2>2 DEF NamesAnswered
  <1>8. AnswersKept'
    <2> DEFINE Judged(k) == answered[k].kind \in {"output", "output and error"}
               HasName(t, q) == \E i \in DOMAIN q : q[i].addr = t.addr
               HasFailure(t, set) == \E f \in set : f.target.addr = t.addr
    <2>1. ASSUME NEW k \in DOMAIN answered
          PROVE  /\ Judged(k) => HasName(answered[k].name, names')
                 /\ ~Judged(k) => HasFailure(answered[k].name, failed')
      <3>1. /\ Judged(k) => HasName(answered[k].name, names)
            /\ ~Judged(k) => HasFailure(answered[k].name, failed)
        BY <1>1, Zenon DEF DistInv, AnswersKept, WithOutput, Dist!Has, Dist!HasFailed
      <3>2. HasName(answered[k].name, names) => HasName(answered[k].name, names')
        BY <1>5, Zenon
      <3>3. failed \subseteq failed'
        BY <1>0
      <3> QED BY <3>1, <3>2, <3>3, Zenon
    <2>2. a.kind \in {"output", "output and error"} => HasName(a.name, names')
      BY <1>5, Zenon
    <2>3. a.kind \notin {"output", "output and error"} => HasFailure(a.name, failed')
      <3>1. ASSUME NEW w \in Dist!FailureOf(a.kind) PROVE HasFailure(a.name, failed')
        <4>1. [target |-> a.name, why |-> w] \in failed'
          BY <1>0
        <4> QED BY <4>1
      <3> QED BY <1>4, <3>1, FailureOrOutput, Zenon
    <2>4. ASSUME NEW k \in DOMAIN answered'
          PROVE  /\ answered'[k].kind \in {"output", "output and error"} => HasName(answered'[k].name, names')
                 /\ answered'[k].kind \notin {"output", "output and error"} => HasFailure(answered'[k].name, failed')
      BY <1>3, <2>1, <2>2, <2>3, Zenon
    <2> QED BY <2>4, Zenon DEF AnswersKept, WithOutput, Dist!Has, Dist!HasFailed
  <1> QED BY <1>1, <1>6, <1>7, <1>8, Zenon DEF DistInv, Dist!EveryTargetAccounted,
      Dist!OthersKept

\* At the stream's end every target has one answer at most, and nobody else has: what is to be
\* judged is one a target, and the targets without an answer have failed.
LEMMA FinishKeeps ==
    ASSUME DistInv, NEW breaks \in BOOLEAN, Dist!Finish(breaks)
    PROVE  DistInv'
  <1>1. state = "receiving" /\ UNCHANGED <<targets, answered>> /\ broken' = breaks
    BY Zenon DEF Dist!Finish
  <1>2. answered \in Seq(Dist!Answers) /\ names \in Seq(Dist!Names) /\ targets \in Pools
    BY DEF DistInv, Dist!TypeOK
  <1>3. failed \subseteq [target : Dist!Names, why : Dist!Reasons] /\ Len(answered) <= MaxAnswers
    BY DEF DistInv, Dist!TypeOK
  <1>4. \A t \in DOMAIN targets : targets[t] \in Dist!Names
    <2>1. targets \in Seq(Dist!Names)
      BY <1>2, PoolsOfNames, Zenon DEF Dist!Names
    <2> QED BY ONLY <2>1
  <1>5. CASE Dist!Unattributable
    <2>1. state' = "error" /\ names' = <<>> /\ failed' = {} /\ DOMAIN names' = {}
      BY <1>5 DEF Dist!Finish
    <2>2. names' \in Seq(Dist!Names) /\ broken' \in BOOLEAN
      <3>1. names' \in Seq(Dist!Names)
        BY <2>1
      <3> QED BY <1>1, <3>1, Zenon
    <2>3. Dist!TypeOK'
      BY <1>1, <1>2, <1>3, <2>1, <2>2 DEF Dist!TypeOK
    <2>4. NamesAnswered'
      BY <2>1 DEF NamesAnswered
    <2>5. Dist!EveryTargetAccounted'
      BY <2>1 DEF Dist!EveryTargetAccounted
    <2>6. \/ \E i, j \in DOMAIN answered : i # j /\ answered[i].name.addr = answered[j].name.addr
          \/ \E i \in DOMAIN answered : ~Dist!Has(answered[i].name, targets)
      BY <1>5 DEF Dist!Unattributable, Dist!AnswersOf, Dist!Canonical, Dist!Has
    <2>7. Dist!OthersKept'
      BY <1>1, <2>1, <2>6 DEF Dist!OthersKept, Dist!Has
    <2> QED BY <2>1, <2>3, <2>4, <2>5, <2>7 DEF DistInv
  <1>6. CASE ~Dist!Unattributable
    <2> DEFINE why == IF breaks THEN "stream" ELSE "no result"
    <2>1. state' = "returned" /\ names' = names
      BY <1>6, Zenon DEF Dist!Finish
    <2>2. failed' = failed \cup {[target |-> t, why |-> why] : t \in Dist!Missing}
      BY <1>6, Zenon DEF Dist!Finish
    <2>3. failed' \subseteq [target : Dist!Names, why : Dist!Reasons]
      <3>1. \A t \in Dist!Missing : t \in Dist!Names
        BY <1>4 DEF Dist!Missing
      <3>2. why \in Dist!Reasons
        BY DEF Dist!Reasons
      <3>3. \A t \in Dist!Missing : [target |-> t, why |-> why] \in [target : Dist!Names, why : Dist!Reasons]
        BY <3>1, <3>2, Zenon
      <3> QED BY <1>3, <2>2, <3>3, Zenon
    <2>4. broken' \in BOOLEAN
      BY <1>1, Zenon
    <2>5. Dist!TypeOK'
      BY <1>1, <1>2, <1>3, <2>1, <2>3, <2>4 DEF Dist!TypeOK
    <2>6. NamesAnswered'
      BY <1>1, <2>1 DEF DistInv, NamesAnswered
    <2>7. /\ \A i \in DOMAIN answered : \E t \in DOMAIN targets : answered[i].name.addr = targets[t].addr
          /\ \A t \in DOMAIN targets : \A i, j \in DOMAIN answered :
                answered[i].name.addr = targets[t].addr /\ answered[j].name.addr = targets[t].addr => i = j
      BY <1>6 DEF Dist!Unattributable, Dist!AnswersOf, Dist!Canonical
    <2>8. ASSUME NEW t \in DOMAIN targets
          PROVE  \/ \E i \in DOMAIN names : names[i].addr = targets[t].addr
                 \/ \E f \in failed' : f.target.addr = targets[t].addr
      <3>1. CASE Dist!AnswersOf(targets[t]) = {}
        <4>1. [target |-> targets[t], why |-> why] \in failed'
          <5>1. targets[t] \in Dist!Missing
            BY <3>1 DEF Dist!Missing
          <5> QED BY <2>2, <5>1, Zenon
        <4> QED BY <4>1, Zenon
      <3>2. ASSUME NEW i \in DOMAIN answered, answered[i].name.addr = targets[t].addr
            PROVE  \/ \E k \in DOMAIN names : names[k].addr = targets[t].addr
                   \/ \E f \in failed : f.target.addr = targets[t].addr
        BY <1>1, <3>2 DEF DistInv, AnswersKept, Dist!Has, Dist!HasFailed
      <3>3. failed \subseteq failed'
        BY <2>2, Zenon
      <3> QED BY <3>1, <3>2, <3>3 DEF Dist!AnswersOf, Dist!Canonical
    <2>9. ASSUME NEW i \in DOMAIN names PROVE \E t \in DOMAIN targets : targets[t].addr = names[i].addr
      <3>1. PICK k \in DOMAIN answered : answered[k].name = names[i]
        BY DEF DistInv, NamesAnswered
      <3> QED BY <2>7, <3>1
    <2>10. ASSUME NEW i \in DOMAIN names, NEW j \in DOMAIN names, names[i].addr = names[j].addr, i # j
           PROVE  FALSE
      <3>1. PICK k \in DOMAIN answered, l \in DOMAIN answered :
               k # l /\ answered[k].name = names[i] /\ answered[l].name = names[j]
        BY <2>10 DEF DistInv, NamesAnswered
      <3>2. PICK t \in DOMAIN targets : answered[k].name.addr = targets[t].addr
        BY <2>7
      <3> QED BY <2>7, <2>10, <3>1, <3>2, Zenon
    <2>11. Dist!EveryTargetAccounted'
      BY <1>1, <2>1, <2>8, <2>9, <2>10 DEF Dist!EveryTargetAccounted, Dist!Has,
          Dist!HasFailed
    <2>12. Dist!OthersKept'
      BY <1>1, <2>1, Zenon DEF DistInv, AnswersKept, WithOutput, Dist!OthersKept, Dist!Has
    <2> QED BY <2>1, <2>5, <2>6, <2>11, <2>12 DEF DistInv
  <1> QED BY <1>5, <1>6

\* Every step of the distributor's client keeps the invariant.
LEMMA DistNext == DistInv /\ [Dist!Next]_(Dist!vars) => DistInv'
  <1> SUFFICES ASSUME DistInv, [Dist!Next]_(Dist!vars) PROVE DistInv'
    OBVIOUS
  <1>1. CASE Dist!Send
    <2>1. UNCHANGED <<targets, answered, names, failed, broken>>
      BY <1>1 DEF Dist!Send
    <2>2. state = "sending" /\ state' \in {"receiving", "error"} /\ answered = <<>> /\ DOMAIN answered = {}
      BY <1>1 DEF Dist!Send, DistInv
    <2>3. Dist!TypeOK'
      <3>1. broken' \in BOOLEAN
        BY <2>1, Zenon DEF DistInv, Dist!TypeOK
      <3> QED BY <2>1, <2>2, <3>1 DEF DistInv, Dist!TypeOK
    <2>4. NamesAnswered' /\ AnswersKept'
      BY <2>1, <2>2 DEF DistInv, NamesAnswered, AnswersKept
    <2>5. Dist!EveryTargetAccounted' /\ Dist!OthersKept'
      BY <2>1, <2>2 DEF Dist!EveryTargetAccounted, Dist!OthersKept
    <2> QED BY <2>2, <2>3, <2>4, <2>5 DEF DistInv
  <1>2. ASSUME NEW a \in Dist!Answers, Dist!Recv(a) PROVE DistInv'
    BY <1>2, RecvKeeps
  <1>3. ASSUME NEW breaks \in BOOLEAN, Dist!Finish(breaks) PROVE DistInv'
    BY <1>3, FinishKeeps
  <1>4. CASE UNCHANGED Dist!vars
    <2>1. UNCHANGED <<targets, state, answered, names, failed, broken>>
      BY <1>4 DEF Dist!vars
    <2>2. Dist!TypeOK'
      <3>1. broken' \in BOOLEAN
        BY <2>1, Zenon DEF DistInv, Dist!TypeOK
      <3> QED BY <2>1, <3>1 DEF DistInv, Dist!TypeOK
    <2>3. NamesAnswered'
      BY <2>1 DEF DistInv, NamesAnswered
    <2>4. AnswersKept => AnswersKept'
      BY <2>1, Zenon DEF AnswersKept, WithOutput, Dist!Has, Dist!HasFailed
    <2>5. Dist!EveryTargetAccounted'
      BY <2>1 DEF DistInv, Dist!EveryTargetAccounted, Dist!Has, Dist!HasFailed
    <2>6. Dist!OthersKept => Dist!OthersKept'
      BY <2>1, Zenon DEF Dist!OthersKept
    <2> QED BY <2>1, <2>2, <2>3, <2>4, <2>5, <2>6 DEF DistInv
  <1> QED BY <1>1, <1>2, <1>3, <1>4 DEF Dist!Next

\* A step of the parts is one of each of them, or leaves it alone.
LEMMA PartsSteps ==
    ASSUME [PartsNext]_partsVars
    PROVE  /\ [Call!Next]_(Call!vars)
           /\ [Dist!Next]_(Dist!vars)
           /\ [File!Next]_(File!vars)
           /\ [Rate!Next]_(Rate!vars)
           /\ [Deadline!Next]_(Deadline!vars)
  <1>1. \/ ExecuteStep \/ DistributorStep \/ FileStep \/ RateStep \/ DeadlineStep
        \/ UNCHANGED <<executeVars, distributorVars, fileVars, rateVars, deadlineVars>>
    BY DEF PartsNext, RunnerStep, partsVars
  <1> USE DEF ExecuteStep, DistributorStep, FileStep, RateStep, DeadlineStep
  <1>2. [Dist!Next]_(Dist!vars)
    BY <1>1 DEF distributorVars, Dist!vars
  <1>3. [File!Next]_(File!vars)
    BY <1>1 DEF fileVars, File!vars
  <1>4. [Rate!Next]_(Rate!vars)
    BY <1>1 DEF rateVars, Rate!vars
  <1>5. [Deadline!Next]_(Deadline!vars)
    BY <1>1 DEF deadlineVars, Deadline!vars
  <1>6. [Call!Next]_(Call!vars)
    BY <1>1, Zenon DEF executeVars, Call!vars, Call!clientVars, Call!contextVars,
        Call!serviceVars
  <1> QED BY <1>2, <1>3, <1>4, <1>5, <1>6

\* For every pool and however many answers of whatever kind come, from its targets, about others
\* or twice: what is returned has one output or a failure of every target, nothing of anybody
\* else, and all the outputs that came.
THEOREM EveryTargetAccountedHolds == PartsSpec => []EveryTargetAccounted
  <1>1. PartsInit => DistInv
    BY DistInit DEF PartsInit
  <1>2. DistInv /\ [PartsNext]_partsVars => DistInv'
    BY DistNext, PartsSteps
  <1>3. DistInv => EveryTargetAccounted
    BY DEF DistInv, EveryTargetAccounted
  <1> QED BY <1>1, <1>2, <1>3, PTL DEF PartsSpec

(***************************************************************************)
(* The plan's deadlines and rates                                          *)
(***************************************************************************)
\* The parts are those of one behaviour.
LEMMA PartKept == [PartsNext]_partsVars => part' = part
  BY Zenon DEF PartsNext, partsVars, RunnerStep, ExecuteStep, DistributorStep, FileStep,
     RateStep, DeadlineStep

\* A saturating sum is the sum or the longest duration, and no less than what it started from.
SumOf(r, a, b) == r \in 0 .. MaxInt64 /\ r >= a /\ (r = MaxInt64 \/ r = a + b)

\* addDuration saturates.
LEMMA Added ==
    ASSUME NEW a \in 0 .. MaxInt64, NEW b \in 0 .. MaxInt64
    PROVE  SumOf(Deadline!AddDuration(a, b), a, b)
  BY DurationsFit DEF Deadline!AddDuration, SumOf

\* And an option that is not set adds nothing.
LEMMA AddedSet ==
    ASSUME NEW a \in 0 .. MaxInt64, NEW set \in Deadline!Optional
    PROVE  SumOf(Deadline!AddSet(a, set), a, IF set = -1 THEN 0 ELSE set)
  <1>1. CASE set = -1
    BY <1>1, DurationsFit DEF Deadline!AddSet, SumOf
  <1>2. CASE set # -1
    <2>1. set \in 0 .. MaxInt64
      BY <1>2, DurationsFit DEF Deadline!Optional
    <2> QED BY <1>2, <2>1, Added DEF Deadline!AddSet
  <1> QED BY <1>1, <1>2

\* The windows leave time for each of them, or the sum is the longest there is.
LEMMA WindowsLeaveTime ==
    ASSUME NEW a \in 0 .. MaxInt64, NEW c \in Deadline!Calls
    PROVE  /\ Deadline!AddWindows(a, c) \in 0 .. MaxInt64 /\ Deadline!AddWindows(a, c) >= a
           /\ \A d \in Deadline!Drains(c) :
                 /\ d \in 0 .. MaxInt64
                 /\ \/ Deadline!AddWindows(a, c) = MaxInt64
                    \/ Deadline!AddWindows(a, c) >= a + d
  <1> DEFINE Len0(set) == IF set = -1 THEN 0 ELSE set
             r1 == Deadline!AddSet(a, c.grpcStream)
             r2 == Deadline!AddSet(r1, c.websocket)
             r3 == Deadline!AddSet(r2, c.tcp)
             r4 == Deadline!AddSet(r3, c.udp)
  <1>1. {c.grpcStream, c.websocket, c.tcp, c.udp} \subseteq Deadline!Optional
    BY DEF Deadline!Calls
  <1>2. \A set \in Deadline!Optional : set = -1 \/ set \in 0 .. MaxInt64
    BY DurationsFit DEF Deadline!Optional
  <1>3. CASE {c.grpcStream, c.websocket, c.tcp, c.udp} = {-1}
    <2>1. Deadline!Drains(c) = {1}
      BY <1>3 DEF Deadline!Drains, Deadline!engineDrain
    <2>2. Deadline!AddWindows(a, c) = Deadline!AddDuration(a, 1)
      BY <1>3 DEF Deadline!AddWindows, Deadline!engineDrain
    <2>3. 1 \in 0 .. MaxInt64
      BY DurationsFit
    <2> QED BY <2>1, <2>2, <2>3, Added, DurationsFit DEF SumOf
  <1>4. CASE {c.grpcStream, c.websocket, c.tcp, c.udp} # {-1}
    <2>1. Deadline!Drains(c) = {c.grpcStream, c.websocket, c.tcp, c.udp} \ {-1}
      BY <1>4 DEF Deadline!Drains
    <2>2. Deadline!AddWindows(a, c) = r4
      BY <1>4 DEF Deadline!AddWindows
    <2>3. SumOf(r1, a, Len0(c.grpcStream))
      BY <1>1, AddedSet
    <2>4. SumOf(r2, r1, Len0(c.websocket))
      BY <1>1, <2>3, AddedSet DEF SumOf
    <2>5. SumOf(r3, r2, Len0(c.tcp))
      BY <1>1, <2>4, AddedSet, Zenon DEF SumOf
    <2>6. SumOf(r4, r3, Len0(c.udp))
      BY <1>1, <2>5, AddedSet, Zenon DEF SumOf
    <2> HIDE DEF r1, r2, r3, r4
    <2>7. r4 \in 0 .. MaxInt64 /\ r4 >= a
      BY <2>3, <2>4, <2>5, <2>6, DurationsFit DEF SumOf
    <2>8. ASSUME NEW d \in Deadline!Drains(c)
          PROVE  d \in 0 .. MaxInt64 /\ (r4 = MaxInt64 \/ r4 >= a + d)
      <3>1. d \in 0 .. MaxInt64
        BY <1>1, <1>2, <2>1
      <3>2. d # -1 /\ d \in {c.grpcStream, c.websocket, c.tcp, c.udp}
        BY <2>1, <2>8
      <3>3. Len0(d) = d
        BY <3>2
      <3>4. CASE d = c.grpcStream
        BY <2>3, <2>4, <2>5, <2>6, <3>1, <3>3, <3>4, DurationsFit DEF SumOf
      <3>5. CASE d = c.websocket
        BY <2>3, <2>4, <2>5, <2>6, <3>1, <3>3, <3>5, DurationsFit DEF SumOf
      <3>6. CASE d = c.tcp
        BY <2>3, <2>4, <2>5, <2>6, <3>1, <3>3, <3>6, DurationsFit DEF SumOf
      <3>7. CASE d = c.udp
        BY <2>3, <2>4, <2>5, <2>6, <3>1, <3>3, <3>7, DurationsFit DEF SumOf
      <3> QED BY <3>1, <3>2, <3>4, <3>5, <3>6, <3>7
    <2> QED BY <2>2, <2>7, <2>8
  <1> QED BY <1>3, <1>4

\* The deadline that is computed for a call leaves it time.
LEMMA BudgetLeavesTime ==
    ASSUME NEW c \in Deadline!Calls
    PROVE  /\ Deadline!Budget(c) \in 0 .. MaxInt64
           /\ \/ Deadline!Budget(c) = MaxInt64
              \/ \A d \in Deadline!Drains(c) :
                    Deadline!Budget(c) >=
                        c.duration + Deadline!Default(c.timeout, 1) + d + Deadline!Grace(c)
  <1> DEFINE t == Deadline!Default(c.timeout, 1)
             g == Deadline!Grace(c)
             x1 == Deadline!AddDuration(c.duration, t)
             x2 == Deadline!AddWindows(x1, c)
             x3 == Deadline!AddDuration(x2, g)
  <1>1. c.duration \in 0 .. MaxInt64 /\ t \in 0 .. MaxInt64 /\ g \in 0 .. MaxInt64
    <2>1. c.duration \in Durations /\ c.grace \in Durations /\ c.timeout \in Durations \cup {-1}
      BY DEF Deadline!Calls, Deadline!Optional
    <2>2. 1 \in 0 .. MaxInt64 /\ 2 \in 0 .. MaxInt64
      BY DurationsFit
    <2>3. t \in {1} \cup Durations
      BY <2>1, Zenon DEF Deadline!Default
    <2>4. g \in {2} \cup Durations
      BY <2>1, Zenon DEF Deadline!Grace, Deadline!responseGrace
    <2> HIDE DEF t, g
    <2> QED BY <2>1, <2>2, <2>3, <2>4, DurationsFit, Zenon
  <1>2. Deadline!Budget(c) = x3
    BY DEF Deadline!Budget, Deadline!engineTimeout
  <1> HIDE DEF t, g
  <1>3. SumOf(x1, c.duration, t)
    BY <1>1, Added
  <1>4. /\ x2 \in 0 .. MaxInt64 /\ x2 >= x1
        /\ \A d \in Deadline!Drains(c) :
              d \in 0 .. MaxInt64 /\ (x2 = MaxInt64 \/ x2 >= x1 + d)
    <2>1. x1 \in 0 .. MaxInt64
      BY <1>3 DEF SumOf
    <2> HIDE DEF x1
    <2> QED BY <2>1, WindowsLeaveTime
  <1>5. SumOf(x3, x2, g)
    BY <1>1, <1>4, Added
  <1> HIDE DEF x1, x2, x3
  <1>6. ASSUME NEW d \in Deadline!Drains(c), x3 # MaxInt64 PROVE x3 >= c.duration + t + d + g
    BY <1>1, <1>3, <1>4, <1>5, <1>6, DurationsFit DEF SumOf
  <1> QED BY <1>2, <1>5, <1>6 DEF SumOf, t, g

\* The inductive invariant of the deadline: it is not computed yet, or it is the budget.
DeadlineInv ==
    part = "deadline" =>
        deadlineCall \in Deadline!Calls /\ deadline \in {-1, Deadline!Budget(deadlineCall)}

\* backendDeadline (run.go), whatever the longest duration is and whatever durations a plan has:
\* the deadline is never in the past and leaves a backend its duration, its timeout, each of the
\* drain windows it was asked for and the grace, or it is the longest there is.
THEOREM DeadlineLeavesTime ==
    PartsSpec => [](part = "deadline" => Deadline!TypeOK /\ Deadline!LeavesTimeForWaits)
  <1>1. PartsInit => DeadlineInv
    BY DEF PartsInit, Deadline!Init, DeadlineInv
  <1>2. DeadlineInv /\ [PartsNext]_partsVars => DeadlineInv'
    BY PartKept, PartsSteps DEF DeadlineInv, Deadline!Next, Deadline!Compute, Deadline!vars
  <1>3. ASSUME DeadlineInv, part = "deadline" PROVE Deadline!TypeOK /\ Deadline!LeavesTimeForWaits
    <2>1. CASE deadline = -1
      BY <1>3, <2>1 DEF DeadlineInv, Deadline!TypeOK, Deadline!LeavesTimeForWaits
    <2>2. CASE deadline # -1 /\ deadline = Deadline!Budget(deadlineCall)
      BY <1>3, <2>2, BudgetLeavesTime
         DEF DeadlineInv, Deadline!TypeOK, Deadline!LeavesTimeForWaits, Deadline!engineTimeout
    <2> QED BY <1>3, <2>1, <2>2 DEF DeadlineInv
  <1> QED BY <1>1, <1>2, <1>3, PTL DEF PartsSpec

\* A word is not reached by what is below it.
LEMMA Fits == ASSUME NEW n \in Nat, n < Width PROVE Rate!U32(n) = n
  BY RatesFit DEF Rate!U32

\* A dividend is its quotient's multiple and its remainder.
LEMMA Divided ==
    ASSUME NEW n \in Nat, NEW d \in Nat \ {0}
    PROVE  n \div d \in Nat /\ n % d \in 0 .. d - 1 /\ n = d * (n \div d) + (n % d)
  <1>1. n \div d \in Int /\ n % d \in 0 .. d - 1
    OBVIOUS
  <1>2. n = d * (n \div d) + (n % d)
    OBVIOUS
  <1>3. n \div d >= 0
    OBVIOUS
  <1> QED BY <1>1, <1>2, <1>3

\* What divides without a remainder.
LEMMA Exact ==
    ASSUME NEW r \in Nat, NEW w \in Nat \ {0}, r % w = 0
    PROVE  /\ r \div w \in Nat /\ r = (r \div w) * w /\ (r > 0 => r \div w > 0)
           /\ \A s \in Nat : s <= r \div w => s * w <= r
  <1>1. PICK t \in Nat : t = r \div w
    BY Divided, Zenon
  <1>2. r = w * t + (r % w)
    BY <1>1, Divided, Zenon
  <1>3. r = t * w /\ (r > 0 => t > 0)
    BY ONLY <1>1, <1>2, r \in Nat, w \in Nat \ {0}, r % w = 0
  <1>4. ASSUME NEW s \in Nat, s <= t PROVE s * w <= t * w
    BY <1>4
  <1> QED BY <1>1, <1>3, <1>4, Zenon

\* A multiple of a product.
LEMMA Regrouped ==
    ASSUME NEW n \in Nat \ {0}, NEW w \in Nat \ {0}, NEW q \in Nat
    PROVE  q * (n * w) = n * (q * w) /\ q * w <= q * (n * w)
  <1>1. q * (n * w) = n * (q * w) /\ q * w \in Nat
    OBVIOUS
  <1>2. ASSUME NEW x \in Nat PROVE x <= n * x
    OBVIOUS
  <1> QED BY <1>1, <1>2, Zenon

\* A call's numbers.
LEMMA RateCall ==
    ASSUME NEW c \in Rate!Calls
    PROVE  /\ c.rate \in Nat /\ c.rate < Width /\ c.workers \in Nat \ {0}
           /\ c.backends \in Nat \ {0}
  <1>1. c.rate \in Rates /\ c.workers \in Workers /\ c.backends \in PoolSizes
    BY DEF Rate!Calls
  <1>2. c.rate \in 0 .. Width - 1 /\ c.workers \in 1 .. Width - 1 /\ c.backends \in 1 .. Width - 1
    BY <1>1, RatesFit, Zenon
  <1>3. Width \in Nat
    BY RatesFit
  <1> QED BY ONLY <1>2, <1>3

\* What the workers of a backend send in a second, when its engine is told rps.
SentBy(c, rps) == IF c.aggregate THEN rps ELSE rps * c.workers

\* A share whose workers send no more than the rate is told as it is.
LEMMA ShareIsTold ==
    ASSUME NEW c \in Rate!Calls, NEW share \in Nat, share * c.workers <= c.rate
    PROVE  /\ Rate!BackendRate(c, share) \in 0 .. Width - 1
           /\ SentBy(c, Rate!BackendRate(c, share)) = share * c.workers
           /\ share > 0 => Rate!BackendRate(c, share) > 0
  <1>1. c.rate \in Nat /\ c.rate < Width /\ c.workers \in Nat \ {0} /\ Width \in Nat
    BY RateCall, RatesFit
  <1>2. ASSUME NEW s \in Nat, NEW w \in Nat \ {0}
        PROVE  s * w \in Nat /\ s <= s * w
    BY <1>2
  <1>3. share * c.workers \in Nat /\ share <= share * c.workers
    BY <1>1, <1>2
  <1>4. share * c.workers < Width
    BY ONLY <1>1, <1>3, share * c.workers <= c.rate
  <1>5. Rate!U32(share * c.workers) = share * c.workers
    BY <1>3, <1>4, Fits
  <1>6. CASE c.aggregate
    <2>1. Rate!BackendRate(c, share) = share * c.workers
      BY <1>5, <1>6 DEF Rate!BackendRate
    <2> QED BY <1>1, <1>3, <1>4, <1>6, <2>1 DEF SentBy
  <1>7. CASE ~c.aggregate
    <2>1. Rate!BackendRate(c, share) = share
      BY <1>7 DEF Rate!BackendRate
    <2> QED BY <1>1, <1>3, <1>4, <1>7, <2>1 DEF SentBy
  <1> QED BY <1>6, <1>7

\* The shares of a total that is no less than the number of backends: none is more than the
\* total, none is zero, and no two differ by more than one.
LEMMA SharesAre ==
    ASSUME NEW total \in Nat, NEW n \in Nat \ {0}, n <= total
    PROVE  \A i, j \in 1 .. n :
              /\ Rate!Shares(total, n)[i] \in Nat /\ Rate!Shares(total, n)[i] <= total
              /\ Rate!Shares(total, n)[i] > 0
              /\ Rate!Shares(total, n)[i] <= Rate!Shares(total, n)[j] + 1
  <1> DEFINE q == total \div n
             m == total % n
  <1>1. q \in Nat /\ m \in 0 .. n - 1 /\ total = n * q + m
    BY Divided, Zenon
  <1>2. \A i \in 1 .. n : Rate!Shares(total, n)[i] = q \/ (m > 0 /\ Rate!Shares(total, n)[i] = q + 1)
    <2>1. ASSUME NEW i \in 1 .. n
          PROVE  Rate!Shares(total, n)[i] = q + (IF i <= m THEN 1 ELSE 0)
      BY DEF Rate!Shares
    <2> HIDE DEF q, m
    <2> QED BY <1>1, <2>1
  <1> HIDE DEF q, m
  <1>3. q >= 1
    <2>1. q = 0 => n * q = 0
      BY <1>1
    <2> QED BY ONLY <1>1, <2>1, n \in Nat \ {0}, n <= total, total \in Nat
  <1>4. n * q \in Nat /\ q <= n * q
    BY <1>1
  <1> QED BY <1>1, <1>2, <1>3, <1>4

\* A compiled plan that is as it should be: for every backend some share of the rate.
SharedOut(c, out, share) ==
    /\ out.status = "ok"
    /\ out.rps = [i \in 1 .. c.backends |-> Rate!BackendRate(c, share[i])]
    /\ \A i \in 1 .. c.backends : share[i] \in Nat /\ share[i] * c.workers <= c.rate

\* Divide refuses a plan or shares its rate out evenly.
LEMMA DivideShares ==
    ASSUME NEW c \in Rate!Calls, Rate!Divide(c).status # "refused"
    PROVE  \E share :
              /\ SharedOut(c, Rate!Divide(c), share)
              /\ c.perBackend => \A i \in 1 .. c.backends : share[i] * c.workers = c.rate
              /\ c.rate > 0 => \A i, j \in 1 .. c.backends :
                                   share[i] > 0 /\ share[i] <= share[j] + 1
  <1> DEFINE total == c.rate \div c.workers
             share == IF c.perBackend THEN [i \in 1 .. c.backends |-> total]
                      ELSE Rate!Shares(total, c.backends)
  <1>1. /\ c.rate \in Nat /\ c.workers \in Nat \ {0} /\ c.backends \in Nat \ {0}
    BY RateCall
  <1>2. /\ c.rate % c.workers = 0 /\ (c.perBackend \/ ~Rate!TooFew(total, c.backends))
        /\ Rate!Divide(c) = Rate!Options([i \in 1 .. c.backends |-> Rate!BackendRate(c, share[i])])
    BY Zenon DEF Rate!Divide, Rate!Ended
  <1>3. /\ total \in Nat /\ c.rate = total * c.workers /\ (c.rate > 0 => total > 0)
        /\ \A s \in Nat : s <= total => s * c.workers <= c.rate
    BY <1>1, <1>2, Exact, Zenon
  <1> HIDE DEF total
  <1>6. CASE c.perBackend
    <2>1. \A i \in 1 .. c.backends : share[i] = total
      BY <1>6
    <2> HIDE DEF share
    <2>2. \A i \in 1 .. c.backends :
             /\ share[i] \in Nat /\ share[i] * c.workers = c.rate /\ share[i] * c.workers <= c.rate
             /\ c.rate > 0 => share[i] > 0
      <3>1. c.rate <= c.rate
        BY <1>1
      <3> QED BY <1>3, <2>1, <3>1, Zenon
    <2>3. \A i, j \in 1 .. c.backends : share[i] <= share[j] + 1
      BY <1>3, <2>1
    <2>4. SharedOut(c, Rate!Divide(c), share)
      <3>1. /\ Rate!Divide(c).status = "ok"
            /\ Rate!Divide(c).rps = [i \in 1 .. c.backends |-> Rate!BackendRate(c, share[i])]
        BY <1>2 DEF Rate!Options
      <3> QED BY <2>2, <3>1, Zenon DEF SharedOut
    <2> QED BY <2>2, <2>3, <2>4, Zenon
  <1>7. CASE ~c.perBackend
    <2>1. c.backends <= total
      BY <1>1, <1>2, <1>3, <1>7 DEF Rate!TooFew
    <2>2. share = Rate!Shares(total, c.backends)
      BY <1>7
    <2>3. \A i, j \in 1 .. c.backends :
             share[i] \in Nat /\ share[i] <= total /\ share[i] > 0 /\ share[i] <= share[j] + 1
      BY <1>1, <1>3, <2>1, <2>2, SharesAre, Zenon
    <2> HIDE DEF share
    <2>4. \A i \in 1 .. c.backends : share[i] \in Nat /\ share[i] * c.workers <= c.rate
      BY <1>3, <2>3, Zenon
    <2>5. SharedOut(c, Rate!Divide(c), share)
      <3>1. /\ Rate!Divide(c).status = "ok"
            /\ Rate!Divide(c).rps = [i \in 1 .. c.backends |-> Rate!BackendRate(c, share[i])]
        BY <1>2 DEF Rate!Options
      <3> QED BY <2>4, <3>1, Zenon DEF SharedOut
    <2> QED BY <1>7, <2>3, <2>5, Zenon
  <1> QED BY <1>6, <1>7, Zenon

\* Whatever its divisor has become, what uniformShare tells the targets fits the word.
LEMMA UniformTyped ==
    ASSUME NEW c \in Rate!Calls, Rate!UniformShare(c).status = "ok"
    PROVE  Rate!UniformShare(c).rps \in [1 .. c.backends -> 0 .. Width - 1]
  <1> DEFINE divisor == IF c.perBackend THEN c.workers ELSE Rate!U32(c.backends * c.workers)
             q == c.rate \div divisor
  <1>1. c.rate \in Nat /\ c.rate < Width /\ c.workers \in Nat \ {0} /\ c.backends \in Nat \ {0}
    BY RateCall
  <1>2. /\ divisor # 0
        /\ Rate!UniformShare(c) = Rate!Options([i \in 1 .. c.backends |-> Rate!BackendRate(c, q)])
    BY Zenon DEF Rate!UniformShare, Rate!Ended
  <1>3. Width \in Nat \ {0}
    BY <1>1, RatesFit
  <1>4. divisor \in Nat \ {0}
    <2>1. c.backends * c.workers \in Nat
      BY <1>1
    <2>2. ASSUME NEW n \in Nat PROVE Rate!U32(n) \in Nat
      BY <1>3 DEF Rate!U32
    <2> QED BY <1>1, <1>2, <2>1, <2>2
  <1> HIDE DEF divisor
  <1>5. q \in Nat /\ q <= c.rate
    <2>1. q \in Nat /\ c.rate % divisor \in 0 .. divisor - 1
          /\ c.rate = divisor * q + (c.rate % divisor)
      BY <1>1, <1>4, Divided, Zenon
    <2> HIDE DEF q
    <2>2. ASSUME NEW d \in Nat \ {0}, NEW s \in Nat PROVE s <= d * s /\ d * s \in Nat
      BY <2>2
    <2>3. q <= divisor * q /\ divisor * q \in Nat
      BY <1>4, <2>1, <2>2
    <2> QED BY <1>1, <1>4, <2>1, <2>3
  <1> HIDE DEF q
  <1>6. Rate!BackendRate(c, q) \in 0 .. Width - 1
    <2>1. q * c.workers \in Nat
      BY <1>1, <1>5
    <2>2. ASSUME NEW n \in Nat PROVE Rate!U32(n) \in 0 .. Width - 1
      BY <1>3 DEF Rate!U32
    <2>3. q \in 0 .. Width - 1
      BY <1>1, <1>3, <1>5
    <2> QED BY <2>1, <2>2, <2>3, Zenon DEF Rate!BackendRate
  <1> QED BY <1>2, <1>6 DEF Rate!Options

\* uniformShare refuses a plan or gives every target the same share of all of its rate: where the
\* product fits, its 32-bit divisor is the product that it stands for, so that it is not zero.
LEMMA UniformShares ==
    ASSUME NEW c \in Rate!Calls, Rate!UniformShare(c).status # "refused",
           c.perBackend \/ c.backends * c.workers < Width
    PROVE  \E share :
              /\ SharedOut(c, Rate!UniformShare(c), share)
              /\ ~c.perBackend => c.rate = c.backends * (share[1] * c.workers)
  <1> DEFINE divisor == IF c.perBackend THEN c.workers ELSE Rate!U32(c.backends * c.workers)
             q == c.rate \div divisor
             share == [i \in 1 .. c.backends |-> q]
  <1>1. /\ c.rate \in Nat /\ c.workers \in Nat \ {0} /\ c.backends \in Nat \ {0}
    BY RateCall
  <1>2. c.backends * c.workers \in Nat \ {0}
    BY <1>1
  <1>3. /\ divisor \in Nat \ {0} /\ (c.perBackend => divisor = c.workers)
        /\ ~c.perBackend => divisor = c.backends * c.workers
    BY <1>1, <1>2, Fits
  <1>4. /\ c.rate % divisor = 0
        /\ Rate!UniformShare(c) = Rate!Options([i \in 1 .. c.backends |-> Rate!BackendRate(c, q)])
    BY <1>3, Zenon DEF Rate!UniformShare, Rate!Ended
  <1>5. q \in Nat /\ q * c.workers <= c.rate /\ (~c.perBackend => c.rate = c.backends * (q * c.workers))
    <2> HIDE DEF divisor
    <2>1. CASE c.perBackend
      <3>1. c.rate <= c.rate
        BY <1>1
      <3>2. c.rate % c.workers = 0 /\ q = c.rate \div c.workers
        BY <1>3, <1>4, <2>1
      <3>3. q \in Nat /\ c.rate = q * c.workers
        BY <1>1, <3>2, Exact, Zenon
      <3> QED BY <2>1, <3>1, <3>3, Zenon
    <2>2. CASE ~c.perBackend
      <3>1. q \in Nat /\ c.rate = q * divisor
        BY <1>1, <1>3, <1>4, Exact, Zenon
      <3> HIDE DEF q
      <3>2. c.rate = q * (c.backends * c.workers)
        BY <1>3, <2>2, <3>1, Zenon
      <3>3. /\ q * (c.backends * c.workers) = c.backends * (q * c.workers)
            /\ q * c.workers <= q * (c.backends * c.workers)
        BY <1>1, <3>1, Regrouped, Zenon
      <3> QED BY <3>1, <3>2, <3>3, Zenon
    <2> QED BY <2>1, <2>2
  <1> HIDE DEF divisor, q
  <1>6. SharedOut(c, Rate!UniformShare(c), share) /\ share[1] = q
    <2>1. \A i \in 1 .. c.backends : share[i] = q
      OBVIOUS
    <2>2. 1 \in 1 .. c.backends
      BY <1>1
    <2>3. /\ Rate!UniformShare(c).status = "ok"
          /\ Rate!UniformShare(c).rps = [i \in 1 .. c.backends |-> Rate!BackendRate(c, share[i])]
      BY <1>4 DEF Rate!Options
    <2> HIDE DEF share
    <2> QED BY <1>5, <2>1, <2>2, <2>3, Zenon DEF SharedOut
  <1> QED BY <1>5, <1>6, Zenon

\* The inductive invariant of the rates: not compiled yet, or what the plan's path makes of them.
RateInv ==
    /\ rateCall \in Rate!Calls
    /\ \/ rates = Rate!Ended("pending")
       \/ rates = IF rateCall.distributor THEN Rate!UniformShare(rateCall) ELSE Rate!Divide(rateCall)

\* What a plan that was shared out sends.
LEMMA SharedOutSends ==
    ASSUME RateInv, NEW share, SharedOut(rateCall, rates, share)
    PROVE  /\ rates.rps \in [1 .. rateCall.backends -> 0 .. Width - 1]
           /\ \A i \in 1 .. rateCall.backends :
                 /\ share[i] \in Nat
                 /\ Rate!Sent(i) = share[i] * rateCall.workers
                 /\ share[i] > 0 => rates.rps[i] > 0
  <1>1. ASSUME NEW i \in 1 .. rateCall.backends
        PROVE  /\ share[i] \in Nat /\ rates.rps[i] = Rate!BackendRate(rateCall, share[i])
               /\ share[i] * rateCall.workers <= rateCall.rate
    BY Zenon DEF SharedOut
  <1>2. ASSUME NEW i \in 1 .. rateCall.backends
        PROVE  /\ rates.rps[i] \in 0 .. Width - 1
               /\ SentBy(rateCall, rates.rps[i]) = share[i] * rateCall.workers
               /\ share[i] > 0 => rates.rps[i] > 0
    BY <1>1, ShareIsTold, Zenon DEF RateInv
  <1>3. rates.rps \in [1 .. rateCall.backends -> 0 .. Width - 1]
    BY <1>1, <1>2, Zenon DEF SharedOut
  <1> QED BY <1>1, <1>2, <1>3, Zenon DEF Rate!Sent, SentBy

\* Divide and uniformShare (compile.go), for every word and every rate, concurrency and size of a
\* pool in it: no backend's --rps overflows; with per_backend every backend sends the rate; no
\* backend of a divided pool is idle, and none sends more than one per worker more than another;
\* and what a distributor's targets send adds up to the rate, where targets times workers fits
\* the word.
THEOREM RatesShared ==
    PartsSpec =>
        []/\ Rate!TypeOK /\ Rate!SharesEven /\ Rate!UniformExact
          /\ Rate!Compiled /\ ~rateCall.distributor /\ rateCall.perBackend =>
                \A i \in 1 .. rateCall.backends : Rate!Sent(i) = rateCall.rate
  <1> DEFINE Says == /\ Rate!TypeOK /\ Rate!SharesEven /\ Rate!UniformExact
                     /\ Rate!Compiled /\ ~rateCall.distributor /\ rateCall.perBackend =>
                           \A i \in 1 .. rateCall.backends : Rate!Sent(i) = rateCall.rate
  <1>1. PartsInit => RateInv
    BY DEF PartsInit, Rate!Init, RateInv
  <1>2. RateInv /\ [PartsNext]_partsVars => RateInv'
    BY PartsSteps DEF RateInv, Rate!Next, Rate!Compile, Rate!vars
  <1>3. ASSUME RateInv PROVE Says
    <2>1. rateCall \in Rate!Calls
      BY <1>3 DEF RateInv
    <2>2. /\ rateCall.rate \in Nat /\ rateCall.workers \in Nat \ {0}
          /\ rateCall.backends \in Nat \ {0}
      BY <2>1, RateCall
    <2>3. CASE rates.status \in {"pending", "refused"}
      BY <2>1, <2>3, Zenon DEF Rate!TypeOK, Rate!SharesEven, Rate!UniformExact, Rate!Compiled
    <2>4. CASE rates.status \notin {"pending", "refused"} /\ ~rateCall.distributor
      <3>1. rates = Rate!Divide(rateCall)
        BY <1>3, <2>4 DEF RateInv, Rate!Ended
      <3>2. PICK share :
               /\ SharedOut(rateCall, rates, share)
               /\ rateCall.perBackend =>
                     \A i \in 1 .. rateCall.backends : share[i] * rateCall.workers = rateCall.rate
               /\ rateCall.rate > 0 => \A i, j \in 1 .. rateCall.backends :
                                           share[i] > 0 /\ share[i] <= share[j] + 1
        BY <2>1, <2>4, <3>1, DivideShares
      <3>3. /\ rates.rps \in [1 .. rateCall.backends -> 0 .. Width - 1]
            /\ \A i \in 1 .. rateCall.backends :
                  /\ share[i] \in Nat
                  /\ Rate!Sent(i) = share[i] * rateCall.workers
                  /\ share[i] > 0 => rates.rps[i] > 0
        BY <1>3, <3>2, SharedOutSends, Zenon
      <3>4. ASSUME NEW s \in Nat, NEW t \in Nat, NEW w \in Nat, s <= t + 1 PROVE s * w <= t * w + w
        BY <3>4
      <3>5. Rate!SharesEven
        <4>1. ASSUME NEW i \in 1 .. rateCall.backends, NEW j \in 1 .. rateCall.backends,
                     rateCall.rate > 0
              PROVE  rates.rps[i] > 0 /\ Rate!Sent(i) <= Rate!Sent(j) + rateCall.workers
          <5>1. share[i] \in Nat /\ share[j] \in Nat /\ rateCall.workers \in Nat
            BY <2>2, <3>3
          <5>2. share[i] > 0 /\ share[i] <= share[j] + 1
            BY <3>2, <4>1, Zenon
          <5> QED BY <3>3, <3>4, <5>1, <5>2, Zenon
        <4> QED BY <4>1, Zenon DEF Rate!SharesEven
      <3> QED BY <2>1, <2>4, <3>2, <3>3, <3>5, Zenon DEF Rate!TypeOK, Rate!UniformExact
    <2>5. CASE /\ rates.status \notin {"pending", "refused"} /\ rateCall.distributor
               /\ rateCall.perBackend \/ rateCall.backends * rateCall.workers < Width
      <3>1. rates = Rate!UniformShare(rateCall)
        BY <1>3, <2>5 DEF RateInv, Rate!Ended
      <3>2. PICK share :
               /\ SharedOut(rateCall, rates, share)
               /\ ~rateCall.perBackend =>
                     rateCall.rate = rateCall.backends * (share[1] * rateCall.workers)
        BY <2>1, <2>5, <3>1, UniformShares
      <3>3. /\ rates.rps \in [1 .. rateCall.backends -> 0 .. Width - 1]
            /\ \A i \in 1 .. rateCall.backends : Rate!Sent(i) = share[i] * rateCall.workers
        BY <1>3, <3>2, SharedOutSends, Zenon
      <3>4. Rate!Sent(1) = share[1] * rateCall.workers
        BY <2>2, <3>3
      <3>5. Rate!Compiled
        BY <3>2 DEF SharedOut, Rate!Compiled
      <3> QED BY <2>1, <2>5, <3>2, <3>3, <3>4, <3>5, Zenon
              DEF Rate!TypeOK, Rate!SharesEven, Rate!UniformExact
    <2>6. CASE /\ rates.status \notin {"pending", "refused"} /\ rateCall.distributor
               /\ ~(rateCall.perBackend \/ rateCall.backends * rateCall.workers < Width)
      <3>1. rates = Rate!UniformShare(rateCall)
        BY <1>3, <2>6 DEF RateInv, Rate!Ended
      <3>2. rates.status = "ok" => rates.rps \in [1 .. rateCall.backends -> 0 .. Width - 1]
        BY <2>1, <3>1, UniformTyped, Zenon
      <3> QED BY <2>1, <2>6, <3>2, Zenon
              DEF Rate!TypeOK, Rate!SharesEven, Rate!UniformExact, Rate!Compiled
    <2> QED BY <2>3, <2>4, <2>5, <2>6, Zenon
  <1> QED BY <1>1, <1>2, <1>3, PTL DEF PartsSpec

(***************************************************************************)
(* The parts with proofs of their own                                      *)
(***************************************************************************)
FileP == INSTANCE ResultsStreamProofs
CallP == INSTANCE ExecuteCallProofs WITH cause <- callCause, caller <- callCaller

\* The file of the parts is the one ResultsStreamProofs is about.
LEMMA FileSame ==
    /\ File!Init => FileP!Init
    /\ [File!Next]_(File!vars) => [FileP!Next]_(FileP!vars)
    /\ FileP!TypeOK /\ FileP!NoLineJoined /\ FileP!WrittenIsLine =>
         File!TypeOK /\ File!NoLineJoined /\ File!WrittenIsLine
  <1>1. File!Init => FileP!Init
    BY DEF File!Init, FileP!Init
  <1>2. File!Next => FileP!Next
    BY Zenon DEF File!NL, FileP!NL, File!Record, FileP!Record, File!EndsMidLine,
       FileP!EndsMidLine, File!OpenStream, FileP!OpenStream, File!Line, FileP!Line,
       File!TornAfter, FileP!TornAfter, File!Sync, FileP!Sync, File!Written, FileP!Written,
       File!WriteFails, FileP!WriteFails, File!Close, FileP!Close, File!Dies, FileP!Dies,
       File!NodeGoes, FileP!NodeGoes, File!Next, FileP!Next
  <1>3. UNCHANGED File!vars => UNCHANGED FileP!vars
    BY DEF File!vars, FileP!vars
  <1>4. FileP!TypeOK => File!TypeOK
    BY DEF File!TypeOK, FileP!TypeOK, File!NL, FileP!NL
  <1>5. FileP!NoLineJoined => File!NoLineJoined
    BY Zenon DEF File!NoLineJoined, FileP!NoLineJoined, File!NL, FileP!NL
  <1>6. FileP!WrittenIsLine => File!WrittenIsLine
    BY Zenon DEF File!WrittenIsLine, FileP!WrittenIsLine, File!IsLine, FileP!IsLine,
           File!Record, FileP!Record, File!NL, FileP!NL
  <1> QED BY <1>1, <1>2, <1>3, <1>4, <1>5, <1>6

\* However many runs append to the file, whichever writes fail or are cut off by a death after any
\* of their pieces, and whatever unsynced end a node takes with it: no line is made of two records
\* and a record that was written is a line of its own.
THEOREM RecordsAreLinesHolds == PartsSpec => []RecordsAreLines
  <1>1. PartsInit => FileP!FileInv
    BY FileP!FileInit, FileSame, FileBounds DEF PartsInit, FileP!Bounds
  <1>2. FileP!FileInv /\ [PartsNext]_partsVars => FileP!FileInv'
    BY FileP!FileNext, FileSame, PartsSteps
  <1>3. FileP!FileInv => RecordsAreLines
    BY FileP!LinesAre, FileSame DEF FileP!FileInv, RecordsAreLines
  <1> QED BY <1>1, <1>2, <1>3, PTL DEF PartsSpec

\* The call of the parts is the one ExecuteCallProofs is about.
LEMMA CallSame ==
    /\ Call!Init => CallP!Init
    /\ [Call!Next]_(Call!vars) => [CallP!Next]_(CallP!vars)
    /\ CallP!TypeOK /\ CallP!ArrivedInTimeIsReturned /\ CallP!NothingLeftRunning =>
         Call!TypeOK /\ Call!ArrivedInTimeIsReturned /\ Call!NothingLeftRunning
  <1>1. Call!Init => CallP!Init
    BY DEF Call!Init, CallP!Init
  <1>2. Call!Next => CallP!Next
    BY Zenon DEF Call!Range, CallP!Range, Call!clientVars, CallP!clientVars,
       Call!contextVars, CallP!contextVars, Call!serviceVars, CallP!serviceVars,
       Call!Answers, CallP!Answers, Call!Ends, CallP!Ends, Call!Goto, CallP!Goto,
       Call!Returned, CallP!Returned, Call!Arrived, CallP!Arrived, Call!CallerEnds,
       CallP!CallerEnds, Call!DeadlinePasses, CallP!DeadlinePasses, Call!clientFrame,
       CallP!clientFrame, Call!NotStarted, CallP!NotStarted, Call!SendStart,
       CallP!SendStart, Call!SendStartFails, CallP!SendStartFails, Call!Read, CallP!Read,
       Call!TakeFirst, CallP!TakeFirst, Call!ContextDone, CallP!ContextDone, Call!GraceOver,
       CallP!GraceOver, Call!SendCancel, CallP!SendCancel, Call!SendCancelFails,
       CallP!SendCancelFails, Call!CancelGraceOver, CallP!CancelGraceOver, Call!CloseSend,
       CallP!CloseSend, Call!Drain, CallP!Drain, Call!serviceFrame, CallP!serviceFrame,
       Call!Receive, CallP!Receive, Call!Send, CallP!Send, Call!Accept, CallP!Accept,
       Call!Refuse, CallP!Refuse, Call!WriteProgress, CallP!WriteProgress, Call!ReadCancel,
       CallP!ReadCancel, Call!Answer, CallP!Answer, Call!Throw, CallP!Throw, Call!EndStream,
       CallP!EndStream, Call!LoseConnection, CallP!LoseConnection, Call!Execute,
       CallP!Execute, Call!Service, CallP!Service, Call!Next, CallP!Next
  <1>3. UNCHANGED Call!vars => UNCHANGED CallP!vars
    BY DEF Call!vars, CallP!vars, Call!clientVars, CallP!clientVars, Call!contextVars,
           CallP!contextVars, Call!serviceVars, CallP!serviceVars
  <1>4. CallP!TypeOK => Call!TypeOK
    BY Zenon DEF Call!TypeOK, CallP!TypeOK, Call!Answers, CallP!Answers, Call!Ends,
        CallP!Ends
  <1>5. CallP!ArrivedInTimeIsReturned => Call!ArrivedInTimeIsReturned
    BY Zenon DEF Call!ArrivedInTimeIsReturned, CallP!ArrivedInTimeIsReturned
  <1>6. CallP!NothingLeftRunning => Call!NothingLeftRunning
    BY Zenon DEF Call!NothingLeftRunning, CallP!NothingLeftRunning, Call!Range,
        CallP!Range
  <1> QED BY <1>1, <1>2, <1>3, <1>4, <1>5, <1>6

\* The parts keep the call's invariant.
LEMMA CallInvHolds == PartsSpec => []CallP!CallInv
  <1>1. PartsInit => CallP!CallInv
    BY CallP!InitCallInv, CallSame DEF PartsInit
  <1>2. CallP!CallInv /\ [PartsNext]_partsVars => CallP!CallInv'
    BY CallP!NextCallInv, CallSame, PartsSteps
  <1> QED BY <1>1, <1>2, PTL DEF PartsSpec

\* Execute (client.go), with queues of any length: what the service said in time is what is
\* returned, a refusal included, and when it has returned, however it did, no service that can be
\* reached still runs the execution without having been asked to stop.
THEOREM NothingLostOrLeftHolds == PartsSpec => []NothingLostOrLeft
  <1>1. CallP!CallInv => NothingLostOrLeft
    BY CallP!CallInvSays, CallSame DEF NothingLostOrLeft
  <1> QED BY <1>1, CallInvHolds, PTL

\* Execute implements BackendCall: "ok" is returned for an execution that ran to its end and was
\* not cancelled, a *BusyError for one that was refused, and a cancellation only when the context
\* had ended (client.go).
THEOREM ImplementsCallHolds == PartsSpec => ImplementsCall
  <1>1. PartsInit => Call!Call!Init
    BY DEF PartsInit, Call!Init, Call!Call!Init
  <1>2. CallP!CallInv /\ [PartsNext]_partsVars =>
          [Call!Call!EndContext \/ Call!Call!Settle \/ Call!Call!Return]_
              <<callCause # "none", outcome, result>>
    <2> SUFFICES ASSUME CallP!CallInv, [PartsNext]_partsVars
                 PROVE  [Call!Call!EndContext \/ Call!Call!Settle \/ Call!Call!Return]_
                            <<callCause # "none", outcome, result>>
      OBVIOUS
    <2>1. [CallP!Call!EndContext \/ CallP!Call!Settle \/ CallP!Call!Return]_
              <<callCause # "none", outcome, result>>
      BY CallP!StepAllowed, CallSame, PartsSteps
    <2> QED BY <2>1, Zenon DEF Call!Call!EndContext, CallP!Call!EndContext,
           Call!Call!Settle, CallP!Call!Settle, Call!Call!Outcomes, CallP!Call!Outcomes,
           Call!Call!Return, CallP!Call!Return, Call!Call!Results, CallP!Call!Results,
           Call!Call!MayReturn, CallP!Call!MayReturn
  <1> QED BY <1>1, <1>2, CallInvHolds, PTL
          DEF PartsSpec, ImplementsCall, Call!ImplementsCall, Call!Call!Spec
=============================================================================
