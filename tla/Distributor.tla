---------------------------- MODULE Distributor ----------------------------
(***************************************************************************)
(* nh.DistributePartial: one request to a distributor, which runs it on the *)
(* pool's targets and streams back their answers.  The distributor is not   *)
(* trusted: it may answer twice for a target, for one nobody asked for, not *)
(* at all, under another spelling of an address, and break off.             *)
(***************************************************************************)
EXTENDS Naturals, Sequences

CONSTANTS
  Addresses,    \* canonical addresses
  Spellings,    \* how an address may be written
  Pools,        \* the plans' targets: sequences of [addr, spelling]
  MaxAnswers    \* bound: answers the distributor sends

VARIABLES
  targets,   \* the pool
  state,     \* "sending", "receiving", "returned", "error"
  answered,  \* who was heard from, and with what
  names,     \* who answered with an output
  failed,    \* the targets reported as failed, and why; in no order here
  broken     \* streamErr

vars == <<targets, state, answered, names, failed, broken>>

Names == [addr : Addresses, spelling : Spellings]

\* An answer: an error of the distributor, the refusal of a target at its cap,
\* or a response, with or without results and an error of its own.
Kinds == {"error", "busy", "output", "output and error", "no results", "no results and error"}
Answers == [name : Names, kind : Kinds]
Reasons == {"error", "busy", "detail", "no results", "no result", "stream"}

TypeOK ==
  /\ targets \in Pools
  /\ state \in {"sending", "receiving", "returned", "error"}
  /\ answered \in Seq(Answers) /\ Len(answered) <= MaxAnswers
  /\ names \in Seq(Names)
  /\ failed \subseteq [target : Names, why : Reasons]
  /\ broken \in BOOLEAN

Init ==
  /\ targets \in Pools /\ state = "sending"
  /\ answered = <<>> /\ names = <<>> /\ failed = {}
  /\ broken = FALSE

\* The request is sent, or could not be.
Send ==
  /\ state = "sending"
  /\ state' \in {"receiving", "error"}
  /\ UNCHANGED <<targets, answered, names, failed, broken>>

\* Fault: an answer without results is passed over.
FailureOfSilent(kind) ==
  CASE kind = "error" -> {"error"} [] kind = "busy" -> {"busy"}
    [] kind \in {"output and error", "no results and error"} -> {"detail"}
    [] OTHER -> {}

\* What an answer says its target failed of.
FailureOf(kind) ==
  CASE kind = "error" -> {"error"} [] kind = "busy" -> {"busy"}
    [] kind \in {"output and error", "no results and error"} -> {"detail"}
    [] kind = "no results" -> {"no results"}
    [] OTHER -> {}

Recv(a) ==
  /\ state = "receiving" /\ Len(answered) < MaxAnswers
  /\ answered' = Append(answered, a)
  /\ failed' = failed \union {[target |-> a.name, why |-> w] : w \in FailureOf(a.kind)}
  /\ names' = IF a.kind \in {"output", "output and error"} THEN Append(names, a.name) ELSE names
  /\ UNCHANGED <<targets, state, broken>>

Canonical(name) == name.addr

\* Those of the answers that are counted as the target's.
AnswersOf(name) == {i \in DOMAIN answered : Canonical(answered[i].name) = Canonical(name)}

\* matchTargets: answers that cannot be attributed, and the targets without one.
Unattributable ==
  \/ \E t \in DOMAIN targets : \E i, j \in AnswersOf(targets[t]) : i # j
  \/ \E i \in DOMAIN answered : \A t \in DOMAIN targets : i \notin AnswersOf(targets[t])

Missing == {targets[t] : t \in {t \in DOMAIN targets : AnswersOf(targets[t]) = {}}}

\* The stream ends or breaks.
Finish(breaks) ==
  /\ state = "receiving"
  /\ broken' = breaks
  /\ IF Unattributable
       THEN state' = "error" /\ names' = <<>> /\ failed' = {}
       ELSE /\ state' = "returned"
            /\ failed' = failed \union
                 {[target |-> t, why |-> IF breaks THEN "stream" ELSE "no result"] : t \in Missing}
            /\ UNCHANGED names
  /\ UNCHANGED <<targets, answered>>

Next ==
  \/ Send
  \/ \E a \in Answers : Recv(a)
  \/ \E breaks \in BOOLEAN : Finish(breaks)

Spec == Init /\ [][Next]_vars

----------------------------------------------------------------------------
Has(t, s) == \E i \in DOMAIN s : s[i].addr = t.addr
HasFailed(t) == \E f \in failed : f.target.addr = t.addr

\* When results are returned, every target of the pool is accounted for: by one
\* output, or by a failure that keeps the execution from passing, and all that
\* is returned is of the pool.
EveryTargetAccounted ==
  state = "returned" =>
    /\ \A i \in DOMAIN targets : Has(targets[i], names) \/ HasFailed(targets[i])
    /\ \A i \in DOMAIN names : Has(names[i], targets)
    /\ \A i, j \in DOMAIN names : names[i].addr = names[j].addr => i = j

\* One target's failure does not cost the others their results: when no target
\* answered twice and no stranger did, every output that arrived is returned,
\* broken stream or not.
OthersKept ==
  /\ state = "returned" =>
       \A i \in DOMAIN answered : answered[i].kind \in {"output", "output and error"} => Has(answered[i].name, names)
  /\ state = "error" /\ answered # <<>> =>
       \/ \E i, j \in DOMAIN answered : i # j /\ answered[i].name.addr = answered[j].name.addr
       \/ \E i \in DOMAIN answered : ~Has(answered[i].name, targets)
============================================================================
