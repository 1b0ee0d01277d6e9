-------------------------- MODULE BackendDeadline --------------------------
(***************************************************************************)
(* Runner.backendDeadline: how long a backend has to answer, summed in      *)
(* int64 nanoseconds from the planned duration, the waits the engine was    *)
(* asked for and the grace.  One call, so a state is a call and its result. *)
(***************************************************************************)
EXTENDS Integers

CONSTANTS
  MaxInt64,   \* the largest duration
  Durations,  \* the durations a plan may carry
  None        \* an option that is not set

VARIABLES
  call,     \* duration, timeout, the drain windows of the modes, grace
  deadline  \* the result, None before

vars == <<call, deadline>>

responseGrace == 2
engineTimeout == 1
engineDrain == 1

Optional == Durations \union {None}

Calls == [duration : Durations, timeout : Optional, grpcStream : Optional,
          websocket : Optional, tcp : Optional, udp : Optional, grace : Durations]

AddDuration(a, b) ==
  IF b <= 0 THEN a ELSE IF a > MaxInt64 - b THEN MaxInt64 ELSE a + b

Default(set, default) == IF set = None THEN default ELSE set

AddSet(a, set) == IF set = None THEN a ELSE AddDuration(a, set)

\* The modes' windows as set, or the longest default.
AddWindows(a, c) ==
  IF {c.grpcStream, c.websocket, c.tcp, c.udp} = {None} THEN AddDuration(a, engineDrain)
  ELSE AddSet(AddSet(AddSet(AddSet(a, c.grpcStream), c.websocket), c.tcp), c.udp)

Grace(c) == IF c.grace <= 0 THEN responseGrace ELSE c.grace

Budget(c) ==
  AddDuration(AddWindows(AddDuration(c.duration, Default(c.timeout, engineTimeout)), c), Grace(c))

Init == call \in Calls /\ deadline = None

Compute ==
  /\ deadline = None
  /\ deadline' = Budget(call)
  /\ UNCHANGED call

Next == Compute

Spec == Init /\ [][Next]_vars

----------------------------------------------------------------------------
TypeOK == call \in Calls /\ deadline \in (0 .. MaxInt64) \union {None}

\* The waits the engine may do at the end: in the windows that are set, or its default.
Drains(c) ==
  LET set == {c.grpcStream, c.websocket, c.tcp, c.udp} \ {None}
  IN  IF set = {} THEN {engineDrain} ELSE set

\* A deadline is in the past for no plan: it leaves the backend its duration, the
\* timeout, every drain window it was asked for (one runs at a time, and the
\* defaults are not zero) and the grace, or else it is the longest there is.
LeavesTimeForWaits ==
  deadline # None =>
    \/ deadline = MaxInt64
    \/ \A drain \in Drains(call) :
          deadline >= call.duration + Default(call.timeout, engineTimeout) + drain + Grace(call)

============================================================================
