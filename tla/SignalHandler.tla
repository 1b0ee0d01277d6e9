--------------------------- MODULE SignalHandler ---------------------------
(***************************************************************************)
(* SignalHandler around a run of the command line client: the main thread  *)
(* runs, shuts down and destroys the handler; signals arrive on any thread *)
(* and run the handler there; the shutdown thread waits for the pipe and   *)
(* calls back. pipe_fds_ is shared without a lock.                         *)
(***************************************************************************)
EXTENDS Naturals, FiniteSets

CONSTANTS
    Arrivals  \* bound: the signals that arrive

Kinds == {"SIGTERM", "SIGINT"}

VARIABLES
    main,        \* where Main::run is
    thread,      \* where the shutdown thread is
    arrival,     \* where the handler of each signal is
    installed,   \* the signals whose disposition is signal_handler
    delegate,    \* signal_handler_delegate is set
    destructing, \* destructing_
    readEnd, writeEnd, \* the ends of the pipe are open
    sized,       \* pipe_fds_.size() == 2
    bytes,       \* writes not read yet
    calls,       \* how often the callback was called
    fate         \* of the process

pipe == <<readEnd, writeEnd, sized, bytes>>
vars == <<main, thread, arrival, installed, delegate, destructing, pipe, calls, fate>>

Alive == fate = "alive"

TypeOK ==
    /\ main \in {"run", "shutdown", "destroy", "restore", "wake", "write", "join", "clear", "done"}
    /\ thread \in {"read", "closeRead", "closeWrite", "forget", "check", "restore",
                   "call", "calling", "exited"}
    /\ arrival \in [Arrivals -> {"none", "entered", "found", "open", "done"}]
    /\ installed \subseteq Kinds
    /\ {delegate, destructing, readEnd, writeEnd, sized} \subseteq BOOLEAN
    /\ bytes \in 0 .. Cardinality(Arrivals) + 1 /\ calls \in 0 .. 1
    /\ fate \in {"alive", "default action", "write failed", "empty delegate"}

TakenOver == Kinds

\* The constructor has run.
Init ==
    /\ main = "run" /\ thread = "read" /\ arrival = [a \in Arrivals |-> "none"]
    /\ installed = TakenOver /\ delegate = TRUE /\ destructing = FALSE
    /\ readEnd = TRUE /\ writeEnd = TRUE /\ sized = TRUE /\ bytes = 0
    /\ calls = 0 /\ fate = "alive"

\* The write of initiateShutdown(), which is asserted to succeed: with the write end closed it
\* fails, with the read end closed it raises SIGPIPE.
WriteToPipe ==
    /\ IF readEnd /\ writeEnd
       THEN bytes' = bytes + 1 /\ UNCHANGED fate
       ELSE fate' = "write failed" /\ UNCHANGED bytes
    /\ UNCHANGED <<readEnd, writeEnd, sized>>

(***************************************************************************)
(* A signal                                                                *)
(***************************************************************************)
Arrive(a, kind) ==
    /\ Alive /\ arrival[a] = "none" /\ main # "done"
    /\ IF kind \in installed
       THEN arrival' = [arrival EXCEPT ![a] = "entered"] /\ UNCHANGED fate
       ELSE fate' = "default action" /\ UNCHANGED arrival
    /\ UNCHANGED <<main, thread, installed, delegate, destructing, pipe, calls>>

FindDelegate(a) ==
    /\ arrival[a] = "entered"
    /\ arrival' = [arrival EXCEPT ![a] = IF delegate THEN "found" ELSE "done"]
    /\ UNCHANGED <<main, thread, installed, delegate, destructing, pipe, calls, fate>>

\* The delegate is called: onSignal() looks at the size of pipe_fds_.
CallDelegate(a) ==
    /\ arrival[a] = "found"
    /\ IF ~delegate
       THEN fate' = "empty delegate" /\ UNCHANGED arrival
       ELSE arrival' = [arrival EXCEPT ![a] = IF sized THEN "open" ELSE "done"] /\ UNCHANGED fate
    /\ UNCHANGED <<main, thread, installed, delegate, destructing, pipe, calls>>

SignalWrites(a) ==
    /\ arrival[a] = "open"
    /\ arrival' = [arrival EXCEPT ![a] = "done"]
    /\ WriteToPipe
    /\ UNCHANGED <<main, thread, installed, delegate, destructing, calls>>

(***************************************************************************)
(* The shutdown thread                                                     *)
(***************************************************************************)
Read ==
    /\ thread = "read" /\ bytes > 0
    /\ thread' = "closeRead" /\ bytes' = bytes - 1
    /\ UNCHANGED <<main, arrival, installed, delegate, destructing, readEnd, writeEnd, sized,
                   calls, fate>>

Close ==
    /\ \/ /\ thread = "closeRead" /\ thread' = "closeWrite"
          /\ readEnd' = FALSE /\ UNCHANGED <<writeEnd, sized>>
       \/ /\ thread = "closeWrite" /\ thread' = "forget"
          /\ writeEnd' = FALSE /\ UNCHANGED <<readEnd, sized>>
       \/ /\ thread = "forget" /\ thread' = "check"
          /\ sized' = FALSE /\ UNCHANGED <<readEnd, writeEnd>>
    /\ UNCHANGED <<main, arrival, installed, delegate, destructing, bytes, calls, fate>>

\* Fault: the flag of the destructor is not looked at.
WantedAlways == TRUE
Wanted == ~destructing

Check ==
    /\ thread = "check"
    /\ thread' = IF Wanted THEN "restore" ELSE "exited"
    /\ UNCHANGED <<main, arrival, installed, delegate, destructing, pipe, calls, fate>>

Restored == installed' = installed \ {IF "SIGTERM" \in installed THEN "SIGTERM" ELSE "SIGINT"}

AfterRestore == IF installed = Kinds THEN "restore" ELSE "call"

\* The dispositions go back one after the other, then the callback is called.
RestoreThenCall ==
    /\ \/ thread = "restore" /\ Restored /\ thread' = AfterRestore
       \/ thread = "call" /\ thread' = "calling" /\ UNCHANGED installed
    /\ calls' = IF thread = "call" THEN calls + 1 ELSE calls
    /\ UNCHANGED <<main, arrival, delegate, destructing, pipe, fate>>

AfterCallback == "exited"

CallbackReturns ==
    /\ thread = "calling" /\ thread' = AfterCallback
    /\ UNCHANGED <<main, arrival, installed, delegate, destructing, pipe, calls, fate>>

(***************************************************************************)
(* The main thread                                                         *)
(***************************************************************************)
RunAndShutDown ==
    /\ \/ main = "run" /\ main' = "shutdown"
       \/ main = "shutdown" /\ main' = "destroy"
    /\ UNCHANGED <<thread, arrival, installed, delegate, destructing, pipe, calls, fate>>

Wakes == sized

Joined == thread = "exited"

Destroy ==
    \/ /\ main = "destroy" /\ main' = "restore" /\ destructing' = TRUE
       /\ UNCHANGED <<installed, delegate, pipe, fate>>
    \/ /\ main = "restore" /\ main' = "wake" /\ installed' = {}
       /\ UNCHANGED <<delegate, destructing, pipe, fate>>
    \/ /\ main = "wake" /\ main' = IF Wakes THEN "write" ELSE "join"
       /\ UNCHANGED <<installed, delegate, destructing, pipe, fate>>
    \/ /\ main = "write" /\ main' = "join" /\ WriteToPipe
       /\ UNCHANGED <<installed, delegate, destructing>>
    \/ /\ main = "join" /\ Joined /\ main' = "clear"
       /\ UNCHANGED <<installed, delegate, destructing, pipe, fate>>
    \/ /\ main = "clear" /\ main' = "done" /\ delegate' = FALSE
       /\ UNCHANGED <<installed, destructing, pipe, fate>>

MainThread == Alive /\ RunAndShutDown
Destructor == Alive /\ Destroy /\ UNCHANGED <<thread, arrival, calls>>
ShutdownThread == Alive /\ (Read \/ Close \/ Check \/ RestoreThenCall \/ CallbackReturns)
Handler(a) == Alive /\ (FindDelegate(a) \/ CallDelegate(a) \/ SignalWrites(a))

Next ==
    \/ MainThread \/ Destructor \/ ShutdownThread
    \/ \E a \in Arrivals : Handler(a) \/ \E kind \in Kinds : Arrive(a, kind)

Spec == Init /\ [][Next]_vars

\* Every thread runs. That a signal arrives, or that a run ends, is not assumed.
FairSpec ==
    /\ Spec
    /\ WF_vars(Destructor) /\ WF_vars(ShutdownThread)
    /\ \A a \in Arrivals : WF_vars(Handler(a))

(***************************************************************************)
(* Properties                                                              *)
(***************************************************************************)
\* When the callback runs a second signal already has its default action: the way out of a
\* shutdown that hangs.
EscalationInPlace == thread \in {"call", "calling"} => installed = {}

\* A signal is handled until the destructor, during shutdown() too: a first one by the
\* callback, any later one by its default action.
HandledThroughShutdown ==
    main \in {"run", "shutdown"} /\ installed # Kinds =>
        thread \in {"restore", "call", "calling", "exited"}

\* No signal, no callback: the wake-up of the destructor is not taken for one.
NoSignalNoCallback == calls > 0 => \E a \in Arrivals : arrival[a] # "none"

\* The callback is over before the handler, and what it refers to, is gone.
CallbackInScope == main \in {"clear", "done"} => thread = "exited" /\ installed = {}

\* A first signal leads to the callback or, in time, to nothing; a second one to the end.
SignalsInStep ==
    /\ TypeOK /\ EscalationInPlace /\ HandledThroughShutdown
    /\ NoSignalNoCallback /\ CallbackInScope
=============================================================================
