------------------------------ MODULE MCEngine ------------------------------
(***************************************************************************)
(* The engine's process for TLC: the threads of an execution and the       *)
(* handling of signals, side by side. They share no state, so a behaviour  *)
(* is one of a single part, which is chosen at the start; the other stays  *)
(* as it is at first.                                                      *)
(***************************************************************************)
EXTENDS ProcessLifecycle, TLC

CONSTANT Arrivals
ASSUME FiniteArrivals == IsFiniteSet(Arrivals)

VARIABLES
    part,
    mainThread, thread, arrival, installed, delegate, destructing, readEnd, writeEnd, sized,
    bytes, calls, fate

signalVars ==
    <<mainThread, thread, arrival, installed, delegate, destructing, readEnd, writeEnd, sized,
      bytes, calls, fate>>

Signal == INSTANCE SignalHandler WITH main <- mainThread

\* Workers and signals are interchangeable.
Symmetry == Permutations(Workers) \cup Permutations(Arrivals)

PartsInit ==
    /\ part \in {"process", "signal"}
    /\ Init
    /\ Signal!Init

ProcessStep == part = "process" /\ Next /\ UNCHANGED <<part, signalVars>>
SignalStep == part = "signal" /\ Signal!Next /\ UNCHANGED <<part, vars>>

PartsNext == ProcessStep \/ SignalStep

partsVars == <<part, vars, signalVars>>

PartsSpec == PartsInit /\ [][PartsNext]_partsVars

-----------------------------------------------------------------------------
\* SignalHandler: signals are handled until the destructor, the callback is over before what it
\* refers to is gone, and while it runs a second signal has its default action.
SignalsInStep == Signal!SignalsInStep
=============================================================================
