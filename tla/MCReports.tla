------------------------------ MODULE MCReports -----------------------------
(***************************************************************************)
(* What a run reports and what it is run against, for TLC, side by side:   *)
(* the statistics of the workers and their merging, the filters of the     *)
(* test server, and its WebSocket echo. They share no state: a behaviour   *)
(* is one of a single part, which is chosen at the start; the others stay  *)
(* as they are at first.                                                   *)
(***************************************************************************)
EXTENDS SequencesExt

CONSTANT None  \* no value

VARIABLES
    part,
    kinds, stats, seen,
    clock, chain, instances, stopwatch, first, req,
    wire, cut, got, ended, upgraded, closed, response, sent

statisticsVars == <<kinds, stats, seen>>
serverVars == <<clock, chain, instances, stopwatch, first, req>>
echoVars == <<wire, cut, got, ended, upgraded, closed, response, sent>>

\* A statistic of each kind, and two statistics, so that merging by position has something to mix
\* up.
Kinds ==
    {<<k>> : k \in {"simple", "streaming", "memory", "hdr", "circllhist"}} \cup {<<"hdr", "streaming">>}

\* The startup delay grows with the number of requests: half a millisecond each, rounded.
StartupConfig ==
    [delay |-> [kind |-> "linear", minimal |-> 0, factor |-> 500], echo |-> FALSE, emit |-> TRUE]
Shape(config, body, delay, echo) ==
    [config |-> config, body |-> body, delay |-> delay, echo |-> echo, emit |-> FALSE]
Static(us) == [kind |-> "static", minimal |-> us, factor |-> 0]
RequestShapes ==
    {Shape("absent", b, None, FALSE) : b \in {"none", "data", "trailers"}}
      \cup {Shape("good", b, Static(2000), TRUE) : b \in {"none", "data"}}
      \cup {Shape("good", "none", Static(999), TRUE)}
      \cup {Shape(c, "data", None, FALSE) : c \in {"malformed", "invalid"}}
      \cup {Shape("two", b, None, FALSE) : b \in {"none", "data"}}
FirstShape == Shape("absent", "none", None, FALSE)
FirstChain == <<"time", "delay", "test">>
FilterChains == {FirstChain, <<"delay", "time", "test">>}

\* Three workers; 5 is above a HdrStatistic's range.
Stats == INSTANCE Statistics
    WITH Workers <- 3, KindsInit <- Kinds, Values <- {1, 2, 5}, HdrMax <- 4, UintMax <- 99,
         MaxSamples <- 3
\* Two requests of any two shapes, in either order of the two filters before the test server.
Server == INSTANCE TestServer
    WITH Requests <- 1 .. 2, Shapes <- RequestShapes, Chains <- FilterChains,
         Startup <- StartupConfig, MaxTime <- 2
\* Whole frames, however batched ...
Echo == INSTANCE WebSocketEcho
    WITH Opcodes <- {"Text", "Ping", "Pong", "Close", "Bad"}, MaxFrames <- 3,
         CutFrames <- FALSE
\* ... and frames of which a part arrives first.
CutEcho == INSTANCE WebSocketEcho
    WITH Opcodes <- {"Text", "Ping", "Pong", "Close", "Bad"}, MaxFrames <- 3, CutFrames <- TRUE

PartsInit ==
    /\ part \in {"statistics", "server", "echo", "cut"}
    /\ Stats!Init /\ (part = "statistics" \/ kinds = <<"simple">>)
    /\ Server!Init /\ (part = "server" \/ (chain = FirstChain /\ \A r \in 1 .. 2 : req[r].shape = FirstShape))
    /\ (IF part = "cut" THEN CutEcho!Init ELSE Echo!Init) /\ (part \in {"echo", "cut"} \/ wire = <<>>)

StatisticsStep == part = "statistics" /\ Stats!Next /\ UNCHANGED <<part, serverVars, echoVars>>
ServerStep == part = "server" /\ Server!Next /\ UNCHANGED <<part, statisticsVars, echoVars>>
EchoStep == part = "echo" /\ Echo!Next /\ UNCHANGED <<part, statisticsVars, serverVars>>
CutStep == part = "cut" /\ CutEcho!Next /\ UNCHANGED <<part, statisticsVars, serverVars>>

PartsNext ==
    \/ StatisticsStep \/ ServerStep \/ EchoStep \/ CutStep

partsVars == <<part, statisticsVars, serverVars, echoVars>>

PartsSpec == PartsInit /\ [][PartsNext]_partsVars

-----------------------------------------------------------------------------
\* Statistics: the report's are those of all samples, however they are spread over the workers; a
\* snapshot has the samples of exactly the workers that answered in time, and its summaries say
\* what copies would; one that is read back answers, and goes on answering, as the original; and
\* what is reported of a distribution, an empty one too, is coherent.
MergedIsWhole ==
    part = "statistics" =>
       /\ Stats!TypeOK /\ Stats!MergedIsWhole /\ Stats!SnapshotIsWhole /\ Stats!SummariesExact
       /\ Stats!RestoredIsSame /\ Stats!ReportCoherent

=============================================================================
