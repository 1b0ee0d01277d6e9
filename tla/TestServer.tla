----------------------------- MODULE TestServer -----------------------------
(***************************************************************************)
(* The HTTP filters of the test server (source/server): time-tracking,      *)
(* dynamic-delay and test-server, run in the order of a chain for every     *)
(* request, with what they share between requests on different threads: the *)
(* count of dynamic-delay instances and the stopwatch.                      *)
(*                                                                          *)
(* A request is its shape: how its x-nighthawk-test-server-config header    *)
(* fares and what it asks for, and what follows the headers.  Envoy's       *)
(* filter manager and fault filter are external: a filter that pauses on    *)
(* headers is resumed with the rest of the chain, and what arrived          *)
(* meanwhile, once the delay is over.  Time is counted in milliseconds.     *)
(***************************************************************************)
EXTENDS Integers, FiniteSetsExt, SequencesExt

CONSTANTS
    Requests,      \* requests of one run
    Shapes,        \* records: config, body, delay, echo, emit
    Chains,        \* orders of the filters
    Startup,       \* the filters' own configuration: delay, echo, emit
    None,          \* no value
    MaxTime        \* bound: the clock

VARIABLES
    clock,
    chain,         \* the order of the filters in this server
    instances,     \* HttpDynamicDelayDecoderFilterConfig::instances()
    stopwatch,     \* start_ of the stopwatch, None before its first use
    first,         \* when the stopwatch was first used (history)
    req            \* the requests

vars == <<clock, chain, instances, stopwatch, first, req>>

NewRequest(q) ==
    [shape |-> q, phase |-> "new", delta |-> 0, configured |-> {}, until |-> None,
     got |-> 0, answers |-> <<>>]

Alive == {r \in Requests : req[r].phase \notin {"new", "gone"}}

---------------------------------------------------------------------------
(* The configuration a request runs with *)


(* computeEffectiveConfiguration of the dynamic-delay filter: a header that *)
(* does not parse is an error, and so is more than one                      *)
HeaderParses(q) == q.config \in {"absent", "good", "invalid"}

(* mergeJsonConfig also validates what the header says *)
Validates(q) == q.config # "invalid"

TimeUnderstands(q) == HeaderParses(q)
TestUnderstands(q) == HeaderParses(q) /\ Validates(q)

(* cherryPickDynamicDelayConfiguration: one of two kinds replaces the other *)
DelayOf(q) == IF q.config # "absent" /\ q.delay # None THEN q.delay ELSE Startup.delay

(* cherryPickTimeTrackingConfiguration *)
EmitOf(q) == Startup.emit \/ (q.config # "absent" /\ q.emit)

(* mergeJsonConfig: merged, so what is already set stays set *)
EchoOf(q) == Startup.echo \/ (q.config # "absent" /\ q.echo)

(* computeConcurrencyBasedLinearDelayMs, in microseconds and rounded *)
LinearDelayMs(n, d) == (2 * (d.minimal + n * d.factor) + 1000) \div 2000

(* computeDelayMs; 0 is no delay *)
ComputeDelayMs(d, n) ==
    CASE d = None -> 0
      [] d # None /\ d.kind = "static" -> d.minimal \div 1000
      [] OTHER -> LinearDelayMs(n, d)

---------------------------------------------------------------------------
(* What each filter makes of the headers and of data. "next" hands on to    *)
(* the following filter, "stop" does not, "pause" waits for the delay,      *)
(* "error" and "reply" answer the request.                                  *)

TimeTracking(q, end) == IF end /\ ~TimeUnderstands(q) THEN "error" ELSE "next"

DelayHeaders(q, end, n) ==
    IF HeaderParses(q)
    THEN IF ComputeDelayMs(DelayOf(q), n) > 0 THEN "pause" ELSE "next"
    ELSE IF end THEN "error" ELSE "next"

DelayData(q, end, paused) ==
    IF HeaderParses(q) THEN IF paused THEN "stop" ELSE "next"
    ELSE IF end THEN "error" ELSE "next"

TestServerFilter(q, end, headers) ==
    IF ~end THEN "stop" ELSE IF TestUnderstands(q) THEN "reply" ELSE "error"

OnHeaders(f, q, end) ==
    CASE f = "time" -> TimeTracking(q, end)
      [] f = "delay" -> DelayHeaders(q, end, instances)
      [] f = "test" -> TestServerFilter(q, end, TRUE)

OnData(f, q, end, paused) ==
    CASE f = "time" -> TimeTracking(q, end)
      [] f = "delay" -> DelayData(q, end, paused)
      [] f = "test" -> TestServerFilter(q, end, FALSE)

(* Where the chain, from position k on, does not hand on any more *)
Ends(k, outcome(_)) ==
    Min({i \in k .. Len(chain) : outcome(chain[i]) # "next"})

(* HttpTimeTrackingFilter::encodeHeaders, whose configuration is set only   *)
(* if the headers came as far as there                                      *)
EncodedDelta(x) ==
    IF "time" \in x.configured /\ TimeUnderstands(x.shape) /\ EmitOf(x.shape)
    THEN x.delta ELSE 0

(* validateOrSendError *)
SendError(x) == [code |-> 500, at |-> clock, delta |-> EncodedDelta(x), echo |-> FALSE]

(* sendReply, with the dump of the request headers if there is one *)
SendReply(x, dump) ==
    [code |-> 200, at |-> clock, delta |-> EncodedDelta(x), echo |-> dump /\ EchoOf(x.shape)]

Answer(x, outcome, dump) ==
    [x EXCEPT !.phase = "answered",
              !.answers = Append(@, IF outcome = "reply" THEN SendReply(x, dump) ELSE SendError(x))]

(* maybeRequestFaultFilterDelay: the fault filter pauses the request *)
RequestDelay(x) ==
    [x EXCEPT !.phase = "paused", !.until = clock + ComputeDelayMs(DelayOf(x.shape), instances)]

(* The headers go through the chain from position k *)
Headers(x, k) ==
    LET q == x.shape
        end == q.body = "none"
        i == Ends(k, LAMBDA f : OnHeaders(f, q, end))
        what == OnHeaders(chain[i], q, end)
        y == [x EXCEPT !.configured = @ \cup {chain[j] : j \in k .. i}]
    IN  CASE what = "stop" -> [y EXCEPT !.phase = "open"]
          [] what = "pause" -> RequestDelay(y)
          [] OTHER -> Answer(y, what, end)

(* The latest data goes through the chain from position k *)
Data(x, k, end, paused) ==
    LET q == x.shape
        i == Ends(k, LAMBDA f : OnData(f, q, end, paused))
        what == OnData(chain[i], q, end, paused)
    IN  IF what = "stop" THEN x ELSE Answer(x, what, FALSE)

---------------------------------------------------------------------------
(* Actions *)

Init ==
    /\ clock = 0
    /\ chain \in Chains
    /\ instances = 0
    /\ stopwatch = None /\ first = None
    /\ req \in {[r \in Requests |-> NewRequest(s[r])] : s \in [Requests -> Shapes]}

(* The filters of a request are constructed ... *)
Construct(r) ==
    /\ req[r].phase = "new"
    /\ instances' = instances + 1
    /\ req' = [req EXCEPT ![r].phase = "made"]
    /\ UNCHANGED <<clock, chain, stopwatch, first>>

Elapsed == IF stopwatch = None THEN 0 ELSE clock - stopwatch

Restart == clock

(* ... and given their callbacks, where the stopwatch is read *)
SetDecoderFilterCallbacks(r) ==
    /\ req[r].phase = "made"
    /\ req' = [req EXCEPT ![r].phase = "begun", ![r].delta = Elapsed]
    /\ stopwatch' = Restart
    /\ first' = IF first = None THEN clock ELSE first
    /\ UNCHANGED <<clock, chain, instances>>

DecodeHeaders(r) ==
    /\ req[r].phase = "begun"
    /\ req' = [req EXCEPT ![r] = Headers(@, 1)]
    /\ UNCHANGED <<clock, chain, instances, stopwatch, first>>

(* A body comes in two pieces; the second ends the request, unless trailers *)
(* do, which no filter acts on                                              *)
DecodeData(r) ==
    /\ req[r].phase \in {"open", "paused"}
    /\ req[r].shape.body # "none"
    /\ req[r].got < 2
    /\ LET x == [req[r] EXCEPT !.got = @ + 1]
           end == x.got = 2 /\ x.shape.body = "data"
       IN  req' = [req EXCEPT ![r] = Data(x, 1, end, x.phase = "paused")]
    /\ UNCHANGED <<clock, chain, instances, stopwatch, first>>

(* The fault filter's timer: the headers, then what was kept, go on *)
DelayOver(r) ==
    /\ req[r].phase = "paused"
    /\ clock >= req[r].until \/ clock = MaxTime   \* the clock stops, timers do not
    /\ LET k == SelectInSeq(chain, LAMBDA f : f = "delay") + 1
           y == Headers([req[r] EXCEPT !.until = None], k)
           end == y.got = 2 /\ y.shape.body = "data"
       IN  req' = [req EXCEPT ![r] =
                     IF y.phase = "open" /\ y.got > 0 THEN Data(y, k, end, FALSE) ELSE y]
    /\ UNCHANGED <<clock, chain, instances, stopwatch, first>>

Leaves == {"begun", "open", "paused", "answered"}

Decrement(r) == instances - 1

(* onDestroy: after the answer, or when the client goes away *)
OnDestroy(r) ==
    /\ req[r].phase \in Leaves
    /\ req' = [req EXCEPT ![r].phase = "gone"]
    /\ instances' = Decrement(r)
    /\ UNCHANGED <<clock, chain, stopwatch, first>>

Tick ==
    /\ clock < MaxTime
    /\ clock' = clock + 1
    /\ UNCHANGED <<chain, instances, stopwatch, first, req>>

Next ==
    \/ \E r \in Requests :
          \/ Construct(r) \/ SetDecoderFilterCallbacks(r) \/ DecodeHeaders(r)
          \/ DecodeData(r) \/ DelayOver(r) \/ OnDestroy(r)
    \/ Tick

Spec == Init /\ [][Next]_vars

(* The threads that serve the requests go on, timers fire and a client that *)
(* stays sends all of its request; that a client leaves is never assumed.   *)
FairSpec ==
    /\ Spec
    /\ WF_vars(Tick)
    /\ \A r \in Requests :
          WF_vars(SetDecoderFilterCallbacks(r) \/ DecodeHeaders(r) \/ DecodeData(r) \/ DelayOver(r))

---------------------------------------------------------------------------
(* Properties *)

(* Every variable has its range. *)
TypeOK ==
    /\ clock \in 0 .. MaxTime
    /\ instances \in 0 .. Cardinality(Requests)
    /\ stopwatch \in {None} \cup 0 .. clock
    /\ \A r \in Requests :
         /\ req[r].phase \in {"new", "made"} \cup Leaves \cup {"gone"}
         /\ req[r].delta \in 0 .. MaxTime
         /\ req[r].until # None => req[r].phase \in {"paused", "gone"}


(* approximateFilterInstances() is the number of requests in the server:    *)
(* none is left behind, whether it is answered or its client goes away      *)
(* while it waits. A delay that grows with the count would never shrink.    *)
InstancesAreRequests == instances = Cardinality(Alive)

(* The stopwatch's readings add up: the time between two requests is given  *)
(* to exactly one of them, however their threads interleave.                *)
DeltasAddUp ==
    first # None =>
       MapThenSumSet(LAMBDA r : req[r].delta, Requests) = stopwatch - first

(* A request whose end the filters see is answered, delayed or not, unless  *)
(* its client leaves. (One that ends with trailers is not: see README.)     *)
EveryRequestAnswered ==
    \A r \in Requests :
       req[r].phase = "begun" /\ req[r].shape.body # "trailers"
          ~> req[r].phase \in {"answered", "gone"}
=============================================================================
