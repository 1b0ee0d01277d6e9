----------------------------- MODULE OptionsCli -----------------------------
(***************************************************************************)
(* The options of a run as nighthawk_client takes them from its command    *)
(* line, sends them to a service and the service reads them; and as a      *)
(* service is sent them by another client. Arguments are a function from   *)
(* the flags that are set. A number that is too large stands for a         *)
(* negative one too, a duration below zero for one that cannot be parsed,  *)
(* and "bad" for a configuration that is not JSON of its kind.             *)
(***************************************************************************)
EXTENDS Options

CONSTANTS
    ArgvBases, Arguments,  \* command lines to start from, flag -> values that may be added
    Messages, Fields,      \* messages to start from, field -> values that may be added
    MaxAdded               \* bound: flags or fields that are added

VARIABLES phase, argv, added, sent, ours, opts, before
vars == <<phase, argv, added, sent, ours, opts, before>>

Set(a, f) == f \in DOMAIN a

(***************************************************************************)
(* OptionsImpl(argc, argv)                                                 *)
(***************************************************************************)
CliDefaults == [Defaults EXCEPT !.verbosity = "INFO", !.output_format = "HUMAN"]

FlagsConflict(a) ==
    \/ Set(a, "h2_use_multiple_connections") \/ (Set(a, "duration") /\ Set(a, "no_duration"))
    \/ Set(a, "stats_flush_interval") /\ Set(a, "stats_flush_interval_duration")
    \/ (Set(a, "stats_flush_interval") \/ Set(a, "stats_flush_interval_duration")) /\ ~Set(a, "stats_sinks")
    \/ Set(a, "h2") /\ Set(a, "protocol")

\* The flags that become the field of their name.
Taken == (Copied \cup {"duration", "tcp_connections", "tcp_max_inflight", "tcp_max_messages",
            "udp_max_inflight", "udp_timeout", "streams", "max_inflight_per_stream",
            "stream_drain_duration", "grpc_mode", "websocket", "websocket_binary", "h2",
            "request_headers", "request_body_size", "request_body", "request_source",
            "multi_target_path", "multi_target_use_https", "multi_target_endpoints",
            "no_duration", "stats_flush_interval", "stats_flush_interval_duration", "jitter_uniform"})

TakeFlags(a) ==
    LET o == [f \in Taken |-> Get(a, f, CliDefaults[f])] @@ CliDefaults
        target == Get(a, "uri", "")
    IN  [o EXCEPT !.uri = target, !.tcp = isTcpUri(target), !.udp = isUdpUri(target),
                  !.tcp_expect_echo = ~Get(a, "tcp_no_echo", FALSE)]

TakeProtocol(a, o) ==
    [o EXCEPT !.protocol = IF Set(a, "protocol") THEN a["protocol"]
                           ELSE IF grpcEnabled(o) /\ ~Set(a, "h2") THEN "HTTP2" ELSE @,
              !.request_method = IF Set(a, "request_method") THEN a["request_method"]
                                 ELSE IF grpcEnabled(o) THEN "POST" ELSE @]
Http3Conflict(a, o) ==
    Set(a, "http3_protocol_options") /\ (o.protocol # "HTTP3" \/ Set(a, "max_concurrent_streams"))

parsePredicates(a, f, predicates) == Get(a, f, predicates)
\* The default predicates go when predicates are given, or none are wanted.
TakePredicates(a, o) ==
    [o EXCEPT !.failure_predicates =
        parsePredicates(a, "failure_predicates", IF o.no_default_failure_predicates THEN <<>> ELSE @)]

TakePending(a, o) == raisePendingRequestsForStreams(o)

\* A predicate without a threshold, a duration below zero, an endpoint without a port.
Malformed(a) ==
    \/ \E f \in {"failure_predicates", "termination_predicates"} : Set(a, f) /\ "" \in DOMAIN a[f]
    \/ \E f \in {"udp_timeout", "stream_drain_duration", "jitter_uniform",
                 "stats_flush_interval_duration"} : Set(a, f) /\ a[f] < 0
    \/ Set(a, "multi_target_endpoints") /\ "bad" \in Range(a["multi_target_endpoints"])
    \/ Set(a, "stats_sinks") /\ "bad" \in Range(a["stats_sinks"])

\* A file that cannot be opened or read, or that is too long.
BodyFileOk(a) == Get(a, "request_body", "") # "bad"

TooLarge(o) ==
    \/ \E f \in {"requests_per_second", "connections", "duration", "timeout", "request_body_size",
                 "burst_size", "max_pending_requests", "max_active_requests",
                 "max_requests_per_connection", "stats_flush_interval"} : o[f] > LargestUint32
    \/ o.max_concurrent_streams > LargestStreams

CliConfigs == (Configs \ {"scheduled_start", "execution_id"}) \cup {"request_source_plugin_config", "tunnel_tls_context"}
TakeConfigs(a, o) == [f \in CliConfigs |-> Get(a, f, "")] @@ o

PluginConflict(a) ==
    Set(a, "rate_limiter_plugin_config") /\ (Set(a, "burst_size") \/ Set(a, "jitter_uniform"))
ConfigsConflict(a) ==
    \/ Set(a, "tls_context") /\ Set(a, "transport_socket")
    \/ Set(a, "request_source") /\ Set(a, "request_source_plugin_config")
    \/ PluginConflict(a)
    \/ \E f \in CliConfigs : Get(a, f, "") = "bad"
    \/ "bad" \in Range(Get(a, "user_defined_plugin_configs", <<>>))

TakeTunnel(a, o) ==
    IF ~Set(a, "tunnel_protocol") THEN o
    ELSE [o EXCEPT !.tunnel_protocol = a["tunnel_protocol"], !.tunnel_uri = Get(a, "tunnel_uri", ""),
                   !.encap_port = 1]
TunnelConflict(a, o) ==
    \/ Set(a, "tunnel_protocol") /\ ~Set(a, "tunnel_uri")
    \/ ~Set(a, "tunnel_protocol") /\ (Set(a, "tunnel_uri") \/ Set(a, "tunnel_tls_context"))
    \/ o.tunnel_protocol = "HTTP3" /\ ~Set(a, "tunnel_tls_context")
    \/ Set(a, "tunnel_protocol") /\ o.protocol = "HTTP3" /\ o.tunnel_protocol \in {"HTTP1", "HTTP3"}

FromArgv(a) ==
    LET flags == TakePredicates(a, TakeProtocol(a, TakeFlags(a)))
    IN  TakeTunnel(a, TakeConfigs(a, TakePending(a, flags)))
ArgvAccepted(a) ==
    LET o == FromArgv(a)
    IN  /\ ~FlagsConflict(a) /\ ~Malformed(a) /\ BodyFileOk(a) /\ ~Http3Conflict(a, o) /\ ~TooLarge(o)
        /\ ~ConfigsConflict(a) /\ ~TunnelConflict(a, o) /\ validate(o)

(***************************************************************************)
(* From one process to another                                             *)
(***************************************************************************)
Add ==
    /\ added < MaxAdded /\ added' = added + 1
    /\ \/ /\ phase = "arguments"
          /\ \E f \in DOMAIN Arguments \ DOMAIN argv : \E v \in Arguments[f] : argv' = argv @@ (f :> v)
          /\ UNCHANGED sent
       \/ /\ phase = "message" /\ ~ours
          /\ \E f \in DOMAIN Fields \ DOMAIN sent : \E v \in Fields[f] : sent' = sent @@ (f :> v)
          /\ UNCHANGED argv
    /\ UNCHANGED <<phase, ours, opts, before>>

Parse ==
    /\ phase = "arguments"
    /\ IF ArgvAccepted(argv) THEN phase' = "options" /\ opts' = FromArgv(argv)
       ELSE phase' = "refused" /\ UNCHANGED opts
    /\ UNCHANGED <<argv, added, sent, ours, before>>

\* The client hands its options to a service.
Send ==
    /\ phase = "options" /\ ~ours
    /\ sent' = toCommandLineOptions(opts) /\ before' = opts
    /\ phase' = "message" /\ ours' = TRUE /\ argv' = <<>> /\ added' = 0 /\ opts' = Defaults

\* What MergeFrom does through an optional that is empty is undefined: the process may go on
\* without the context, or die.
Receive ==
    /\ phase = "message"
    /\ LET o == FromMessage(sent)
       IN  IF ~MessageConflicts(sent) /\ validate(o)
           THEN \/ phase' = "options" /\ opts' = o
                \/ "tunnel_options" \in DOMAIN sent /\ phase' = "crashed" /\ UNCHANGED opts
           ELSE phase' = "refused" /\ UNCHANGED opts
    /\ UNCHANGED <<argv, added, sent, ours, before>>

Init ==
    /\ added = 0 /\ ours = FALSE /\ opts = Defaults /\ before = Defaults
    /\ \/ phase = "arguments" /\ argv \in ArgvBases /\ sent = <<>>
       \/ phase = "message" /\ argv = <<>> /\ sent \in Messages

Next == Add \/ Parse \/ Send \/ Receive
Spec == Init /\ [][Next]_vars

(***************************************************************************)
(* Properties                                                              *)
(***************************************************************************)
TypeOK ==
    /\ phase \in {"arguments", "message", "options", "refused", "crashed"}
    /\ added \in 0 .. MaxAdded /\ ours \in BOOLEAN
    /\ DOMAIN opts = DOMAIN Defaults /\ DOMAIN before = DOMAIN Defaults
    /\ opts.max_pending_requests \in 0 .. LargestUint32

Made == phase = "options"


\* A worker has a place for each stream it opens at the start: the circuit breaker for requests
\* that wait and the one for requests that run hold its share, and the shares make up the whole.
StreamsFit ==
    Made /\ streamModeEnabled(opts) =>
        LET n == Stoi[opts.concurrency]  share == opts.streams \div n
        IN  /\ share > 0 /\ n * share = opts.streams /\ share <= opts.max_active_requests
            /\ n * (opts.requests_per_second \div n) = opts.requests_per_second

\* The comment on raisePendingRequestsForStreams: it "raises max_pending_requests_ to at least
\* the number of streams per worker so that opening all streams at once does not trip the
\* pending-request circuit breaker".
PendingHolds ==
    Made /\ streamModeEnabled(opts) =>
        opts.max_pending_requests >= opts.streams \div Stoi[opts.concurrency]

\* A gRPC call goes over HTTP/2 as a POST, whichever of the ways to say so was used.
GrpcIsHttp2 ==
    Made /\ grpcEnabled(opts) => protocol(opts) = "Http2" /\ opts.request_method = "POST"

\* A run has one kind of client, and the raw ones repeat the one message they are given.
OneKind ==
    Made => /\ Cardinality({k \in {"tcp", "udp", "websocket"} : opts[k]}) <= 1
            /\ opts.tcp \/ opts.udp \/ opts.websocket => ~grpcEnabled(opts)
            /\ opts.tcp \/ opts.udp => RequestMessage(opts) = [request_options |->
                 [request_method |-> "GET", request_body_size |-> opts.request_body_size,
                  request_headers |-> <<>>, request_body |-> opts.request_body]]

\* A rate limiter plugin is never given a burst or a jitter to go with it, which nothing would
\* apply.
PluginAlone ==
    Made /\ opts.rate_limiter_plugin_config # "" => opts.burst_size = 0 /\ opts.jitter_uniform = 0

\* A header keeps its name and its value on the way to a service, blanks and colons included;
\* the ones that are refused have no colon past their first character, or only blanks before it.
HeadersSurvive ==
    /\ Made /\ ours /\ opts.request_headers # <<>> =>
         \A i \in DOMAIN before.request_headers :
             HeaderOf(opts.request_headers[i]) = HeaderOf(before.request_headers[i])
    /\ phase = "refused" =>
         \A t \in Range(Get(argv, "request_headers", <<>>)) : \A i \in 2 .. Len(t) :
             t[i] = ":" /\ (\A j \in 2 .. i - 1 : t[j] # ":") => \A j \in 1 .. i - 1 : t[j] = " "
=============================================================================
