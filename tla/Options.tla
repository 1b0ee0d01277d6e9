------------------------------ MODULE Options ------------------------------
(***************************************************************************)
(* OptionsImpl: the options of a run, the message they are sent in and the *)
(* checks both ways of making them share. Options and messages are         *)
(* functions from the names of the code's fields; a message has a field    *)
(* when it is in its domain. A URI, a configuration or a text is "" when   *)
(* there is none; durations are whole numbers of some unit; values that    *)
(* are only ever copied are left out of the checks.                        *)
(***************************************************************************)
EXTENDS Integers, Sequences, FiniteSetsExt, Functions, TLC

Get(m, f, d) == IF f \in DOMAIN m THEN m[f] ELSE d
Only(c, m) == IF c THEN m ELSE <<>>
AtLeast(a, b) == IF a < b THEN b ELSE a

\* largest_acceptable_uint32_option_value and largest_acceptable_concurrent_streams_value, scaled
\* down to above every other limit.
LargestUint32 == 6000000
LargestStreams == 5000000

\* std::stoi: a text that is not in the domain is an exception.
Stoi == [c \in {"0", "1", "2", "3"} |-> CASE c = "0" -> 0 [] c = "1" -> 1 [] c = "2" -> 2 [] c = "3" -> 3]

\* The fields whose value is copied into and out of the message as it is.
Copied == {"requests_per_second", "connections", "timeout", "concurrency", "verbosity", "output_format",
           "prefetch_connections", "burst_size", "address_family", "max_active_requests",
           "max_requests_per_connection", "max_concurrent_streams", "sequencer_idle_strategy",
           "trace", "experimental_h1_connection_reuse_strategy", "termination_predicates",
           "no_default_failure_predicates", "open_loop", "nighthawk_service", "labels",
           "simple_warmup", "stats_sinks", "latency_response_header_name",
           "user_defined_plugin_configs", "max_pending_requests"}

\* The fields a message has when there is something in them.
Configs == {"http3_protocol_options", "rate_limiter_plugin_config", "tls_context",
            "upstream_bind_config", "transport_socket", "scheduled_start", "execution_id"}

DefaultFailures ==
    [p \in {"http_4xx", "http_5xx", "pool_connection_failure", "stream_resets", "upstream_rq_5xx"} |-> 0]

Defaults ==
    [requests_per_second |-> 5, connections |-> 100, duration |-> 5, timeout |-> 30, uri |-> "",
     h2 |-> FALSE, protocol |-> "HTTP1", concurrency |-> "1", tunnel_protocol |-> "HTTP1",
     tunnel_uri |-> "", encap_port |-> 0, tunnel_tls_context |-> "", verbosity |-> "WARN",
     output_format |-> "JSON", prefetch_connections |-> FALSE, burst_size |-> 0,
     address_family |-> "AUTO", request_method |-> "GET", request_headers |-> <<>>,
     request_body_size |-> 0, request_body |-> "", grpc_mode |-> "NONE", websocket |-> FALSE,
     websocket_binary |-> FALSE, tcp |-> FALSE, tcp_connections |-> 1, tcp_max_inflight |-> 256,
     tcp_expect_echo |-> TRUE, tcp_max_messages |-> 0, udp |-> FALSE, udp_max_inflight |-> 256,
     udp_timeout |-> 1000, streams |-> 20, max_inflight_per_stream |-> 256,
     stream_drain_duration |-> 500, request_source |-> "", request_source_plugin_config |-> "",
     max_pending_requests |-> 0, max_active_requests |-> 100,
     max_requests_per_connection |-> LargestUint32, max_concurrent_streams |-> LargestStreams,
     sequencer_idle_strategy |-> "SPIN", trace |-> "",
     experimental_h1_connection_reuse_strategy |-> "MRU", termination_predicates |-> <<>>,
     failure_predicates |-> DefaultFailures, no_default_failure_predicates |-> FALSE,
     open_loop |-> FALSE, jitter_uniform |-> 0, nighthawk_service |-> "",
     h2_use_multiple_connections |-> FALSE, multi_target_endpoints |-> <<>>,
     multi_target_path |-> "", multi_target_use_https |-> FALSE, labels |-> <<>>,
     simple_warmup |-> FALSE, no_duration |-> FALSE, stats_sinks |-> <<>>,
     stats_flush_interval |-> 5, stats_flush_interval_duration |-> 0,
     latency_response_header_name |-> "", user_defined_plugin_configs |-> <<>>]
    @@ [c \in Configs |-> ""]

grpcEnabled(o) == o.grpc_mode # "NONE"
streamModeEnabled(o) == o.grpc_mode = "BIDI_STREAM" \/ o.websocket
protocol(o) ==
    IF o.h2 \/ o.protocol = "HTTP2" THEN "Http2" ELSE IF o.protocol = "HTTP3" THEN "Http3" ELSE "Http11"

isTcpUri(u) == u \in {"tcp", "tcps"}
isUdpUri(u) == u = "udp"

(***************************************************************************)
(* A header is a text, a sequence of characters, until it is in a message. *)
(***************************************************************************)
Trimmed(t) ==
    LET shown == {i \in DOMAIN t : t[i] # " "}
    IN  IF shown = {} THEN <<>> ELSE SubSeq(t, Min(shown), Max(shown))

\* Where a name may end: past the first character, which may be the colon of :authority.
Colons(h) == {i \in 2 .. Len(h) : h[i] = ":"}
Separator(h) == Min(Colons(h))
HeaderOf(h) == [key |-> Trimmed(SubSeq(h, 1, Separator(h) - 1)),
                value |-> Trimmed(SubSeq(h, Separator(h) + 1, Len(h)))]
TextOf(header) == header.key \o <<":">> \o header.value

(***************************************************************************)
(* toCommandLineOptionsInternal                                            *)
(***************************************************************************)
TargetMessage(o) ==
    (IF o.no_duration THEN [no_duration |-> TRUE] ELSE [duration |-> o.duration])
    @@ (IF o.h2 THEN [h2 |-> TRUE] ELSE [protocol |-> o.protocol])
    @@ (IF o.uri # "" THEN [uri |-> o.uri]
        ELSE [multi_target |-> [path |-> o.multi_target_path, use_https |-> o.multi_target_use_https,
                                endpoints |-> o.multi_target_endpoints]])

RequestMessage(o) ==
    IF o.request_source # "" THEN [request_source |-> o.request_source]
    ELSE IF o.request_source_plugin_config # ""
    THEN [request_source_plugin_config |-> o.request_source_plugin_config]
    ELSE [request_options |->
            [request_method |-> o.request_method, request_body_size |-> o.request_body_size,
             request_headers |-> [i \in DOMAIN o.request_headers |-> HeaderOf(o.request_headers[i])],
             request_body |-> o.request_body]]

StreamMessage(o) ==
    [streams |-> o.streams, max_inflight_per_stream |-> o.max_inflight_per_stream,
     drain_duration |-> o.stream_drain_duration]
ModeMessage(o) ==
    Only(grpcEnabled(o), [grpc_mode |-> o.grpc_mode])
    @@ Only(o.grpc_mode = "BIDI_STREAM", [grpc_stream |-> StreamMessage(o)])
    @@ Only(o.udp, [udp |-> [max_inflight |-> o.udp_max_inflight, timeout |-> o.udp_timeout]])
    @@ Only(o.tcp, [tcp |-> [connections |-> o.tcp_connections, expect_echo |-> o.tcp_expect_echo,
                             max_inflight_per_connection |-> o.tcp_max_inflight,
                             max_messages_per_connection |-> o.tcp_max_messages,
                             drain_duration |-> o.stream_drain_duration]])
    @@ Only(o.websocket, [websocket |-> [binary |-> o.websocket_binary] @@ StreamMessage(o)])

RestMessage(o) ==
    [f \in Copied |-> o[f]]
    @@ [f \in {c \in Configs : o[c] # ""} |-> o[f]]
    @@ [failure_predicates |-> o.failure_predicates]
    @@ Only(o.jitter_uniform > 0, [jitter_uniform |-> o.jitter_uniform])
    @@ (IF o.stats_flush_interval_duration > 0
        THEN [stats_flush_interval_duration |-> o.stats_flush_interval_duration]
        ELSE [stats_flush_interval |-> o.stats_flush_interval])

toCommandLineOptions(o) == TargetMessage(o) @@ RequestMessage(o) @@ ModeMessage(o) @@ RestMessage(o)

(***************************************************************************)
(* OptionsImpl(CommandLineOptions)                                         *)
(***************************************************************************)
MessageTarget(m) ==
    LET multi == Get(m, "multi_target", <<>>)
    IN  [duration |-> Get(m, "duration", Defaults.duration)]
        @@ IF "uri" \in DOMAIN m
           THEN [uri |-> m.uri, tcp |-> isTcpUri(m.uri), udp |-> isUdpUri(m.uri)]
           ELSE [multi_target_path |-> Get(multi, "path", ""),
                 multi_target_use_https |-> Get(multi, "use_https", FALSE),
                 multi_target_endpoints |-> Get(multi, "endpoints", <<>>)]

\* The last of the blocks that has a field sets it.
MessageModes(m, o) ==
    LET grpc == Get(m, "grpc_stream", <<>>)  tcp == Get(m, "tcp", <<>>)
        udp == Get(m, "udp", <<>>)  ws == Get(m, "websocket", <<>>)
        mode == Get(m, "grpc_mode", o.grpc_mode)
    IN  [h2 |-> Get(m, "h2", FALSE), grpc_mode |-> mode,
         protocol |-> IF mode # "NONE" /\ {"protocol", "h2"} \cap DOMAIN m = {} THEN "HTTP2"
                      ELSE Get(m, "protocol", o.protocol),
         streams |-> Get(ws @@ grpc, "streams", o.streams),
         max_inflight_per_stream |-> Get(ws @@ grpc, "max_inflight_per_stream", o.max_inflight_per_stream),
         stream_drain_duration |-> Get(ws @@ tcp @@ grpc, "drain_duration", o.stream_drain_duration),
         tcp_connections |-> Get(tcp, "connections", o.tcp_connections),
         tcp_max_inflight |-> Get(tcp, "max_inflight_per_connection", o.tcp_max_inflight),
         tcp_expect_echo |-> Get(tcp, "expect_echo", o.tcp_expect_echo),
         tcp_max_messages |-> Get(tcp, "max_messages_per_connection", o.tcp_max_messages),
         udp_max_inflight |-> Get(udp, "max_inflight", o.udp_max_inflight),
         udp_timeout |-> Get(udp, "timeout", o.udp_timeout),
         websocket |-> "websocket" \in DOMAIN m, websocket_binary |-> Get(ws, "binary", FALSE),
         concurrency |-> Get(m, "concurrency", o.concurrency)]

\* tunnel_tls_context_ is dereferenced while it is empty, see Receive: it stays empty.
MessageTunnel(m, o) ==
    Only("tunnel_options" \in DOMAIN m,
         [tunnel_protocol |-> Get(m.tunnel_options, "tunnel_protocol", o.tunnel_protocol),
          tunnel_uri |-> Get(m.tunnel_options, "tunnel_uri", ""), encap_port |-> 1])

MessageRequest(m, o) ==
    LET given == Get(m, "request_options", <<>>)
        headers == Get(given, "request_headers", <<>>)
    IN  [request_method |-> Get(given, "request_method", IF grpcEnabled(o) THEN "POST" ELSE o.request_method),
         request_headers |-> [i \in DOMAIN headers |-> TextOf(headers[i])],
         request_body_size |-> Get(given, "request_body_size", o.request_body_size),
         request_body |-> Get(given, "request_body", ""),
         request_source |-> Get(m, "request_source", ""),
         request_source_plugin_config |-> Get(m, "request_source_plugin_config", "")]

\* A worker's streams all wait for a connection at first.
Workers(o) == IF o.concurrency \in DOMAIN Stoi THEN AtLeast(1, Stoi[o.concurrency]) ELSE 1
raisePendingRequestsForStreams(o) ==
    IF ~streamModeEnabled(o) THEN o
    ELSE [o EXCEPT !.max_pending_requests = AtLeast(@, AtLeast(1, o.streams \div Workers(o)))]

FailurePredicates(m, o) ==
    LET given == Get(m, "failure_predicates", <<>>)
    IN  IF Get(m, "no_default_failure_predicates", FALSE) \/ given # <<>> THEN given
        ELSE o.failure_predicates

MessageRest(m, o) ==
    [f \in Copied |-> Get(m, f, o[f])]
    @@ [f \in Configs |-> Get(m, f, "")]
    @@ [failure_predicates |-> FailurePredicates(m, o),
        jitter_uniform |-> Get(m, "jitter_uniform", 0),
        stats_flush_interval |-> Get(m, "stats_flush_interval", o.stats_flush_interval),
        stats_flush_interval_duration |-> Get(m, "stats_flush_interval_duration", 0),
        h2_use_multiple_connections |-> Get(m, "experimental_h2_use_multiple_connections", FALSE),
        no_duration |-> Get(m, "no_duration", FALSE)]

FromMessage(m) ==
    LET target == MessageTarget(m) @@ Defaults
        modes == MessageModes(m, target) @@ target
        tunnel == MessageTunnel(m, modes) @@ modes
        request == MessageRequest(m, tunnel) @@ tunnel
        raised == raisePendingRequestsForStreams(request)
    IN  MessageRest(m, raised) @@ raised

\* A plugin limits the rate alone.
MessageConflicts(m) ==
    /\ "rate_limiter_plugin_config" \in DOMAIN m
    /\ Get(m, "burst_size", 0) # 0 \/ Get(m, "jitter_uniform", 0) # 0

(***************************************************************************)
(* validate                                                                *)
(***************************************************************************)
BodyOk(o) == ~(o.request_body # "" /\ o.request_body_size > 0)

GrpcProtocolOk(o) == o.h2 \/ o.protocol = "HTTP2"
GrpcOk(o) ==
    grpcEnabled(o) => GrpcProtocolOk(o) /\ o.request_method = "POST" /\ o.request_source = ""
WebsocketOk(o) ==
    o.websocket => ~grpcEnabled(o) /\ o.protocol = "HTTP1" /\ o.request_method = "GET"

Concurrency(o) == IF o.concurrency \in DOMAIN Stoi THEN Stoi[o.concurrency] ELSE 0
StreamsDivide(o, n) == o.streams > 0 /\ o.streams % n = 0 /\ o.requests_per_second % n = 0
StreamsOk(o) ==
    streamModeEnabled(o) =>
        LET n == Concurrency(o)
        IN  /\ n > 0
            /\ o.websocket => o.streams \div n <= o.connections
            /\ StreamsDivide(o, n)
            /\ o.max_inflight_per_stream > 0 /\ o.streams \div n <= o.max_active_requests
            /\ o.request_source_plugin_config = "" /\ o.user_defined_plugin_configs = <<>>
            /\ ~o.simple_warmup

ConcurrencyOk(o) == o.concurrency # "auto" => Concurrency(o) > 0
SourceOk(o) == o.request_source \in {"", "grpc"}

NoReplay(o) ==
    /\ o.request_source = "" /\ o.request_source_plugin_config = ""
    /\ o.user_defined_plugin_configs = <<>> /\ ~o.simple_warmup
NoHttp(o) ==
    ~grpcEnabled(o) /\ ~o.websocket /\ o.request_headers = <<>> /\ o.request_method = "GET"
HasBody(o) == o.request_body # "" \/ o.request_body_size > 0
UdpOk(o) ==
    o.udp => /\ NoHttp(o) /\ HasBody(o) /\ o.transport_socket = "" /\ o.tls_context = ""
             /\ o.udp_max_inflight > 0 /\ o.udp_timeout > 0 /\ NoReplay(o)
TcpOk(o) ==
    o.tcp => /\ NoHttp(o) /\ (o.tcp_expect_echo => HasBody(o))
             /\ o.tcp_connections > 0 /\ o.tcp_max_inflight > 0 /\ NoReplay(o)
TargetOk(o) ==
    IF o.uri # ""
    THEN /\ o.uri # "bad" /\ UdpOk(o) /\ TcpOk(o)
         /\ o.multi_target_endpoints = <<>> /\ o.multi_target_path = "" /\ ~o.multi_target_use_https
    ELSE o.multi_target_endpoints # <<>> /\ o.multi_target_path # ""

HeadersOk(o) ==
    o.request_source = "" /\ o.request_source_plugin_config = "" =>
        \A i \in DOMAIN o.request_headers : Colons(o.request_headers[i]) # {}

\* The rules of options.proto; a header has a name.
Between(m, f, low, high) == f \in DOMAIN m => low <= m[f] /\ m[f] <= high
RulesKept(m) ==
    LET request == Get(m, "request_options", <<>>)
        stream == Get(m, "websocket", <<>>) @@ Get(m, "grpc_stream", <<>>)
        tcp == Get(m, "tcp", <<>>)  udp == Get(m, "udp", <<>>)
        headers == Get(request, "request_headers", <<>>)
    IN  /\ \A f \in {"requests_per_second", "connections"} : Between(m, f, 1, 1000000)
        /\ Between(m, "burst_size", 0, 1000000)
        /\ \A f \in {"max_active_requests", "max_requests_per_connection"} : Between(m, f, 1, LargestUint32)
        /\ Between(m, "max_concurrent_streams", 1, LargestStreams)
        /\ Between(m, "stats_flush_interval", 1, 300)
        /\ \A f \in {"duration", "timeout", "jitter_uniform"} : Between(m, f, 0, LargestUint32)
        /\ Between(request, "request_body_size", 0, 4194304)
        /\ \A i \in DOMAIN headers : headers[i].key # <<>>
        /\ \A f \in {"streams", "max_inflight_per_stream"} : Between(stream, f, 1, LargestUint32)
        /\ \A f \in {"connections", "max_inflight_per_connection"} : Between(tcp, f, 1, LargestUint32)
        /\ \A f \in {"max_inflight", "timeout"} : Between(udp, f, 1, LargestUint32)
        /\ \A part \in {stream, tcp} : Between(part, "drain_duration", 0, LargestUint32)
        /\ \A e \in Range(Get(Get(m, "multi_target", <<>>), "endpoints", <<>>)) : e # "bad"

validate(o) ==
    /\ BodyOk(o) /\ GrpcOk(o) /\ WebsocketOk(o) /\ StreamsOk(o) /\ ~o.h2_use_multiple_connections
    /\ ConcurrencyOk(o) /\ SourceOk(o) /\ TargetOk(o) /\ HeadersOk(o)
    /\ RulesKept(toCommandLineOptions(o))
=============================================================================
