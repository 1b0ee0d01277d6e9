--------------------------- MODULE OptionsCases ----------------------------
(***************************************************************************)
(* Values for OptionsCli: command lines and messages of every kind of run, *)
(* to which a few flags or fields are added.                               *)
(***************************************************************************)
EXTENDS Options

HttpRun == [uri |-> "http"]
ArgvBasesOfEveryKind ==
    {HttpRun, [grpc_mode |-> "UNARY"] @@ HttpRun,
     [grpc_mode |-> "BIDI_STREAM", concurrency |-> "2", requests_per_second |-> 4] @@ HttpRun,
     [websocket |-> TRUE, concurrency |-> "1"] @@ HttpRun,
     [uri |-> "tcp", request_body_size |-> 3], [uri |-> "udp", request_body |-> "text"],
     [multi_target_endpoints |-> <<"ok">>, multi_target_path |-> "/"],
     [tunnel_protocol |-> "HTTP3", tunnel_uri |-> "https", tunnel_tls_context |-> "tls"] @@ HttpRun,
     [stats_sinks |-> <<"sink">>] @@ HttpRun, [request_source |-> "grpc"] @@ HttpRun}

TooMany == LargestUint32 + 1
FurtherArguments ==
    [requests_per_second |-> {0, 6, TooMany}, connections |-> {8}, duration |-> {1}, timeout |-> {TooMany},
     no_duration |-> {TRUE}, h2 |-> {TRUE}, protocol |-> {"HTTP2", "HTTP3"}, concurrency |-> {"3", "0", "x", "auto"},
     grpc_mode |-> {"UNARY", "BIDI_STREAM"}, websocket |-> {TRUE}, websocket_binary |-> {TRUE},
     streams |-> {0, 6, 201}, max_inflight_per_stream |-> {0}, stream_drain_duration |-> {-1, 9},
     tcp_connections |-> {0, 2}, tcp_no_echo |-> {TRUE}, tcp_max_inflight |-> {4}, udp_timeout |-> {-1, 0, 7},
     udp_max_inflight |-> {0}, request_method |-> {"PUT", "POST"}, request_body_size |-> {2},
     request_body |-> {"text", "bad"}, request_headers |-> {<<<<"a", ":", "b">>>>, <<<<"a">>>>},
     max_pending_requests |-> {1, TooMany}, max_active_requests |-> {0, 9}, max_concurrent_streams |-> {1, TooMany},
     http3_protocol_options |-> {"h3", "bad"}, tls_context |-> {"tls"}, transport_socket |-> {"ts"},
     rate_limiter_plugin_config |-> {"plugin"}, burst_size |-> {3}, jitter_uniform |-> {0, 2},
     request_source |-> {"http"}, request_source_plugin_config |-> {"plugin"},
     user_defined_plugin_configs |-> {<<"plugin">>, <<"bad">>}, simple_warmup |-> {TRUE},
     no_default_failure_predicates |-> {TRUE},
     failure_predicates |-> {[http_4xx |-> 9], [p \in {""} |-> 0]},
     termination_predicates |-> {[http_4xx |-> 1]}, stats_flush_interval |-> {2, 400},
     stats_flush_interval_duration |-> {0, 3, -1}, stats_sinks |-> {<<"bad">>},
     multi_target_endpoints |-> {<<"bad">>}, multi_target_use_https |-> {TRUE},
     tunnel_protocol |-> {"HTTP1"}, tunnel_uri |-> {"http"}, h2_use_multiple_connections |-> {TRUE},
     labels |-> {<<"l">>}]

MessagesOfEveryKind ==
    {HttpRun, [grpc_mode |-> "UNARY"] @@ HttpRun,
     [grpc_mode |-> "BIDI_STREAM", concurrency |-> "2", requests_per_second |-> 4,
      grpc_stream |-> [streams |-> 10]] @@ HttpRun,
     [websocket |-> [binary |-> TRUE]] @@ HttpRun,
     [uri |-> "tcp", tcp |-> [connections |-> 2, drain_duration |-> 3], request_options |-> [request_body_size |-> 3]],
     [uri |-> "udp", udp |-> [timeout |-> 2], request_options |-> [request_body |-> "text"]],
     [multi_target |-> [endpoints |-> <<"ok">>, path |-> "/"]]}
FurtherFields ==
    [h2 |-> {TRUE, FALSE}, grpc_mode |-> {"BIDI_STREAM"}, concurrency |-> {"3", "auto"},
     websocket |-> {<<>>}, tcp |-> {[expect_echo |-> FALSE]}, requests_per_second |-> {6, 0},
     request_options |-> {[request_method |-> "POST"],
                          [request_headers |-> <<[key |-> <<":", "a">>, value |-> <<"b">>]>>]},
     max_pending_requests |-> {0, 30}, max_active_requests |-> {4}, rate_limiter_plugin_config |-> {"plugin"},
     burst_size |-> {0, 3}, jitter_uniform |-> {2}, no_default_failure_predicates |-> {TRUE},
     failure_predicates |-> {[http_4xx |-> 9]}, no_duration |-> {TRUE}, simple_warmup |-> {TRUE},
     stats_flush_interval_duration |-> {3}, execution_id |-> {"id"}, user_defined_plugin_configs |-> {<<"plugin">>},
     tunnel_options |-> {[tunnel_protocol |-> "HTTP3", tunnel_uri |-> "https", tunnel_tls_context |-> "tls"]}]

\* Every text of a header there is, up to its length.
Texts(length) == UNION {[1 .. n -> {"a", ":", " "}] : n \in 1 .. length}
HeaderArguments(length) == [request_headers |-> {<<t>> : t \in Texts(length)}]
NoFields == [f \in {} |-> {}]
=============================================================================
