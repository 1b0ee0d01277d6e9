------------------------- MODULE RequestGenerators -------------------------
(***************************************************************************)
(* The request sources of a worker that need no stream: the static one,    *)
(* the list of request options and the LLM plugin, over the header that    *)
(* RequestSourceFactoryImpl builds from the options. A body is its length, *)
(* a header a function from its keys; the keys given by a user are no      *)
(* pseudo header and no content-length.                                    *)
(***************************************************************************)
EXTENDS Integers, Sequences, SequencesExt

CONSTANTS
    None,       \* what is not set
    Width,      \* bits of yields_left_ (64 in the code)
    Yields,     \* the quantities asked of a static source
    Totals,     \* num_requests of a list
    MaxCalls    \* bound: calls of a generator

Keys == {"path", "host", "scheme", "method", "content-length", "content-type", "te", "x-user"}

VARIABLES
    source,   \* which source it is
    options,  \* what the factory is given
    list,     \* the RequestOptionsList
    specifier,\* what the remote source sends
    total,    \* total_requests_
    left,     \* yields_left_
    counter,  \* the counter of the list's generator
    calls, yielded, \* calls of the generator and those that had a request
    dry,      \* a call has returned nullptr
    request   \* the last request, None when there was none

vars == <<source, options, list, specifier, total, left, counter, calls, yielded, dry, request>>

Options == [uri : BOOLEAN, https : BOOLEAN, grpc : BOOLEAN, method : {"GET"},
            body : {0, 7}, bodySize : {0, 3}, headers : {<<>>, <<<<"x-user", "a">>, <<"host", "b">>>>}]
ListOptions == [method : {"POST", "METHOD_UNSPECIFIED"}, json : {0, 5}, bodySize : {0, 2},
                headers : {<<<<"x-user", "c">>>>}]
Lists == {<<>>} \cup {<<a, b>> : a \in ListOptions,
                                 b \in {[method |-> "PUT", json |-> 0, bodySize |-> 0, headers |-> <<>>]}}

SetHeader(header, kv) == [header EXCEPT ![kv[1]] = kv[2]]
SetHeaders(header, kvs) == FoldLeft(SetHeader, header, kvs)

(***************************************************************************)
(* The factory                                                             *)
(***************************************************************************)
GrpcPrefix == 5

\* The body of a static request: a gRPC message is framed.
Body(o) == IF o.grpc THEN o.body + GrpcPrefix ELSE o.body

ContentLength(o) ==
    IF o.grpc THEN None
    ELSE IF o.body > 0 THEN o.body
    ELSE IF o.bodySize > 0 THEN o.bodySize ELSE None

\* The headers are read back from the options' message, which has them for no other source.
UserHeaders(o) == IF source = "static" THEN o.headers ELSE <<>>

BaseHeader(o) ==
    LET target == [k \in Keys |->
                     CASE k = "path" -> IF o.uri THEN "of the uri" ELSE "multiTargetPath"
                       [] k = "host" -> IF o.uri THEN "of the uri" ELSE "not supported"
                       [] k = "scheme" -> IF o.https THEN "https" ELSE "http"
                       [] k = "method" -> o.method
                       [] k = "content-type" -> IF o.grpc THEN "application/grpc" ELSE None
                       [] k = "te" -> IF o.grpc THEN "trailers" ELSE None
                       [] k = "content-length" -> ContentLength(o)
                       [] OTHER -> None]
    IN  SetHeaders(target, UserHeaders(o))

(***************************************************************************)
(* The generators                                                          *)
(***************************************************************************)
Yield(r) == /\ request' = r /\ yielded' = yielded + 1 /\ UNCHANGED dry
YieldNothing == request' = None /\ dry' = TRUE /\ UNCHANGED yielded

LeftAfter == (left - 1) % 2 ^ Width

\* StaticRequestSourceImpl: the count goes down on every call, past zero too.
GetStatic ==
    /\ source = "static"
    /\ left' = LeftAfter
    /\ IF left > 0 THEN Yield([header |-> BaseHeader(options), body |-> Body(options)])
       ELSE YieldNothing
    /\ UNCHANGED counter

OptionAt(n) == list[(n % Len(list)) + 1]

BodyLength(opt) == IF opt.json > 0 THEN opt.json ELSE opt.bodySize

ListHeader(opt) ==
    LET base == BaseHeader(options)
        made == [base EXCEPT
                   !["method"] = opt.method,
                   !["content-length"] = IF BodyLength(opt) > 0 THEN BodyLength(opt) ELSE @,
                   !["content-type"] = IF opt.json > 0 THEN "application/json" ELSE @]
    IN  SetHeaders(made, opt.headers)

Exhausted == counter >= total /\ total # 0

GetList ==
    /\ source = "list"
    /\ \/ /\ Exhausted /\ YieldNothing /\ UNCHANGED counter
       \/ /\ ~Exhausted /\ list = <<>>
          /\ Yield([header |-> BaseHeader(options), body |-> 0]) /\ UNCHANGED counter
       \/ /\ ~Exhausted /\ list # <<>>
          /\ Yield([header |-> ListHeader(OptionAt(counter)), body |-> OptionAt(counter).json])
          /\ counter' = counter + 1
    /\ UNCHANGED left

\* LlmRequestSourcePlugin, whose list only adds to the header; n is the length of the prompt.
GetLlm(n) ==
    /\ source = "llm"
    /\ Yield([header |-> [SetHeaders(BaseHeader(options), FlattenSeq([i \in DOMAIN list |-> list[i].headers]))
                            EXCEPT !["method"] = "POST", !["content-type"] = "application/json",
                                   !["content-length"] = n, !["path"] = "/v1/completions"],
              body |-> n])
    /\ UNCHANGED <<left, counter>>

Specifiers == [headers : {<<>>, <<<<"x-user", "d">>, <<"host", "e">>, <<"method", "PUT">>>>},
               host : {None, "f"}, path : {None, "/g"}, method : {None, "HEAD"}, length : {None, 4}]

SetIf(header, k, v) == IF v = None THEN header ELSE [header EXCEPT ![k] = v]
SetFields(header, spec) ==
    SetIf(SetIf(SetIf(SetIf(header, "host", spec.host), "path", spec.path),
                "method", spec.method), "content-length", spec.length)

MessageToRequest(spec) == SetFields(SetHeaders(BaseHeader(options), spec.headers), spec)

\* A request made from what the remote source sent, see RequestStream.
GetRemote ==
    /\ source = "remote"
    /\ Yield([header |-> MessageToRequest(specifier), body |-> 0])
    /\ UNCHANGED <<left, counter>>

Init ==
    /\ source \in {"static", "list", "llm", "remote"} /\ options \in Options
    /\ list \in IF source \in {"list", "llm"} THEN Lists ELSE {<<>>}
    /\ specifier \in IF source = "remote" THEN Specifiers ELSE {None}
    /\ left \in IF source = "static" THEN Yields ELSE {0}
    /\ total \in IF source = "list" THEN Totals ELSE {0}
    /\ counter = 0 /\ calls = 0 /\ yielded = 0 /\ dry = FALSE /\ request = None

Next ==
    /\ calls < MaxCalls /\ calls' = calls + 1
    /\ GetStatic \/ GetList \/ GetRemote \/ (\E n \in {9} : GetLlm(n))
    /\ UNCHANGED <<source, options, list, specifier, total>>

Spec == Init /\ [][Next]_vars

(***************************************************************************)
(* Properties                                                              *)
(***************************************************************************)
TypeOK ==
    /\ left \in 0 .. 2 ^ Width - 1 /\ counter \in 0 .. MaxCalls /\ yielded \in 0 .. calls
    /\ request # None => DOMAIN request.header = Keys /\ request.body \in Nat

Asked == request # None

\* A request that carries a body and says how long it is says so truthfully, whichever of body,
\* body size and gRPC framing the options and the list combine.
LengthMatchesBody ==
    Asked /\ request.body > 0 =>
        request.header["content-length"] \in {None, request.body}

\* A list of options is gone through over and over, in its order.
ListCycles ==
    Asked /\ source = "list" /\ list # <<>> =>
        request.header["method"] = list[((yielded - 1) % Len(list)) + 1].method

\* What the remote source says of a request overrides what the options say, and its fields
\* override its headers.
RemoteOverrides ==
    Asked /\ source = "remote" =>
        /\ request.header["host"] = IF specifier.host # None THEN "f"
                                    ELSE IF specifier.headers # <<>> THEN "e"
                                    ELSE BaseHeader(options)["host"]
        /\ specifier.method # None => request.header["method"] = "HEAD"
        /\ specifier.length # None => request.header["content-length"] = 4

\* A generator over a list that is not empty stops after its total, for good.
ListStops == source = "list" /\ list # <<>> /\ total > 0 => yielded <= total /\ (dry => yielded = total)
=============================================================================
