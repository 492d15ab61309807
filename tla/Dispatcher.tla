----------------------------- MODULE Dispatcher -----------------------------
(***************************************************************************)
(* ProxyHandler::handle (proxy.rs 73-179): the per-request decision tree   *)
(* of the proxy, with the helpers it calls: extract_scheme_host_port      *)
(* (366-423), the reverse-proxy location lookup (89-107), the serving      *)
(* gate (110-131), serve_request (289-303), the proxy-stage auth check     *)
(* (148-178), tunnel_proxy's synchronous part (208-288), and simple_proxy  *)
(* with build_access_label, mod_http1_proxy_req and origin_form (183-204,  *)
(* 306-346, 425-429, 453-467).                                             *)
(*                                                                         *)
(* One request is received and handled in one step: between the awaits   *)
(* of handle nothing it reads can change (the configuration is immutable), *)
(* so only the results of the collaborators it awaits (the reverse-proxy   *)
(* handler, the static file server, the pooled upstream client) are        *)
(* chosen nondeterministically.  A Host header value is a sequence of      *)
(* tokens in which ":" is a token of its own, so that split(':') is        *)
(* modelled by what it does; a path is a sequence of characters, so that   *)
(* starts_with is.                                                         *)
(***************************************************************************)
EXTENDS ProxyConfig, Sequences

\* The first and the last index of s whose element satisfies Test, or 0,
\* and the prefix order (Iterator::find, str::split, str::starts_with).
\* SequencesExt's SelectInSeq, SelectLastInSeq and IsPrefix say the same,
\* but SequencesExt reaches RECURSIVE definitions, which would keep the
\* proofs in DispatcherProofs from using SMT.
FirstIndex(s, Test(_)) ==
    LET M == {i \in 1..Len(s) : Test(s[i])}
    IN  IF M = {} THEN 0 ELSE CHOOSE i \in M : \A j \in M : i <= j
LastIndex(s, Test(_)) ==
    LET M == {i \in 1..Len(s) : Test(s[i])}
    IN  IF M = {} THEN 0 ELSE CHOOSE i \in M : \A j \in M : j <= i
IsPrefixOf(s, t) == Len(s) <= Len(t) /\ SubSeq(t, 1, Len(s)) = s

CONSTANTS
    Tokens,       \* the tokens a Host header is made of, ":" among them
    Hosts,        \* URI hosts (the text http::Uri::host returns)
    HostText,     \* HostText[h]: the tokens of h as written in a Host header
    Numeral,      \* Numeral[t]: the value of the decimal text t
    Ports,        \* URI ports
    Schemes,      \* URI schemes
    Paths,        \* request paths
    HostHeaders,  \* Host header values clients send
    JunkAuth,     \* Proxy-Authorization values that name no user
    Locations,    \* reverse-proxy config: host key -> sequence of location paths
    DefaultHost,  \* the host key DEFAULT_HOST
    AxumPaths,    \* AXUM_PATHS: paths the static server leaves to axum
    ClientAddrs,  \* client IP addresses
    Canonical,    \* IpAddr::to_canonical: IPv4-mapped IPv6 -> IPv4
    ParamSpace    \* the command lines the process may be started with

ASSUME DispatcherAssumption ==
    /\ HostText \in [Hosts -> Seq(Tokens)]
    /\ \A p \in Ports : p \in Nat /\ p <= 65535 /\ \E t \in DOMAIN Numeral : Numeral[t] = p
    /\ Schemes \subseteq {"http", "https", "ws", "wss"}
    /\ Canonical \in [ClientAddrs -> ClientAddrs]
    /\ DefaultHost \in DOMAIN Locations
ASSUME ParamSpaceAssumption == ParamSpace \subseteq Params /\ ParamSpace # {}
\* http::Uri::path(), which the location match (proxy.rs 99) and origin_form
\* read, is "/" for an absolute URI without a path and starts with "/" in
\* origin form, so a request path is never empty.
ASSUME PathAssumption == <<>> \notin Paths
\* A Host header value (HeaderValue::to_str) and a port's text are made of
\* tokens, the separator ':' among them.
ASSUME TextAssumption ==
    /\ ":" \in Tokens
    /\ HostHeaders \subseteq Seq(Tokens) /\ DOMAIN Numeral \subseteq Tokens

\* The text of port p, and split(':') on a Host header value.
PortText(p) == CHOOSE t \in DOMAIN Numeral : Numeral[t] = p
Colon(s) == FirstIndex(s, LAMBDA t : t = ":")
FirstSegment(s) == IF Colon(s) = 0 THEN s ELSE SubSeq(s, 1, Colon(s) - 1)
AfterColon(s) == SubSeq(s, Colon(s) + 1, Len(s))
\* str::parse::<u16>
IsU16(seg) == Len(seg) = 1 /\ seg[1] \in DOMAIN Numeral /\ Numeral[seg[1]] <= 65535

\* The Host header a client means for host h and port p (None: no port).
WireHost(h, p) == HostText[h] \o (IF p = None THEN <<>> ELSE <<":", PortText(p)>>)
----------------------------------------------------------------------------
(* Requests as hyper hands them to the handler.                            *)

OriginUris == [scheme : {None}, host : {None}, port : {None}, path : Paths]
AbsoluteUris == [scheme : Schemes, host : Hosts, port : Ports \cup {None}, path : Paths]
AuthorityUris == [scheme : {None}, host : Hosts, port : Ports, path : {<<>>}]
AuthValues == {None} \cup JunkAuth \cup {BasicHeader(u) : u \in RawUsers}

RequestsOf(methods, versions, uris) ==
    [method : methods, version : versions, uri : uris,
     hostHeader : HostHeaders \cup {None}, proxyAuth : AuthValues,
     proxyConnection : {TRUE}, client : ClientAddrs]

\* HTTP/1.1: origin- or absolute-form, CONNECT in authority form (or not);
\* HTTP/2: :scheme and :authority are always present in the URI.
Requests ==
    RequestsOf({"GET"}, {"HTTP/1.1"}, OriginUris \cup AbsoluteUris)
    \cup RequestsOf({"CONNECT"}, {"HTTP/1.1"}, AuthorityUris \cup OriginUris)
    \cup RequestsOf({"GET"}, {"HTTP/2"}, {u \in AbsoluteUris : u.scheme \in {"http", "https"}})
    \cup RequestsOf({"CONNECT"}, {"HTTP/2"}, AuthorityUris)
----------------------------------------------------------------------------
VARIABLES
    config,  \* the Config built at startup
    param,   \* the command line it was built from
    conn,    \* the client connection: "open", "upgraded" (tunnel) or "closed"
    out      \* the outcome of the request just handled, or None

vars == <<config, param, conn, out>>

Routes == {"resolveErr", "reverse", "serveDenied", "static", "authFail",
           "tunnel", "badConnect", "rewriteErr", "simple"}
Kinds == {"drop", "return", "continue", "error"}

\* extract_scheme_host_port (proxy.rs 366-423), given the default scheme.
Unresolved == [ok |-> FALSE, scheme |-> None, host |-> None, port |-> None, domain |-> None]
Resolved(s, h, p, d) == [ok |-> TRUE, scheme |-> s, host |-> h, port |-> p, domain |-> d]

ExtractSchemeHostPortWith(r, defaultScheme) ==
    LET scheme == IF r.uri.scheme # None THEN r.uri.scheme ELSE defaultScheme
        hh == r.hostHeader
    IN  IF r.version = "HTTP/2"
        THEN IF r.uri.host = None THEN Unresolved
             ELSE Resolved(scheme, HostText[r.uri.host], r.uri.port,
                           IF hh # None THEN FirstSegment(hh) ELSE HostText[r.uri.host])
        ELSE IF hh = None THEN Unresolved
             ELSE IF Colon(hh) = 0
                    THEN Resolved(scheme, hh, None, hh)
                  ELSE IF IsU16(FirstSegment(AfterColon(hh)))
                    THEN Resolved(scheme, FirstSegment(hh),
                                  Numeral[FirstSegment(AfterColon(hh))[1]], FirstSegment(hh))
                  ELSE Unresolved

\* proxy.rs 81-87: handle's call, whose default scheme follows --over-tls.
DefaultScheme(overTls) == IF overTls THEN "https" ELSE "http"
ExtractSchemeHostPort(r) == ExtractSchemeHostPortWith(r, DefaultScheme(config.overTls))

\* Mutant: the last matching location wins.
FindLastLocation(domain, path) ==
    LastIndex(Locations[IF domain \in DOMAIN Locations THEN domain ELSE DefaultHost],
              LAMBDA loc : IsPrefixOf(loc, path))
\* Mutant: a zero-based index, so "no match" is -1.
FindLocationZeroBased(domain, path) ==
    FirstIndex(Locations[IF domain \in DOMAIN Locations THEN domain ELSE DefaultHost],
               LAMBDA loc : IsPrefixOf(loc, path)) - 1
\* The location lookup (proxy.rs 90-100): the bucket of the exact host,
\* else DEFAULT_HOST's; in it, the first location that prefixes the path.
LocationKey(domain) == IF domain \in DOMAIN Locations THEN domain ELSE DefaultHost
FindLocation(domain, path) ==
    FirstIndex(Locations[LocationKey(domain)], LAMBDA loc : IsPrefixOf(loc, path))

\* proxy.rs 110: HTTP/2, or a URI without host, is addressed to this server.
ToServing(r) == r.version = "HTTP/2" \/ r.uri.host = None

\* Mutant: the client address is not canonicalised.
ServingAllowedRaw(r) ==
    /\ ~config.prohibitServing
    /\ \/ config.allowedNetworks = {}
       \/ \E n \in config.allowedNetworks : r.client \in n
\* proxy.rs 112-130.
ServingAllowed(r) ==
    /\ ~config.prohibitServing
    /\ \/ config.allowedNetworks = {}
       \/ \E n \in config.allowedNetworks : Canonical[r.client] \in n

\* serve_request (proxy.rs 289-303): the static server's possible results.
\* A response with its status, or an io::Error.
ServeResults(r) == IF r.uri.path \in AxumPaths THEN {404} ELSE {200, 404, None}

\* axum_handler::check_auth: no users configured admits everyone.
AuthOk(r) ==
    DOMAIN config.basicAuth = {} \/ r.proxyAuth \in DOMAIN config.basicAuth
AuthUser(r) ==
    IF DOMAIN config.basicAuth = {} THEN "unknown" ELSE config.basicAuth[r.proxyAuth]

\* is_schema_secure and the Host header of mod_http1_proxy_req (315-325).
\* Mutant: "wss" is not recognised as secure.
IsSchemaSecureHttpsOnly(uri) == uri.scheme = "https"
IsSchemaSecure(uri) == uri.scheme \in {"wss", "https"}
HostHeaderFor(uri) ==
    IF \/ uri.port = None
       \/ uri.port = 443 /\ IsSchemaSecure(uri)
       \/ uri.port = 80 /\ ~IsSchemaSecure(uri)
      THEN HostText[uri.host]
      ELSE HostText[uri.host] \o <<":", PortText(uri.port)>>

\* origin_form (proxy.rs 453-467).
OriginForm(uri) ==
    [scheme |-> None, host |-> None, port |-> None,
     path |-> IF uri.path \in {<<>>, <<"/">>} THEN <<"/">> ELSE uri.path]

\* mod_http1_proxy_req (proxy.rs 306-333), for a URI with a host.
ModHttp1ProxyReq(r) ==
    [r EXCEPT !.proxyAuth = None, !.proxyConnection = FALSE,
              !.hostHeader = HostHeaderFor(r.uri), !.uri = OriginForm(r.uri)]
----------------------------------------------------------------------------
\* Guards shared by the branches of handle.
NotConnect(r) == r.method # "CONNECT"
Domain(r) == ExtractSchemeHostPort(r).domain
Location(r) == FindLocation(Domain(r), r.uri.path)
Unrouted(r) ==
    /\ NotConnect(r)
    /\ ExtractSchemeHostPort(r).ok
    /\ Location(r) = 0
ProxyStage(r) == ~NotConnect(r) \/ (Unrouted(r) /\ ~ToServing(r))

\* Record the outcome; Drop and Err close the connection (the runtime
\* drops it), an accepted CONNECT hands it over to the tunnel task.
Done(r, route, kind, status, user, fwd) ==
    /\ out' = [req |-> r, route |-> route, kind |-> kind, status |-> status,
               rule |-> IF route = "reverse" THEN Location(r) ELSE 0,
               user |-> user,
               domain |-> IF NotConnect(r) /\ ExtractSchemeHostPort(r).ok
                            THEN Domain(r) ELSE None,
               fwd |-> fwd]
    /\ conn' = CASE kind \in {"drop", "error"} -> "closed"
               []   route = "tunnel"            -> "upgraded"
               []   OTHER                        -> "open"
    /\ UNCHANGED <<config, param>>


\* proxy.rs 81-87: the `?` on extract_scheme_host_port.
HandleResolveError(r) ==
    /\ NotConnect(r)
    /\ ~ExtractSchemeHostPort(r).ok
    /\ Done(r, "resolveErr", "error", None, None, None)

\* proxy.rs 96-106: a matching location; the reverse handler answers or fails.
HandleReverse(r) ==
    /\ NotConnect(r)
    /\ ExtractSchemeHostPort(r).ok
    /\ Location(r) # 0
    /\ \E kind \in {"return", "error"} :
         Done(r, "reverse", kind, None, None, None)

\* proxy.rs 110-130: serving prohibited, or the client outside the networks.
HandleServeDenied(r) ==
    /\ Unrouted(r) /\ ToServing(r)
    /\ ~ServingAllowed(r)
    /\ Done(r, "serveDenied", "drop", None, None, None)

\* proxy.rs 133-144: 404 continues to the axum router, other results return.
HandleServe(r) ==
    /\ Unrouted(r) /\ ToServing(r)
    /\ ServingAllowed(r)
    /\ \E res \in ServeResults(r) :
         Done(r, "static",
              CASE res = 404 -> "continue" [] res = None -> "error" [] OTHER -> "return",
              res, None, None)

\* Mutant: --never-ask-for-auth is not consulted; a 407 is always sent.
HandleAuthFailAlwaysAsk(r) ==
    /\ ProxyStage(r)
    /\ ~AuthOk(r)
    /\ Done(r, "authFail", "return", 407, None, None)
\* proxy.rs 170-177: 407, or a PermissionDenied error when never asking.
HandleAuthFail(r) ==
    /\ ProxyStage(r)
    /\ ~AuthOk(r)
    /\ IF config.neverAskForAuth
         THEN Done(r, "authFail", "error", None, None, None)
         ELSE Done(r, "authFail", "return", 407, None, None)

\* tunnel_proxy (proxy.rs 224-280): spawn the tunnel task, answer 200.
HandleTunnel(r) ==
    /\ ProxyStage(r) /\ AuthOk(r)
    /\ ~NotConnect(r)
    /\ r.uri.host # None
    /\ Done(r, "tunnel", "return", 200, AuthUser(r), None)

\* proxy.rs 281-287: CONNECT without an authority.
HandleBadConnect(r) ==
    /\ ProxyStage(r) /\ AuthOk(r)
    /\ ~NotConnect(r)
    /\ r.uri.host = None
    /\ Done(r, "badConnect", "return", 400, AuthUser(r), None)

\* simple_proxy (proxy.rs 183-204): build_access_label and
\* mod_http1_proxy_req fail on a URI without host; otherwise the rewritten
\* request goes to the pooled client, which answers or fails.
HandleSimple(r) ==
    /\ ProxyStage(r) /\ AuthOk(r)
    /\ NotConnect(r)
    /\ IF r.uri.host = None
         THEN Done(r, "rewriteErr", "error", None, AuthUser(r), None)
         ELSE \E kind \in {"return", "error"} :
                Done(r, "simple", kind, None, AuthUser(r), ModHttp1ProxyReq(r))

\* The connection's next request; hyper reads it once the previous response
\* has been written (HTTP/1.1 keep-alive, one stream at a time).
Handle ==
    /\ conn = "open" /\ out = None
    /\ \E r \in Requests :
         \/ HandleResolveError(r)
         \/ HandleReverse(r)
         \/ HandleServeDenied(r)
         \/ HandleServe(r)
         \/ HandleAuthFail(r)
         \/ HandleTunnel(r)
         \/ HandleBadConnect(r)
         \/ HandleSimple(r)

\* hyper writes the response and waits for the next request.
Respond ==
    /\ conn = "open" /\ out # None
    /\ out' = None
    /\ UNCHANGED <<config, param, conn>>

\* The client closes a kept-alive connection.
ClientClose ==
    /\ conn = "open"
    /\ conn' = "closed" /\ out' = None
    /\ UNCHANGED <<config, param>>

\* The listener accepts a new connection.
Accept ==
    /\ conn \in {"closed", "upgraded"}
    /\ conn' = "open" /\ out' = None
    /\ UNCHANGED <<config, param>>

\* load_config (config.rs 168-188) at startup.
Init ==
    /\ param \in ParamSpace
    /\ config = LoadConfig(param)
    /\ conn = "open"
    /\ out = None

Next == Handle \/ Respond \/ ClientClose \/ Accept

Spec == Init /\ [][Next]_vars
----------------------------------------------------------------------------
(* Properties.                                                             *)

\* Requests, with any Host header and Proxy-* headers.
HttpRequests ==
    [method : {"GET", "CONNECT"}, version : {"HTTP/1.1", "HTTP/2"},
     uri : OriginUris \cup AbsoluteUris \cup AuthorityUris,
     hostHeader : Seq(Tokens) \cup {None}, proxyAuth : AuthValues,
     proxyConnection : BOOLEAN, client : ClientAddrs]

Outcomes ==
    [req : Requests, route : Routes, kind : Kinds, status : {200, 400, 404, 407, None},
     rule : Nat, user : UserNames \cup {"unknown", None},
     domain : Seq(Tokens) \cup {None}, fwd : HttpRequests \cup {None}]

\* Option::None, the absent outcome, is no outcome of handle.
ASSUME NoneAssumption == None \notin Outcomes

TypeOK ==
    /\ param \in Params
    /\ conn \in {"open", "upgraded", "closed"}
    /\ out \in Outcomes \cup {None}

\* A --users entry the operator could log in with.
Usable(u) == u.name # "" /\ u.pass # ""

\* Forward-proxy access control (proxy.rs 149-169): a request is tunnelled
\* or forwarded upstream only if it carried the credentials of a usable
\* --users entry, and is accounted to that user; or, when the command line
\* gives no usable entry, as the anonymous user "unknown".
ForwardOnlyAuthorized ==
    out # None /\ out.route \in {"tunnel", "simple"} =>
        \/ /\ \A u \in param.users : ~Usable(u)
           /\ out.user = "unknown"
        \/ \E u \in param.users :
              /\ Usable(u)
              /\ out.req.proxyAuth = BasicHeader(u)
              /\ out.user = u.name

\* Reverse-proxy routing (proxy.rs 89-107; spec 4.5): a non-CONNECT request
\* whose host has a bucket (else DEFAULT_HOST's) with a location that
\* prefixes its path goes to the reverse proxy, whatever its credentials,
\* and to the earliest such location; any other request does not.
ReverseRulesTakePrecedence ==
    out # None /\ out.domain # None =>
        LET key == IF out.domain \in DOMAIN Locations THEN out.domain ELSE DefaultHost
            rules == Locations[key]
            Matches(i) == IsPrefixOf(rules[i], out.req.uri.path)
        IN  /\ (out.route = "reverse") <=> (\E i \in 1..Len(rules) : Matches(i))
            /\ out.route = "reverse" =>
                  /\ Matches(out.rule)
                  /\ \A j \in 1..(out.rule - 1) : ~Matches(j)

\* The serving policy the operator asked for (config.rs 65-75): nothing when
\* --prohibit-serving, else every client when no network is given, else the
\* clients inside a given network, an IPv4-mapped IPv6 address counting as
\* its IPv4 address.
OperatorAllowsServing(p, client) ==
    /\ ~p.prohibitServing
    /\ \/ p.allowServingNetwork = {}
       \/ \E t \in p.allowServingNetwork \cap DOMAIN CidrNet : Canonical[client] \in CidrNet[t]

\* Static serving (proxy.rs 110-144): a request that reaches the serving
\* stage is served exactly when the operator's policy admits its client.
ServingAsConfigured ==
    out # None /\ out.route \in {"static", "serveDenied"} =>
        ((out.route = "static") <=> OperatorAllowsServing(param, out.req.client))

\* The request simple_proxy sends upstream (spec 8): no Proxy-* headers,
\* origin-form URI, and a Host header that is the URI's host, followed by
\* its port unless that is the scheme's default (80 for http and ws, 443
\* for https and wss).
DefaultPort(scheme) == IF scheme \in {"https", "wss"} THEN 443 ELSE 80
ForwardedRequestWellFormed ==
    out # None /\ out.route = "simple" =>
        LET f == out.fwd
            u == out.req.uri
        IN  /\ f.proxyAuth = None /\ ~f.proxyConnection
            /\ f.uri.scheme = None /\ f.uri.host = None /\ f.uri.port = None
            /\ f.uri.path = u.path
            /\ f.hostHeader = WireHost(u.host, IF u.port = DefaultPort(u.scheme)
                                                THEN None ELSE u.port)
            /\ f.method = out.req.method /\ f.client = out.req.client

\* The request domain (spec 3): for a non-CONNECT request whose Host header
\* is host h, optionally followed by ":port", extract_scheme_host_port
\* succeeds and the domain used for the location lookup is h.
RequestDomainIsHost ==
    out # None /\ NotConnect(out.req)
    /\ (\E h \in Hosts, p \in Ports \cup {None} : out.req.hostHeader = WireHost(h, p))
    => \E h \in Hosts, p \in Ports \cup {None} :
          /\ out.req.hostHeader = WireHost(h, p)
          /\ out.route # "resolveErr"
          /\ out.domain = HostText[h]

\* --users (config.rs 33-41, spec 7): once the operator passes --users, no
\* request is forwarded without the credentials of one of them.
UsersFlagEnforcesAuth ==
    out # None /\ out.route \in {"tunnel", "simple"} /\ param.users # {} =>
        \E u \in param.users : out.req.proxyAuth = BasicHeader(u)

\* config.rs 129-132, rule 2: when the proxy asks clients for credentials
\* (usable users, --never-ask-for-auth unset), static serving is prohibited.
AuthPromptingDisablesServing ==
    out # None /\ (\E u \in param.users : Usable(u)) /\ ~param.neverAskForAuth =>
        out.route # "static"

\* The refinement mapping to DispatchPolicy: the outcome's classification
\* is the policy's verdict, the resolver is extract_scheme_host_port with
\* the default scheme --over-tls selects, and the Config is internal.
ResolvesWith(overTls, r) == ExtractSchemeHostPortWith(r, DefaultScheme(overTls)).ok
DomainWith(overTls, r) == ExtractSchemeHostPortWith(r, DefaultScheme(overTls)).domain
Unanswered ==
    IF out = None THEN {}
    ELSE {[req |-> out.req, route |-> out.route, kind |-> out.kind, user |-> out.user]}
Policy == INSTANCE DispatchPolicy WITH HostResolves <- ResolvesWith, RequestDomain <- DomainWith,
                                     unanswered <- Unanswered

\* ProxyHandler::handle implements the decision tree of spec 4.6 over the
\* command line: each request is classified as the policy says (reverse
\* rules first, then the serving gate for HTTP/2 and host-less URIs, then
\* the credential check before a tunnel or a forwarded request), with the
\* outcome the policy allows, the user it accounts, and the connection
\* closed, upgraded or kept alive accordingly.
DispatcherImplementsPolicy == Policy!PolicySpec
=============================================================================
