---------------------------- MODULE DispatchPolicy ----------------------------
(***************************************************************************)
(* What the dispatcher promises a client connection (spec 4.3-4.6): every  *)
(* request is classified by the decision tree of spec 4.6, decided from    *)
(* the request and the command line alone, and the connection is closed   *)
(* after a Drop or an error, handed to the tunnel after an accepted        *)
(* CONNECT, and kept alive otherwise.  The policy is stated over the       *)
(* command line (Param), not over the Config built from it: the credential *)
(* table holds the --users entries with a name and a password, the serving *)
(* gate reads the --allow-serving-network texts that parse, and a location *)
(* rule matches when its path is a prefix of the request path.  The host   *)
(* resolver (spec 4.1) is a parameter: HostResolves(overTls, r) says       *)
(* whether it succeeds on r, and RequestDomain(overTls, r) is the domain   *)
(* it yields.  Dispatcher implements this under the mapping given in       *)
(* Dispatcher.tla.                                                         *)
(***************************************************************************)
EXTENDS ProxyConfig, Sequences

CONSTANTS
    Requests,       \* the requests a client may send
    HostResolves(_, _),   \* the HostResolver succeeds
    RequestDomain(_, _),  \* the RequestDomain it yields
    Locations,      \* ReverseProxyConfig: host key -> sequence of location paths
    DefaultHost,    \* the fallback host key DEFAULT_HOST
    Canonical,      \* a client address in its canonical (IPv4 when mapped) form
    ParamSpace      \* the command lines the process may be started with

VARIABLES
    param,    \* the command line
    conn,     \* "open", "upgraded" or "closed"
    unanswered  \* the verdict on the request whose response is still to be
                \* written: {} or a singleton (one request at a time)

pvars == <<param, conn, unanswered>>

\* AuthGate (spec 4.3): the credential table, and whether it admits r.
CredentialTable(p) == {u \in p.users : u.name # "" /\ u.pass # ""}
Authorized(p, r) ==
    CredentialTable(p) = {} \/ \E u \in CredentialTable(p) : r.proxyAuth = BasicHeader(u)
UserOf(p, r) ==
    IF CredentialTable(p) = {} THEN "unknown"
    ELSE (CHOOSE u \in CredentialTable(p) : r.proxyAuth = BasicHeader(u)).name

\* ServingGate (spec 4.4).
ServingPermitted(p, r) ==
    /\ ~p.prohibitServing
    /\ \/ p.allowServingNetwork = {}
       \/ \E t \in p.allowServingNetwork \cap DOMAIN CidrNet : Canonical[r.client] \in CidrNet[t]

\* LocationMatcher (spec 4.5): some rule of the domain's bucket prefixes the path.
Bucket(d) == Locations[IF d \in DOMAIN Locations THEN d ELSE DefaultHost]
PrefixOf(s, t) == Len(s) <= Len(t) /\ SubSeq(t, 1, Len(s)) = s
LocationHit(d, path) == \E i \in 1..Len(Bucket(d)) : PrefixOf(Bucket(d)[i], path)

\* The decision tree (spec 4.6): resolve, reverse proxy, serving stage for
\* HTTP/2 or a host-less URI, then the proxy stage.
Route(p, r) ==
    IF r.method # "CONNECT"
      THEN IF ~HostResolves(p.overTls, r) THEN "resolveErr"
           ELSE IF LocationHit(RequestDomain(p.overTls, r), r.uri.path) THEN "reverse"
           ELSE IF r.version = "HTTP/2" \/ r.uri.host = None
                  THEN IF ServingPermitted(p, r) THEN "static" ELSE "serveDenied"
           ELSE IF Authorized(p, r) THEN "simple" ELSE "authFail"
    ELSE IF ~Authorized(p, r) THEN "authFail"
    ELSE IF r.uri.host # None THEN "tunnel" ELSE "badConnect"

\* The outcomes each route may have (spec 2, 4.3, 4.4, 7): Drop, Return,
\* Continue, or an error that ends the connection; the answers of the
\* reverse proxy, the static responder and the upstream are the
\* collaborators' to choose.
OutcomeKinds(p, route) ==
    CASE route = "resolveErr"  -> {"error"}
      [] route = "serveDenied" -> {"drop"}
      [] route = "static"      -> {"return", "continue", "error"}
      [] route = "authFail"    -> IF p.neverAskForAuth THEN {"error"} ELSE {"return"}
      [] route \in {"tunnel", "badConnect"} -> {"return"}
      [] OTHER                 -> {"return", "error"}

\* The user a forward-proxy request is accounted to.
VerdictUser(p, r, route) ==
    IF route \in {"tunnel", "badConnect", "simple"} THEN UserOf(p, r) ELSE None

ConnAfter(route, kind) ==
    IF kind \in {"drop", "error"} THEN "closed"
    ELSE IF route = "tunnel" THEN "upgraded" ELSE "open"

PolicyInit ==
    /\ param \in ParamSpace
    /\ conn = "open"
    /\ unanswered = {}

\* The next request of an open connection whose last answer has been sent.
Decide ==
    /\ conn = "open" /\ unanswered = {}
    /\ \E r \in Requests : \E kind \in OutcomeKinds(param, Route(param, r)) :
         /\ unanswered' = {[req |-> r, route |-> Route(param, r), kind |-> kind,
                            user |-> VerdictUser(param, r, Route(param, r))]}
         /\ conn' = ConnAfter(Route(param, r), kind)
    /\ UNCHANGED param

Reply ==
    /\ conn = "open" /\ unanswered # {}
    /\ unanswered' = {}
    /\ UNCHANGED <<param, conn>>

HangUp ==
    /\ conn = "open"
    /\ conn' = "closed" /\ unanswered' = {}
    /\ UNCHANGED param

NewConnection ==
    /\ conn \in {"closed", "upgraded"}
    /\ conn' = "open" /\ unanswered' = {}
    /\ UNCHANGED param

PolicyNext == Decide \/ Reply \/ HangUp \/ NewConnection

PolicySpec == PolicyInit /\ [][PolicyNext]_pvars
=============================================================================
