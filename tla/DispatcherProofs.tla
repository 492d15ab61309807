--------------------------- MODULE DispatcherProofs ---------------------------
(***************************************************************************)
(* Proofs about ProxyHandler::handle, for every configuration, location   *)
(* table and request universe the assumptions of Dispatcher allow: every *)
(* invariant the dispatcher run checks, TypeOK included, and the two      *)
(* properties the bad_cidr and bad_user runs refute, under the hypothesis *)
(* that excludes their counterexample.  The configuration is built once   *)
(* and never changes, so each property is proved from what a single      *)
(* Handle step records in out, together with facts about Config::try_from *)
(* and about the operators the branches are built from.                   *)
(***************************************************************************)
EXTENDS Dispatcher, WellFoundedInduction, SequenceTheorems, TLAPS

\* The configuration is the one load_config built from the command line.
ConfigInv == param \in ParamSpace /\ config = LoadConfig(param)

\* Every command line of the instance is a Param.
LEMMA ParamSpaceTyped == ParamSpace \subseteq Params
BY ParamSpaceAssumption

\* Every step leaves the configuration alone.
LEMMA ConfigUnchanged == [Next]_vars => UNCHANGED <<config, param>>
BY DEF Next, Handle, Respond, ClientClose, Accept, vars, Done,
       HandleResolveError, HandleReverse, HandleServeDenied, HandleServe,
       HandleAuthFail, HandleTunnel, HandleBadConnect, HandleSimple

LEMMA ConfigInvHolds == Spec => []ConfigInv
<1>1. Init => ConfigInv
  BY DEF Init, ConfigInv
<1>2. ConfigInv /\ [Next]_vars => ConfigInv'
  BY ConfigUnchanged DEF ConfigInv
<1>3. QED
  BY <1>1, <1>2, PTL DEF Spec

\* What Done records, without unfolding the location lookup.
LEMMA DoneFields ==
    ASSUME NEW r, NEW route, NEW kind, NEW status, NEW user, NEW fwd,
           Done(r, route, kind, status, user, fwd)
    PROVE  /\ out'.req = r /\ out'.route = route /\ out'.kind = kind
           /\ out'.status = status /\ out'.user = user /\ out'.fwd = fwd
           /\ out'.rule = IF route = "reverse" THEN Location(r) ELSE 0
           /\ out'.domain = IF NotConnect(r) /\ ExtractSchemeHostPort(r).ok
                               THEN Domain(r) ELSE None
BY DEF Done

\* A non-empty set of naturals has a least element, so the CHOOSE of
\* FirstIndex picks the first index that satisfies the test.  (Less-than
\* on Nat is well founded.)
LEMMA LeastIndex ==
    ASSUME NEW M \in SUBSET Nat, M # {}
    PROVE  LET k == CHOOSE i \in M : \A j \in M : i <= j
           IN  k \in M /\ \A j \in M : k <= j
<1>1. \E x \in M : \A y \in M : ~(<<y, x>> \in OpToRel(<, Nat))
  <2>1. IsWellFoundedOn(OpToRel(<, Nat), Nat)
    BY NatLessThanWellFounded
  <2>2. M \subseteq Nat
    OBVIOUS
  <2>3. QED
    BY <2>1, <2>2, WFMin, Zenon
<1>2. \E x \in M : \A y \in M : x <= y
  <2>1. PICK x \in M : \A y \in M : ~(<<y, x>> \in OpToRel(<, Nat))
    BY <1>1
  <2>2. ASSUME NEW y \in M PROVE x <= y
    <3>1. <<y, x>> \in Nat \X Nat
      OBVIOUS
    <3>2. ~(y < x)
      BY <2>1, <3>1 DEF OpToRel
    <3>3. QED
      BY <3>2
  <2>3. QED
    BY <2>2
<1>3. QED
  BY <1>2

\* config.rs 113-122: a request passes the auth check with the
\* credentials of a usable --users entry, accounted to that user; or, when
\* there is none, with any credentials as "unknown".
LEMMA AuthAccounting ==
    ASSUME NEW p \in Params, config = LoadConfig(p), NEW r, AuthOk(r)
    PROVE  \/ /\ \A u \in p.users : ~Usable(u)
              /\ AuthUser(r) = "unknown"
           \/ \E u \in p.users :
                 /\ Usable(u)
                 /\ r.proxyAuth = BasicHeader(u)
                 /\ AuthUser(r) = u.name
<1> DEFINE kept == {u \in p.users : u.name # "" /\ u.pass # ""}
<1>1. config.basicAuth = [h \in {BasicHeader(u) : u \in kept} |-> h[2].name]
  BY DEF LoadConfig, BuildBasicAuth
<1>2. CASE kept = {}
  <2>1. DOMAIN config.basicAuth = {}
    BY <1>1, <1>2
  <2>2. QED
    BY <1>2, <2>1 DEF AuthUser, Usable
<1>3. CASE kept # {}
  <2>1. DOMAIN config.basicAuth # {}
    BY <1>1, <1>3 DEF BasicHeader
  <2>2. PICK u \in kept : r.proxyAuth = BasicHeader(u)
    BY <1>1, <2>1 DEF AuthOk
  <2>3. AuthUser(r) = u.name
    <3>1. BasicHeader(u) \in {BasicHeader(v) : v \in kept}
      OBVIOUS
    <3>2. config.basicAuth[r.proxyAuth] = BasicHeader(u)[2].name
      BY <1>1, <2>2, <3>1
    <3>3. QED
      BY <2>1, <3>2 DEF AuthUser, BasicHeader
  <2>4. QED
    BY <2>2, <2>3 DEF Usable
<1>4. QED
  BY <1>2, <1>3

\* Forward-proxy access control holds for every configuration: only the
\* tunnel and simple_proxy branches forward, and both sit behind AuthOk.
THEOREM ForwardOnlyAuthorizedHolds == Spec => []ForwardOnlyAuthorized
<1>1. Init => ForwardOnlyAuthorized
  BY DEF Init, ForwardOnlyAuthorized
<1>2. ConfigInv /\ ForwardOnlyAuthorized /\ [Next]_vars => ForwardOnlyAuthorized'
  <2> SUFFICES ASSUME ConfigInv, ForwardOnlyAuthorized, [Next]_vars
               PROVE ForwardOnlyAuthorized'
    OBVIOUS
  <2>0. param \in Params /\ param' = param /\ config' = config
    <3>1. param \in Params
      <4>1. param \in ParamSpace
        BY DEF ConfigInv
      <4>2. QED
        BY <4>1, ParamSpaceTyped, Zenon
    <3>2. UNCHANGED <<config, param>>
      BY ConfigUnchanged
    <3>3. QED
      BY <3>1, <3>2
  <2>1. CASE Handle
    <3> PICK r \in Requests :
          \/ HandleResolveError(r) \/ HandleReverse(r) \/ HandleServeDenied(r)
          \/ HandleServe(r) \/ HandleAuthFail(r) \/ HandleTunnel(r)
          \/ HandleBadConnect(r) \/ HandleSimple(r)
      BY <2>1 DEF Handle
    <3>1. CASE HandleTunnel(r) \/ HandleSimple(r)
      <4>1. AuthOk(r)
        BY <3>1 DEF HandleTunnel, HandleSimple
      <4>2. out'.req = r /\ out'.route \in {"tunnel", "simple", "rewriteErr"}
            /\ (out'.route \in {"tunnel", "simple"} => out'.user = AuthUser(r))
        BY <3>1, DoneFields DEF HandleTunnel, HandleSimple
      <4>3. QED
        BY <2>0, <4>1, <4>2, AuthAccounting DEF ForwardOnlyAuthorized, ConfigInv
    <3>2. CASE ~(HandleTunnel(r) \/ HandleSimple(r))
      <4>1. out'.route \notin {"tunnel", "simple"}
        BY <3>2, DoneFields
           DEF HandleResolveError, HandleReverse, HandleServeDenied, HandleServe,
               HandleAuthFail, HandleBadConnect
      <4>2. QED
        BY <4>1 DEF ForwardOnlyAuthorized
    <3>3. QED
      BY <3>1, <3>2
  <2>2. CASE Respond \/ ClientClose \/ Accept
    BY <2>2 DEF Respond, ClientClose, Accept, ForwardOnlyAuthorized
  <2>3. CASE UNCHANGED vars
    BY <2>3 DEF vars, ForwardOnlyAuthorized
  <2>4. QED
    BY <2>1, <2>2, <2>3 DEF Next
<1>3. QED
  BY <1>1, <1>2, ConfigInvHolds, PTL DEF Spec

\* The command lines on which try_from's skipping of an unparsable
\* --allow-serving-network (config.rs 140-146) is harmless: when networks
\* are given, at least one of them parses.
SomeNetworkParses(p) ==
    p.allowServingNetwork # {} => p.allowServingNetwork \cap DOMAIN CidrNet # {}

\* config.rs 133-148 and proxy.rs 112-130: on such a command line the
\* networks try_from keeps admit exactly the clients the operator's flags do.
LEMMA ServingAllowedMatches ==
    ASSUME NEW p \in Params, SomeNetworkParses(p), config = LoadConfig(p), NEW r
    PROVE  ServingAllowed(r) <=> OperatorAllowsServing(p, r.client)
<1> DEFINE ok == p.allowServingNetwork \cap DOMAIN CidrNet
<1>1. config.prohibitServing = p.prohibitServing
  BY DEF LoadConfig
<1>2. CASE p.prohibitServing
  BY <1>1, <1>2 DEF ServingAllowed, OperatorAllowsServing
<1>3. CASE ~p.prohibitServing /\ p.allowServingNetwork = {}
  <2>1. config.allowedNetworks = {}
    BY <1>3 DEF LoadConfig, BuildAllowedNetworks
  <2>2. QED
    BY <1>1, <1>3, <2>1 DEF ServingAllowed, OperatorAllowsServing
<1>4. CASE ~p.prohibitServing /\ p.allowServingNetwork # {}
  <2>1. config.allowedNetworks = {CidrNet[t] : t \in ok}
    BY <1>4 DEF LoadConfig, BuildAllowedNetworks
  <2>2. ok # {}
    BY <1>4 DEF SomeNetworkParses
  <2>3. ServingAllowed(r) <=> \E t \in ok : Canonical[r.client] \in CidrNet[t]
    BY <1>1, <1>4, <2>1, <2>2 DEF ServingAllowed
  <2>4. QED
    BY <1>4, <2>3 DEF OperatorAllowsServing
<1>5. QED
  BY <1>2, <1>3, <1>4

\* Static serving follows the operator's policy for every configuration
\* whose --allow-serving-network list, when given, has a text that parses:
\* the serving stage serves a client exactly when the flags admit it.
\* (Without the hypothesis it fails: run dispatcher_bad_cidr.)
THEOREM ServingAsConfiguredHolds ==
    ASSUME \A p \in ParamSpace : SomeNetworkParses(p)
    PROVE  Spec => []ServingAsConfigured
<1>1. Init => ServingAsConfigured
  BY DEF Init, ServingAsConfigured
<1>2. ConfigInv /\ ServingAsConfigured /\ [Next]_vars => ServingAsConfigured'
  <2> SUFFICES ASSUME ConfigInv, ServingAsConfigured, [Next]_vars
               PROVE ServingAsConfigured'
    OBVIOUS
  <2>0. /\ param \in Params /\ SomeNetworkParses(param)
        /\ param' = param /\ config' = config
    <3>1. param \in ParamSpace
      BY DEF ConfigInv
    <3>2. param \in Params
      BY <3>1, ParamSpaceTyped, Zenon
    <3>3. UNCHANGED <<config, param>>
      BY ConfigUnchanged
    <3>4. QED
      BY <3>1, <3>2, <3>3
  <2>1. CASE Handle
    <3> PICK r \in Requests :
          \/ HandleResolveError(r) \/ HandleReverse(r) \/ HandleServeDenied(r)
          \/ HandleServe(r) \/ HandleAuthFail(r) \/ HandleTunnel(r)
          \/ HandleBadConnect(r) \/ HandleSimple(r)
      BY <2>1 DEF Handle
    <3>1. ServingAllowed(r) <=> OperatorAllowsServing(param, r.client)
      BY <2>0, ServingAllowedMatches DEF ConfigInv
    <3>2. CASE HandleServe(r)
      <4>1. PICK res \in ServeResults(r) :
              Done(r, "static",
                   CASE res = 404 -> "continue" [] res = None -> "error" [] OTHER -> "return",
                   res, None, None)
        BY <3>2 DEF HandleServe
      <4>2. PICK kind : Done(r, "static", kind, res, None, None)
        BY <4>1, Zenon
      <4>3. out'.req = r /\ out'.route = "static"
        BY <4>2, DoneFields
      <4>4. ServingAllowed(r)
        BY <3>2 DEF HandleServe
      <4>5. QED
        BY <2>0, <3>1, <4>3, <4>4 DEF ServingAsConfigured
    <3>3. CASE HandleServeDenied(r)
      <4>1. out'.req = r /\ out'.route = "serveDenied"
        BY <3>3, DoneFields DEF HandleServeDenied
      <4>2. ~ServingAllowed(r)
        BY <3>3 DEF HandleServeDenied
      <4>3. QED
        BY <2>0, <3>1, <4>1, <4>2 DEF ServingAsConfigured
    <3>4. CASE ~HandleServe(r) /\ ~HandleServeDenied(r)
      <4>1. out'.route \notin {"static", "serveDenied"}
        BY <3>4, DoneFields
           DEF HandleResolveError, HandleReverse, HandleAuthFail, HandleTunnel,
               HandleBadConnect, HandleSimple
      <4>2. QED
        BY <4>1 DEF ServingAsConfigured
    <3>5. QED
      BY <3>2, <3>3, <3>4
  <2>2. CASE Respond \/ ClientClose \/ Accept
    BY <2>2 DEF Respond, ClientClose, Accept, ServingAsConfigured
  <2>3. CASE UNCHANGED vars
    BY <2>3 DEF vars, ServingAsConfigured
  <2>4. QED
    BY <2>1, <2>2, <2>3 DEF Next
<1>3. QED
  BY <1>1, <1>2, ConfigInvHolds, PTL DEF Spec

\* The location lookup of handle (proxy.rs 89-100) for one request: the
\* indices of its bucket whose location prefixes its path, and the index
\* FindLocation returns, which is 0 when there is none and else the least.
LEMMA LocationIsFirstMatch ==
    ASSUME NEW r
    PROVE  LET rules == Locations[LocationKey(Domain(r))]
               M == {i \in 1..Len(rules) : IsPrefixOf(rules[i], r.uri.path)}
           IN  /\ (Location(r) = 0) <=> (M = {})
               /\ M # {} => /\ Location(r) \in M
                            /\ \A j \in M : Location(r) <= j
<1> DEFINE rules == Locations[LocationKey(Domain(r))]
           M == {i \in 1..Len(rules) : IsPrefixOf(rules[i], r.uri.path)}
<1>1. Location(r) = IF M = {} THEN 0 ELSE CHOOSE i \in M : \A j \in M : i <= j
  BY DEF Location, FindLocation, FirstIndex
<1>2. M \in SUBSET Nat /\ 0 \notin M
  OBVIOUS
<1>3. M # {} => Location(r) \in M /\ \A j \in M : Location(r) <= j
  BY <1>1, <1>2, LeastIndex
<1>4. QED
  BY <1>1, <1>2, <1>3

\* Every branch of handle ends in Done for its request.
LEMMA HandleDone ==
    ASSUME NEW r,
           \/ HandleResolveError(r) \/ HandleReverse(r) \/ HandleServeDenied(r)
           \/ HandleServe(r) \/ HandleAuthFail(r) \/ HandleTunnel(r)
           \/ HandleBadConnect(r) \/ HandleSimple(r)
    PROVE  \E route, kind, status, user, fwd : Done(r, route, kind, status, user, fwd)
<1> DEFINE Ends == \E route, kind, status, user, fwd : Done(r, route, kind, status, user, fwd)
<1>1. HandleResolveError(r) \/ HandleServeDenied(r) \/ HandleTunnel(r) \/ HandleBadConnect(r)
      => Ends
  BY Zenon DEF HandleResolveError, HandleServeDenied, HandleTunnel, HandleBadConnect
<1>2. HandleReverse(r) => Ends
  BY Zenon DEF HandleReverse
<1>3. HandleServe(r) => Ends
  BY Zenon DEF HandleServe
<1>4. HandleAuthFail(r) => Ends
  <2>1. CASE config.neverAskForAuth
    BY <2>1, Zenon DEF HandleAuthFail
  <2>2. CASE ~config.neverAskForAuth
    BY <2>2, Zenon DEF HandleAuthFail
  <2>3. QED
    BY <2>1, <2>2
<1>5. HandleSimple(r) => Ends
  <2>1. CASE r.uri.host = None
    BY <2>1, Zenon DEF HandleSimple
  <2>2. CASE r.uri.host # None
    BY <2>2, Zenon DEF HandleSimple
  <2>3. QED
    BY <2>1, <2>2
<1>6. QED
  BY <1>1, <1>2, <1>3, <1>4, <1>5

\* Reverse-proxy routing is the first-match lookup for every location
\* table: the reverse proxy takes a request exactly when a location of its
\* bucket prefixes its path, and then the earliest such location, before
\* the serving and proxy stages see it.
THEOREM ReverseRulesTakePrecedenceHolds == Spec => []ReverseRulesTakePrecedence
<1>1. Init => ReverseRulesTakePrecedence
  BY DEF Init, ReverseRulesTakePrecedence
<1>2. ReverseRulesTakePrecedence /\ [Next]_vars => ReverseRulesTakePrecedence'
  <2> SUFFICES ASSUME ReverseRulesTakePrecedence, [Next]_vars
               PROVE ReverseRulesTakePrecedence'
    OBVIOUS
  <2>1. CASE Handle
    <3> PICK r \in Requests :
          \/ HandleResolveError(r) \/ HandleReverse(r) \/ HandleServeDenied(r)
          \/ HandleServe(r) \/ HandleAuthFail(r) \/ HandleTunnel(r)
          \/ HandleBadConnect(r) \/ HandleSimple(r)
      BY <2>1 DEF Handle
    <3> DEFINE rules == Locations[LocationKey(Domain(r))]
               M == {i \in 1..Len(rules) : IsPrefixOf(rules[i], r.uri.path)}
    <3>1. PICK route, kind, status, user, fwd : Done(r, route, kind, status, user, fwd)
      BY HandleDone
    <3>2. /\ out'.req = r /\ out'.route = route
          /\ out'.rule = IF route = "reverse" THEN Location(r) ELSE 0
          /\ out'.domain = IF NotConnect(r) /\ ExtractSchemeHostPort(r).ok
                              THEN Domain(r) ELSE None
      BY <3>1, DoneFields
    <3>3. CASE ~(NotConnect(r) /\ ExtractSchemeHostPort(r).ok)
      BY <3>2, <3>3 DEF ReverseRulesTakePrecedence
    <3>4. CASE NotConnect(r) /\ ExtractSchemeHostPort(r).ok
      <4>1. SUFFICES /\ (route = "reverse") <=> (M # {})
                     /\ route = "reverse" =>
                          /\ Location(r) \in M
                          /\ \A j \in 1..(Location(r) - 1) : j \notin M
        BY <3>2, <3>4 DEF ReverseRulesTakePrecedence, LocationKey
      <4>2. CASE HandleReverse(r)
        <5>1. route = "reverse" /\ Location(r) # 0
          BY <3>1, <4>2, DoneFields DEF HandleReverse
        <5>2. M # {} /\ Location(r) \in M /\ \A j \in M : Location(r) <= j
          BY <5>1, LocationIsFirstMatch
        <5>3. QED
          BY <5>1, <5>2
      <4>3. CASE ~HandleReverse(r)
        <5>1. route # "reverse"
          BY <3>1, <4>3, DoneFields
             DEF HandleResolveError, HandleServeDenied, HandleServe,
                 HandleAuthFail, HandleTunnel, HandleBadConnect, HandleSimple
        <5>2. Location(r) = 0
          BY <3>4, <4>3
             DEF HandleResolveError, HandleServeDenied, HandleServe, HandleAuthFail,
                 HandleTunnel, HandleBadConnect, HandleSimple, ProxyStage, Unrouted
        <5>3. QED
          BY <5>1, <5>2, LocationIsFirstMatch
      <4>4. QED
        BY <4>2, <4>3
    <3>5. QED
      BY <3>3, <3>4
  <2>2. CASE Respond \/ ClientClose \/ Accept
    BY <2>2 DEF Respond, ClientClose, Accept, ReverseRulesTakePrecedence
  <2>3. CASE UNCHANGED vars
    BY <2>3 DEF vars, ReverseRulesTakePrecedence
  <2>4. QED
    BY <2>1, <2>2, <2>3 DEF Next
<1>3. QED
  BY <1>1, <1>2, PTL DEF Spec

\* The tokens of every URI host form a sequence.
LEMMA HostTextTyped == \A h \in Hosts : HostText[h] \in Seq(Tokens)
BY DispatcherAssumption

\* A request simple_proxy can receive (proxy.rs 148, 183): not CONNECT, not
\* HTTP/2 and with a URI host, so it came in absolute form over HTTP/1.1.
LEMMA ForwardableIsAbsolute ==
    ASSUME NEW r \in Requests, NotConnect(r), r.version # "HTTP/2", r.uri.host # None
    PROVE  r.uri \in AbsoluteUris
BY DEF Requests, RequestsOf, OriginUris, AuthorityUris, NotConnect

\* mod_http1_proxy_req's Host header (proxy.rs 315-324) is the URI host,
\* with the port unless it is the default port of the URI's scheme.
LEMMA HostHeaderElidesDefaultPort ==
    ASSUME NEW u \in AbsoluteUris
    PROVE  HostHeaderFor(u) = WireHost(u.host, IF u.port = DefaultPort(u.scheme)
                                                THEN None ELSE u.port)
<1>1. HostText[u.host] \in Seq(Tokens)
  BY HostTextTyped DEF AbsoluteUris
<1>2. CASE u.port = None
  BY <1>1, <1>2 DEF HostHeaderFor, WireHost
<1>3. CASE u.port # None /\ u.port = DefaultPort(u.scheme)
  BY <1>1, <1>3 DEF HostHeaderFor, WireHost, DefaultPort, IsSchemaSecure
<1>4. CASE u.port # None /\ u.port # DefaultPort(u.scheme)
  BY <1>1, <1>4 DEF HostHeaderFor, WireHost, DefaultPort, IsSchemaSecure
<1>5. QED
  BY <1>2, <1>3, <1>4

\* What simple_proxy sends upstream is in origin form, has no Proxy-*
\* headers, and carries the Host header of the URI's authority, with a
\* default port elided, for every configuration and request universe.
THEOREM ForwardedRequestWellFormedHolds == Spec => []ForwardedRequestWellFormed
<1>1. Init => ForwardedRequestWellFormed
  BY DEF Init, ForwardedRequestWellFormed
<1>2. ForwardedRequestWellFormed /\ [Next]_vars => ForwardedRequestWellFormed'
  <2> SUFFICES ASSUME ForwardedRequestWellFormed, [Next]_vars
               PROVE ForwardedRequestWellFormed'
    OBVIOUS
  <2>1. CASE Handle
    <3> PICK r \in Requests :
          \/ HandleResolveError(r) \/ HandleReverse(r) \/ HandleServeDenied(r)
          \/ HandleServe(r) \/ HandleAuthFail(r) \/ HandleTunnel(r)
          \/ HandleBadConnect(r) \/ HandleSimple(r)
      BY <2>1 DEF Handle
    <3>1. CASE HandleSimple(r) /\ r.uri.host # None
      <4>1. NotConnect(r) /\ r.version # "HTTP/2"
        BY <3>1 DEF HandleSimple, ProxyStage, Unrouted, ToServing
      <4>2. r.uri \in AbsoluteUris
        BY <3>1, <4>1, ForwardableIsAbsolute
      <4>3. PICK kind \in {"return", "error"} :
              Done(r, "simple", kind, None, AuthUser(r), ModHttp1ProxyReq(r))
        BY <3>1 DEF HandleSimple
      <4>4. out'.req = r /\ out'.fwd = ModHttp1ProxyReq(r)
        BY <4>3, DoneFields
      <4>5. r.uri.path # <<>>
        BY <4>2, PathAssumption DEF AbsoluteUris
      <4>6. HostHeaderFor(r.uri) = WireHost(r.uri.host,
                IF r.uri.port = DefaultPort(r.uri.scheme) THEN None ELSE r.uri.port)
        BY <4>2, HostHeaderElidesDefaultPort
      <4>7. r \in [method : {"GET"}, version : {"HTTP/1.1"}, uri : AbsoluteUris,
                   hostHeader : HostHeaders \cup {None}, proxyAuth : AuthValues,
                   proxyConnection : {TRUE}, client : ClientAddrs]
        BY <4>1, <4>2 DEF Requests, RequestsOf, NotConnect
      <4>8. QED
        BY <4>4, <4>5, <4>6, <4>7
           DEF ForwardedRequestWellFormed, ModHttp1ProxyReq, OriginForm
    <3>2. CASE ~(HandleSimple(r) /\ r.uri.host # None)
      <4>1. out'.route # "simple"
        BY <3>2, DoneFields
           DEF HandleResolveError, HandleReverse, HandleServeDenied, HandleServe,
               HandleAuthFail, HandleTunnel, HandleBadConnect, HandleSimple
      <4>2. QED
        BY <4>1 DEF ForwardedRequestWellFormed
    <3>3. QED
      BY <3>1, <3>2
  <2>2. CASE Respond \/ ClientClose \/ Accept
    BY <2>2 DEF Respond, ClientClose, Accept, ForwardedRequestWellFormed
  <2>3. CASE UNCHANGED vars
    BY <2>3 DEF vars, ForwardedRequestWellFormed
  <2>4. QED
    BY <2>1, <2>2, <2>3 DEF Next
<1>3. QED
  BY <1>1, <1>2, PTL DEF Spec

\* split(':').next() (proxy.rs 381, 402-405) of a header value is a
\* string: the whole value, or what precedes its first ':'.
LEMMA FirstSegmentTyped ==
    ASSUME NEW hh \in Seq(Tokens)
    PROVE  FirstSegment(hh) \in Seq(Tokens)
<1> DEFINE M == {i \in 1..Len(hh) : hh[i] = ":"}
<1>1. Colon(hh) = IF M = {} THEN 0 ELSE CHOOSE i \in M : \A j \in M : i <= j
  BY DEF Colon, FirstIndex
<1>2. M # {} => Colon(hh) \in 1..Len(hh)
  <2>1. M \in SUBSET Nat
    OBVIOUS
  <2>2. M # {} => Colon(hh) \in M
    BY <1>1, <2>1, LeastIndex
  <2>3. QED
    BY <2>2
<1>3. CASE Colon(hh) = 0
  BY <1>3 DEF FirstSegment
<1>4. CASE Colon(hh) # 0
  <2>1. Colon(hh) \in 1..Len(hh)
    BY <1>1, <1>2, <1>4
  <2>2. \A i \in 1..(Colon(hh) - 1) : hh[i] \in Tokens
    BY <2>1, ElementOfSeq
  <2>3. SubSeq(hh, 1, Colon(hh) - 1) \in Seq(Tokens)
    BY <2>1, <2>2, SubSeqProperties
  <2>4. QED
    BY <1>4, <2>3 DEF FirstSegment
<1>5. QED
  BY <1>3, <1>4

\* The request domain extract_scheme_host_port returns is a string.
LEMMA DomainTyped ==
    ASSUME NEW r \in Requests, ExtractSchemeHostPort(r).ok
    PROVE  Domain(r) \in Seq(Tokens)
<1>1. r.hostHeader \in HostHeaders \cup {None}
  BY DEF Requests, RequestsOf
<1>2. r.hostHeader # None => r.hostHeader \in Seq(Tokens)
  BY <1>1, TextAssumption
<1>3. r.version = "HTTP/2" => r.uri.host \in Hosts
  BY DEF Requests, RequestsOf, AbsoluteUris, AuthorityUris, ExtractSchemeHostPort, ExtractSchemeHostPortWith,
         Unresolved
<1>4. r.hostHeader # None => FirstSegment(r.hostHeader) \in Seq(Tokens)
  BY <1>2, FirstSegmentTyped
<1>5. QED
  BY <1>2, <1>3, <1>4, HostTextTyped
     DEF Domain, ExtractSchemeHostPort, ExtractSchemeHostPortWith, Unresolved, Resolved

\* The location index FindLocation returns is a natural number.
LEMMA LocationTyped ==
    ASSUME NEW r PROVE Location(r) \in Nat
BY LocationIsFirstMatch

\* The user check_auth returns for an admitted request is a --users name,
\* or "unknown" when basic_auth is empty.
LEMMA AuthUserTyped ==
    ASSUME ConfigInv, NEW r, AuthOk(r)
    PROVE  AuthUser(r) \in UserNames \cup {"unknown"}
<1>1. param \in Params
  BY ParamSpaceTyped DEF ConfigInv
<1>2. QED
  BY <1>1, AuthAccounting DEF ConfigInv, Params, RawUsers

\* The request mod_http1_proxy_req produces from an absolute-form request
\* is a request: in origin form, with a Host header that is a string.
LEMMA RewrittenTyped ==
    ASSUME NEW r \in Requests, r.uri \in AbsoluteUris
    PROVE  ModHttp1ProxyReq(r) \in HttpRequests
<1>1. HostText[r.uri.host] \in Seq(Tokens)
  BY HostTextTyped DEF AbsoluteUris
<1>2. r.uri.port # None => PortText(r.uri.port) \in Tokens
  <2>1. r.uri.port # None => \E t \in DOMAIN Numeral : Numeral[t] = r.uri.port
    BY DispatcherAssumption DEF AbsoluteUris
  <2>2. QED
    BY <2>1, TextAssumption DEF PortText
<1>3. HostHeaderFor(r.uri) \in Seq(Tokens)
  <2>1. r.uri.port # None => <<":", PortText(r.uri.port)>> \in Seq(Tokens)
    <3> SUFFICES ASSUME r.uri.port # None
                 PROVE <<":", PortText(r.uri.port)>> \in Seq(Tokens)
      OBVIOUS
    <3>1. <<":", PortText(r.uri.port)>> \in [1..2 -> Tokens]
      BY <1>2, TextAssumption
    <3>2. QED
      BY <3>1, SeqDef
  <2>2. r.uri.port # None
        => HostText[r.uri.host] \o <<":", PortText(r.uri.port)>> \in Seq(Tokens)
    BY <1>1, <2>1, ConcatProperties
  <2>3. QED
    BY <1>1, <2>2 DEF HostHeaderFor
<1>4. OriginForm(r.uri) \in OriginUris
  BY PathAssumption DEF OriginForm, OriginUris, AbsoluteUris
<1>5. r \in [method : {"GET", "CONNECT"}, version : {"HTTP/1.1", "HTTP/2"},
             uri : AbsoluteUris, hostHeader : HostHeaders \cup {None},
             proxyAuth : AuthValues, proxyConnection : {TRUE}, client : ClientAddrs]
  BY DEF Requests, RequestsOf
<1>6. None \in AuthValues
  BY DEF AuthValues
<1>7. QED
  BY <1>3, <1>4, <1>5, <1>6 DEF ModHttp1ProxyReq, HttpRequests

\* The outcome Done records, and the connection state it leaves.
LEMMA DoneRecord ==
    ASSUME NEW r, NEW route, NEW kind, NEW status, NEW user, NEW fwd,
           Done(r, route, kind, status, user, fwd)
    PROVE  /\ out' = [req |-> r, route |-> route, kind |-> kind, status |-> status,
                      rule |-> IF route = "reverse" THEN Location(r) ELSE 0,
                      user |-> user,
                      domain |-> IF NotConnect(r) /\ ExtractSchemeHostPort(r).ok
                                   THEN Domain(r) ELSE None,
                      fwd |-> fwd]
           /\ conn' \in {"open", "upgraded", "closed"}
           /\ param' = param
<1>1. out' = [req |-> r, route |-> route, kind |-> kind, status |-> status,
              rule |-> IF route = "reverse" THEN Location(r) ELSE 0,
              user |-> user,
              domain |-> IF NotConnect(r) /\ ExtractSchemeHostPort(r).ok
                           THEN Domain(r) ELSE None,
              fwd |-> fwd]
  BY DEF Done
<1>2. conn' \in {"open", "upgraded", "closed"}
  BY Zenon DEF Done
<1>3. param' = param
  BY DEF Done
<1>4. QED
  BY <1>1, <1>2, <1>3

\* Done with well-typed arguments leaves a well-typed outcome.
LEMMA DoneTyped ==
    ASSUME NEW r \in Requests, NEW route \in Routes, NEW kind \in Kinds,
           NEW status \in {200, 400, 404, 407, None},
           NEW user \in UserNames \cup {"unknown", None},
           NEW fwd \in HttpRequests \cup {None},
           Done(r, route, kind, status, user, fwd)
    PROVE  out' \in Outcomes /\ conn' \in {"open", "upgraded", "closed"} /\ param' = param
<1>1. Location(r) \in Nat
  BY LocationTyped
<1>2. NotConnect(r) /\ ExtractSchemeHostPort(r).ok => Domain(r) \in Seq(Tokens)
  BY DomainTyped
<1>3. QED
  BY <1>1, <1>2, DoneRecord DEF Outcomes

\* TypeOK holds together with ConfigInv in every reachable state.
\* Every branch of handle leaves a well-typed outcome and connection state.
LEMMA HandleTyped ==
    ASSUME ConfigInv, NEW r \in Requests,
           \/ HandleResolveError(r) \/ HandleReverse(r) \/ HandleServeDenied(r)
           \/ HandleServe(r) \/ HandleAuthFail(r) \/ HandleTunnel(r)
           \/ HandleBadConnect(r) \/ HandleSimple(r)
    PROVE  out' \in Outcomes /\ conn' \in {"open", "upgraded", "closed"} /\ param' = param
<1>0. AuthOk(r) => AuthUser(r) \in UserNames \cup {"unknown"}
  BY AuthUserTyped
<1>1. out' \in Outcomes /\ conn' \in {"open", "upgraded", "closed"} /\ param' = param
  <2>1. CASE HandleResolveError(r) \/ HandleServeDenied(r)
    <3>1. \/ Done(r, "resolveErr", "error", None, None, None)
          \/ Done(r, "serveDenied", "drop", None, None, None)
      BY <2>1 DEF HandleResolveError, HandleServeDenied
    <3>2. QED
      BY <3>1, DoneTyped DEF Routes, Kinds
  <2>2. CASE HandleReverse(r)
    <3>1. PICK kind \in {"return", "error"} : Done(r, "reverse", kind, None, None, None)
      BY <2>2 DEF HandleReverse
    <3>2. QED
      BY <3>1, DoneTyped DEF Routes, Kinds
  <2>3. CASE HandleServe(r)
    <3>1. PICK res \in ServeResults(r) :
            Done(r, "static",
                 CASE res = 404 -> "continue" [] res = None -> "error" [] OTHER -> "return",
                 res, None, None)
      BY <2>3 DEF HandleServe
    <3>2. res \in {200, 404, None}
      BY DEF ServeResults
    <3>3. PICK kind \in Kinds : Done(r, "static", kind, res, None, None)
      BY <3>1, <3>2, Zenon DEF Kinds
    <3>4. QED
      BY <3>2, <3>3, DoneTyped DEF Routes
  <2>4. CASE HandleAuthFail(r)
    <3>1. \/ Done(r, "authFail", "error", None, None, None)
          \/ Done(r, "authFail", "return", 407, None, None)
      BY <2>4 DEF HandleAuthFail
    <3>2. QED
      BY <3>1, DoneTyped DEF Routes, Kinds
  <2>5. CASE HandleTunnel(r) \/ HandleBadConnect(r)
    <3>1. AuthOk(r)
      BY <2>5 DEF HandleTunnel, HandleBadConnect
    <3>2. AuthUser(r) \in UserNames \cup {"unknown", None}
      BY <1>0, <3>1
    <3>3. CASE HandleTunnel(r)
      <4>1. Done(r, "tunnel", "return", 200, AuthUser(r), None)
        BY <3>3 DEF HandleTunnel
      <4>2. QED
        BY <3>2, <4>1, DoneTyped DEF Routes, Kinds
    <3>4. CASE HandleBadConnect(r)
      <4>1. Done(r, "badConnect", "return", 400, AuthUser(r), None)
        BY <3>4 DEF HandleBadConnect
      <4>2. QED
        BY <3>2, <4>1, DoneTyped DEF Routes, Kinds
    <3>5. QED
      BY <2>5, <3>3, <3>4
  <2>6. CASE HandleSimple(r)
    <3>1. AuthOk(r) /\ NotConnect(r)
      BY <2>6 DEF HandleSimple
    <3>2. CASE r.uri.host = None
      <4>1. Done(r, "rewriteErr", "error", None, AuthUser(r), None)
        BY <2>6, <3>2 DEF HandleSimple
      <4>2. QED
        BY <1>0, <3>1, <4>1, DoneTyped DEF Routes, Kinds
    <3>3. CASE r.uri.host # None
      <4>1. r.version # "HTTP/2"
        BY <2>6 DEF HandleSimple, ProxyStage, Unrouted, ToServing
      <4>2. ModHttp1ProxyReq(r) \in HttpRequests
        BY <3>1, <3>3, <4>1, ForwardableIsAbsolute, RewrittenTyped
      <4>3. PICK kind \in {"return", "error"} :
              Done(r, "simple", kind, None, AuthUser(r), ModHttp1ProxyReq(r))
        BY <2>6, <3>3 DEF HandleSimple
      <4>4. QED
        BY <1>0, <3>1, <4>2, <4>3, DoneTyped DEF Routes, Kinds
    <3>4. QED
      BY <3>2, <3>3
  <2>7. QED
    BY <2>1, <2>2, <2>3, <2>4, <2>5, <2>6
<1>2. QED
  BY <1>1

LEMMA TypeAndConfig == Spec => [](ConfigInv /\ TypeOK)
<1>1. Init => ConfigInv /\ TypeOK
  BY ParamSpaceTyped DEF Init, ConfigInv, TypeOK
<1>2. ConfigInv /\ TypeOK /\ [Next]_vars => TypeOK'
  <2> SUFFICES ASSUME ConfigInv, TypeOK, [Next]_vars PROVE TypeOK'
    OBVIOUS
  <2> DEFINE Typed == out' \in Outcomes /\ conn' \in {"open", "upgraded", "closed"}
                      /\ param' = param
  <2>1. CASE Handle
    <3> PICK r \in Requests :
          \/ HandleResolveError(r) \/ HandleReverse(r) \/ HandleServeDenied(r)
          \/ HandleServe(r) \/ HandleAuthFail(r) \/ HandleTunnel(r)
          \/ HandleBadConnect(r) \/ HandleSimple(r)
      BY <2>1 DEF Handle
    <3>1. Typed
      BY HandleTyped
    <3>2. QED
      BY <3>1 DEF TypeOK
  <2>2. CASE Respond \/ ClientClose \/ Accept
    BY <2>2 DEF Respond, ClientClose, Accept, TypeOK
  <2>3. CASE UNCHANGED vars
    BY <2>3 DEF vars, TypeOK
  <2>4. QED
    BY <2>1, <2>2, <2>3 DEF Next
<1>3. ConfigInv /\ TypeOK /\ [Next]_vars => ConfigInv'
  BY ConfigUnchanged DEF ConfigInv
<1>4. QED
  BY <1>1, <1>2, <1>3, PTL DEF Spec

\* Type correctness of the dispatcher for every configuration: every
\* outcome handle records (route, InterceptResultAdapter kind, status,
\* location index, accounted user, request domain, rewritten request) has
\* its type.
THEOREM TypeCorrect == Spec => []TypeOK
BY TypeAndConfig, PTL

\* The command lines on which try_from's skipping of a --users value
\* without a name or a password (config.rs 113-122) is harmless: when
\* users are given, at least one of them is kept.
SomeUserUsable(p) == p.users # {} => \E u \in p.users : Usable(u)

\* --users enforces authentication for every command line that keeps one
\* of its users: once --users is given, nothing is tunnelled or forwarded
\* without the credentials of one of them.  (Without the hypothesis it
\* fails: run dispatcher_bad_user.)
THEOREM UsersFlagEnforcesAuthHolds ==
    ASSUME \A p \in ParamSpace : SomeUserUsable(p)
    PROVE  Spec => []UsersFlagEnforcesAuth
<1>1. ConfigInv /\ ForwardOnlyAuthorized => UsersFlagEnforcesAuth
  <2> SUFFICES ASSUME ConfigInv, ForwardOnlyAuthorized,
                      out # None, out.route \in {"tunnel", "simple"}, param.users # {}
               PROVE  \E u \in param.users : out.req.proxyAuth = BasicHeader(u)
    BY DEF UsersFlagEnforcesAuth
  <2>1. \E u \in param.users : Usable(u)
    BY DEF ConfigInv, SomeUserUsable
  <2>2. QED
    BY <2>1 DEF ForwardOnlyAuthorized
<1>2. QED
  BY <1>1, ConfigInvHolds, ForwardOnlyAuthorizedHolds, PTL
=============================================================================
