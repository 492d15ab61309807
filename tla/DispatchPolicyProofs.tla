------------------------- MODULE DispatchPolicyProofs -------------------------
(***************************************************************************)
(* ProxyHandler::handle implements DispatchPolicy, the decision tree of    *)
(* spec 4.6 stated over the command line.  The argument has two parts.     *)
(* First, each gate of handle, which reads the Config that                 *)
(* Config::try_from built, agrees with the policy's gate, which reads the  *)
(* command line: the resolver, the location lookup, the serving gate (on   *)
(* a command line whose networks, when given, include one that parses)     *)
(* and the credential check with the user it accounts.  Second, each       *)
(* branch of handle records the route the policy's tree selects, an        *)
(* outcome the policy allows for it, and the connection state that         *)
(* outcome leaves.                                                         *)
(***************************************************************************)
EXTENDS DispatcherProofs

\* The resolver handle calls is the policy's, with the default scheme of
\* the --over-tls flag try_from copied into the Config.
LEMMA ResolverAgrees ==
    ASSUME NEW p \in Params, config = LoadConfig(p), NEW r
    PROVE  /\ ResolvesWith(p.overTls, r) = ExtractSchemeHostPort(r).ok
           /\ DomainWith(p.overTls, r) = Domain(r)
BY DEF ResolvesWith, DomainWith, ExtractSchemeHostPort, Domain, LoadConfig

\* FindLocation returns an index exactly when the policy's bucket has a
\* location that prefixes the path.
LEMMA LocationAgrees ==
    ASSUME NEW r
    PROVE  (Location(r) # 0) <=> Policy!LocationHit(Domain(r), r.uri.path)
<1> DEFINE rules == Locations[LocationKey(Domain(r))]
           M == {i \in 1..Len(rules) : IsPrefixOf(rules[i], r.uri.path)}
<1>1. (Location(r) = 0) <=> (M = {})
  BY LocationIsFirstMatch
<1>2. Policy!LocationHit(Domain(r), r.uri.path) <=> M # {}
  BY DEF Policy!LocationHit, Policy!Bucket, Policy!PrefixOf, LocationKey, IsPrefixOf
<1>3. QED
  BY <1>1, <1>2

\* The serving gate over the parsed networks is the policy's over the
\* network texts, when one of the given texts parses.
LEMMA ServingAgrees ==
    ASSUME NEW p \in Params, SomeNetworkParses(p), config = LoadConfig(p), NEW r
    PROVE  ServingAllowed(r) <=> Policy!ServingPermitted(p, r)
BY ServingAllowedMatches DEF OperatorAllowsServing, Policy!ServingPermitted

\* check_auth over basic_auth is the policy's credential check over the
\* --users entries with a name and a password, and accounts the same user.
LEMMA AuthAgrees ==
    ASSUME NEW p \in Params, config = LoadConfig(p), NEW r
    PROVE  /\ AuthOk(r) <=> Policy!Authorized(p, r)
           /\ AuthOk(r) => AuthUser(r) = Policy!UserOf(p, r)
<1> DEFINE kept == Policy!CredentialTable(p)
<1>1. config.basicAuth = [h \in {BasicHeader(u) : u \in kept} |-> h[2].name]
  BY DEF LoadConfig, BuildBasicAuth, Policy!CredentialTable
<1>2. CASE kept = {}
  <2>1. DOMAIN config.basicAuth = {}
    BY <1>1, <1>2
  <2>2. QED
    BY <1>2, <2>1 DEF AuthOk, AuthUser, Policy!Authorized, Policy!UserOf
<1>3. CASE kept # {}
  <2>1. DOMAIN config.basicAuth = {BasicHeader(u) : u \in kept}
    BY <1>1
  <2>2. DOMAIN config.basicAuth # {}
    BY <1>3, <2>1
  <2>3. AuthOk(r) <=> \E u \in kept : r.proxyAuth = BasicHeader(u)
    BY <2>1, <2>2 DEF AuthOk
  <2>4. AuthOk(r) <=> Policy!Authorized(p, r)
    BY <1>3, <2>3 DEF Policy!Authorized, Policy!BasicHeader, BasicHeader
  <2>5. ASSUME AuthOk(r) PROVE AuthUser(r) = Policy!UserOf(p, r)
    <3>1. PICK u \in kept : r.proxyAuth = BasicHeader(u)
      BY <2>3, <2>5
    <3>2. AuthUser(r) = u.name
      <4>1. config.basicAuth[r.proxyAuth] = BasicHeader(u)[2].name
        BY <1>1, <3>1
      <4>2. QED
        BY <2>2, <4>1 DEF AuthUser, BasicHeader
    <3> DEFINE c == CHOOSE v \in kept : r.proxyAuth = Policy!BasicHeader(v)
    <3>3. c \in kept /\ r.proxyAuth = Policy!BasicHeader(c)
      BY <3>1 DEF BasicHeader, Policy!BasicHeader
    <3>4. c = u
      BY <3>1, <3>3 DEF BasicHeader, Policy!BasicHeader
    <3>5. QED
      BY <1>3, <3>2, <3>4 DEF Policy!UserOf
  <2>6. QED
    BY <2>4, <2>5
<1>4. QED
  BY <1>2, <1>3
\* The policy's decision tree, evaluated on r, is the tree of handle's own
\* gates: the order of the stages is the same and each gate agrees.
LEMMA RouteAgrees ==
    ASSUME NEW p \in Params, SomeNetworkParses(p), config = LoadConfig(p), NEW r
    PROVE  Policy!Route(p, r) =
             IF NotConnect(r)
               THEN IF ~ExtractSchemeHostPort(r).ok THEN "resolveErr"
                    ELSE IF Location(r) # 0 THEN "reverse"
                    ELSE IF ToServing(r)
                           THEN IF ServingAllowed(r) THEN "static" ELSE "serveDenied"
                    ELSE IF AuthOk(r) THEN "simple" ELSE "authFail"
             ELSE IF ~AuthOk(r) THEN "authFail"
             ELSE IF r.uri.host # None THEN "tunnel" ELSE "badConnect"
<1>1. /\ ResolvesWith(p.overTls, r) = ExtractSchemeHostPort(r).ok
      /\ DomainWith(p.overTls, r) = Domain(r)
  BY ResolverAgrees
<1>2. (Location(r) # 0) <=> Policy!LocationHit(Domain(r), r.uri.path)
  BY LocationAgrees
<1>3. ServingAllowed(r) <=> Policy!ServingPermitted(p, r)
  BY ServingAgrees
<1>4. AuthOk(r) <=> Policy!Authorized(p, r)
  BY AuthAgrees
<1>5. QED
  BY <1>1, <1>2, <1>3, <1>4 DEF Policy!Route, NotConnect, ToServing

\* The outcomes the policy allows each route.
LEMMA OutcomeKindsOf ==
    ASSUME NEW p
    PROVE  /\ Policy!OutcomeKinds(p, "resolveErr") = {"error"}
           /\ Policy!OutcomeKinds(p, "serveDenied") = {"drop"}
           /\ Policy!OutcomeKinds(p, "static") = {"return", "continue", "error"}
           /\ Policy!OutcomeKinds(p, "authFail") =
                IF p.neverAskForAuth THEN {"error"} ELSE {"return"}
           /\ Policy!OutcomeKinds(p, "tunnel") = {"return"}
           /\ Policy!OutcomeKinds(p, "badConnect") = {"return"}
           /\ Policy!OutcomeKinds(p, "reverse") = {"return", "error"}
           /\ Policy!OutcomeKinds(p, "simple") = {"return", "error"}
BY Zenon DEF Policy!OutcomeKinds

\* The connection state Done leaves is the policy's, for every outcome
\* but an error of an accepted CONNECT, which handle never produces.
LEMMA DoneConn ==
    ASSUME NEW r, NEW route, NEW kind, NEW status, NEW user, NEW fwd,
           Done(r, route, kind, status, user, fwd),
           ~(kind \in {"drop", "error"} /\ route = "tunnel")
    PROVE  conn' = Policy!ConnAfter(route, kind)
<1>1. CASE kind \in {"drop", "error"}
  BY <1>1, Zenon DEF Done, Policy!ConnAfter
<1>2. CASE kind \notin {"drop", "error"} /\ route = "tunnel"
  BY <1>2, Zenon DEF Done, Policy!ConnAfter
<1>3. CASE kind \notin {"drop", "error"} /\ route # "tunnel"
  BY <1>3, Zenon DEF Done, Policy!ConnAfter
<1>4. QED
  BY <1>1, <1>2, <1>3
\* The step records the policy's verdict on r: its route, an outcome the
\* policy allows that route, the user it accounts, and the connection
\* state that outcome leaves.
Decided(p, r) ==
    \E kind \in Policy!OutcomeKinds(p, Policy!Route(p, r)) :
       /\ out'.req = r /\ out'.route = Policy!Route(p, r) /\ out'.kind = kind
       /\ out'.user = Policy!VerdictUser(p, r, Policy!Route(p, r))
       /\ conn' = Policy!ConnAfter(Policy!Route(p, r), kind)

\* A Done step with the policy's route, an allowed outcome and the
\* policy's user records the verdict.
LEMMA DoneDecides ==
    ASSUME NEW p, NEW r, NEW route, NEW kind, NEW status, NEW user, NEW fwd,
           route = Policy!Route(p, r),
           kind \in Policy!OutcomeKinds(p, route),
           user = Policy!VerdictUser(p, r, route),
           ~(kind \in {"drop", "error"} /\ route = "tunnel"),
           Done(r, route, kind, status, user, fwd)
    PROVE  Decided(p, r)
<1>1. /\ out'.req = r /\ out'.route = route /\ out'.kind = kind /\ out'.user = user
      /\ conn' = Policy!ConnAfter(route, kind)
  BY DoneFields, DoneConn
<1>2. QED
  BY <1>1 DEF Decided

\* Every branch of handle records the policy's verdict on its request.
LEMMA HandleDecides ==
    ASSUME NEW p \in Params, SomeNetworkParses(p), config = LoadConfig(p),
           NEW r \in Requests,
           \/ HandleResolveError(r) \/ HandleReverse(r) \/ HandleServeDenied(r)
           \/ HandleServe(r) \/ HandleAuthFail(r) \/ HandleTunnel(r)
           \/ HandleBadConnect(r) \/ HandleSimple(r)
    PROVE  Decided(p, r)
<1> DEFINE R == Policy!Route(p, r)
<1>0. R = IF NotConnect(r)
            THEN IF ~ExtractSchemeHostPort(r).ok THEN "resolveErr"
                 ELSE IF Location(r) # 0 THEN "reverse"
                 ELSE IF ToServing(r)
                        THEN IF ServingAllowed(r) THEN "static" ELSE "serveDenied"
                 ELSE IF AuthOk(r) THEN "simple" ELSE "authFail"
          ELSE IF ~AuthOk(r) THEN "authFail"
          ELSE IF r.uri.host # None THEN "tunnel" ELSE "badConnect"
  BY RouteAgrees
<1>1. CASE HandleResolveError(r)
  <2>1. R = "resolveErr"
    BY <1>0, <1>1 DEF HandleResolveError
  <2>2. QED
    BY <1>1, <2>1, OutcomeKindsOf, DoneDecides DEF HandleResolveError, Policy!VerdictUser
<1>2. CASE HandleReverse(r)
  <2>1. R = "reverse"
    BY <1>0, <1>2 DEF HandleReverse
  <2>2. PICK kind \in {"return", "error"} : Done(r, "reverse", kind, None, None, None)
    BY <1>2 DEF HandleReverse
  <2>3. QED
    BY <2>1, <2>2, OutcomeKindsOf, DoneDecides DEF Policy!VerdictUser
<1>3. CASE HandleServeDenied(r)
  <2>1. R = "serveDenied"
    BY <1>0, <1>3 DEF HandleServeDenied, Unrouted
  <2>2. QED
    BY <1>3, <2>1, OutcomeKindsOf, DoneDecides DEF HandleServeDenied, Policy!VerdictUser
<1>4. CASE HandleServe(r)
  <2>1. R = "static"
    BY <1>0, <1>4 DEF HandleServe, Unrouted
  <2>2. PICK res \in ServeResults(r) :
          Done(r, "static",
               CASE res = 404 -> "continue" [] res = None -> "error" [] OTHER -> "return",
               res, None, None)
    BY <1>4 DEF HandleServe
  <2>3. res \in {200, 404, None}
    BY DEF ServeResults
  <2>4. PICK kind \in {"return", "continue", "error"} : Done(r, "static", kind, res, None, None)
    BY <2>2, <2>3, Zenon
  <2>5. QED
    BY <2>1, <2>4, OutcomeKindsOf, DoneDecides DEF Policy!VerdictUser
<1>5. CASE HandleAuthFail(r)
  <2>1. R = "authFail"
    BY <1>0, <1>5 DEF HandleAuthFail, ProxyStage, Unrouted
  <2>2. config.neverAskForAuth = p.neverAskForAuth
    BY DEF LoadConfig
  <2>3. CASE p.neverAskForAuth
    <3>1. Done(r, "authFail", "error", None, None, None)
      BY <1>5, <2>2, <2>3 DEF HandleAuthFail
    <3>2. QED
      BY <2>1, <2>3, <3>1, OutcomeKindsOf, DoneDecides DEF Policy!VerdictUser
  <2>4. CASE ~p.neverAskForAuth
    <3>1. Done(r, "authFail", "return", 407, None, None)
      BY <1>5, <2>2, <2>4 DEF HandleAuthFail
    <3>2. QED
      BY <2>1, <2>4, <3>1, OutcomeKindsOf, DoneDecides DEF Policy!VerdictUser
  <2>5. QED
    BY <2>3, <2>4
<1>6. CASE HandleTunnel(r) \/ HandleBadConnect(r)
  <2>1. AuthOk(r) /\ ~NotConnect(r)
    BY <1>6 DEF HandleTunnel, HandleBadConnect
  <2>2. AuthUser(r) = Policy!UserOf(p, r)
    BY <2>1, AuthAgrees
  <2>3. CASE HandleTunnel(r)
    <3>1. R = "tunnel"
      BY <1>0, <2>1, <2>3 DEF HandleTunnel
    <3>2. Done(r, "tunnel", "return", 200, AuthUser(r), None)
      BY <2>3 DEF HandleTunnel
    <3>3. AuthUser(r) = Policy!VerdictUser(p, r, "tunnel")
      BY <2>2 DEF Policy!VerdictUser
    <3>4. QED
      BY <3>1, <3>2, <3>3, OutcomeKindsOf, DoneDecides
  <2>4. CASE HandleBadConnect(r)
    <3>1. R = "badConnect"
      BY <1>0, <2>1, <2>4 DEF HandleBadConnect
    <3>2. Done(r, "badConnect", "return", 400, AuthUser(r), None)
      BY <2>4 DEF HandleBadConnect
    <3>3. AuthUser(r) = Policy!VerdictUser(p, r, "badConnect")
      BY <2>2 DEF Policy!VerdictUser
    <3>4. QED
      BY <3>1, <3>2, <3>3, OutcomeKindsOf, DoneDecides
  <2>5. QED
    BY <1>6, <2>3, <2>4
<1>7. CASE HandleSimple(r)
  <2>1. AuthOk(r) /\ NotConnect(r) /\ Unrouted(r) /\ ~ToServing(r)
    BY <1>7 DEF HandleSimple, ProxyStage
  <2>2. r.uri.host # None
    BY <2>1 DEF ToServing
  <2>3. R = "simple"
    BY <1>0, <2>1 DEF Unrouted
  <2>4. PICK kind \in {"return", "error"} :
          Done(r, "simple", kind, None, AuthUser(r), ModHttp1ProxyReq(r))
    BY <1>7, <2>2 DEF HandleSimple
  <2>5. AuthUser(r) = Policy!VerdictUser(p, r, "simple")
    BY <2>1, AuthAgrees DEF Policy!VerdictUser
  <2>6. QED
    BY <2>3, <2>4, <2>5, OutcomeKindsOf, DoneDecides
<1>8. QED
  BY <1>1, <1>2, <1>3, <1>4, <1>5, <1>6, <1>7
\* ProxyHandler::handle implements the decision tree of spec 4.6 for every
\* command line whose --allow-serving-network list, when given, has a text
\* that parses: each handled request is classified, answered, accounted
\* and its connection closed, upgraded or kept alive as the policy says,
\* and the response, the client's close and the next accept are the
\* policy's Reply, HangUp and NewConnection.  (Without the hypothesis the
\* serving gate denies every client the flags admit: run
\* dispatcher_bad_cidr.)
THEOREM DispatcherRefinesPolicy ==
    ASSUME \A p \in ParamSpace : SomeNetworkParses(p)
    PROVE  Spec => DispatcherImplementsPolicy
<1>1. Init => Policy!PolicyInit
  BY DEF Init, Policy!PolicyInit, Unanswered
<1>2. ConfigInv /\ TypeOK /\ [Next]_vars => [Policy!PolicyNext]_Policy!pvars
  <2> SUFFICES ASSUME ConfigInv, TypeOK, [Next]_vars
               PROVE  [Policy!PolicyNext]_Policy!pvars
    OBVIOUS
  <2>0. /\ param \in Params /\ SomeNetworkParses(param)
        /\ config = LoadConfig(param) /\ param' = param
    <3>1. param \in ParamSpace /\ config = LoadConfig(param)
      BY DEF ConfigInv
    <3>2. param \in Params
      BY <3>1, ParamSpaceTyped, Zenon
    <3>3. UNCHANGED <<config, param>>
      BY ConfigUnchanged
    <3>4. QED
      BY <3>1, <3>2, <3>3
  <2>1. CASE Handle
    <3>1. conn = "open" /\ Unanswered = {}
      BY <2>1 DEF Handle, Unanswered
    <3>2. PICK r \in Requests :
            \/ HandleResolveError(r) \/ HandleReverse(r) \/ HandleServeDenied(r)
            \/ HandleServe(r) \/ HandleAuthFail(r) \/ HandleTunnel(r)
            \/ HandleBadConnect(r) \/ HandleSimple(r)
      BY <2>1 DEF Handle
    <3>3. out' # None
      <4>1. out' \in Outcomes
        BY <3>2, HandleTyped
      <4>2. QED
        BY <4>1, NoneAssumption
    <3>4. Decided(param, r)
      BY <2>0, <3>2, HandleDecides
    <3> DEFINE R == Policy!Route(param, r)
    <3>5. PICK kind \in Policy!OutcomeKinds(param, R) :
            /\ out'.req = r /\ out'.route = R /\ out'.kind = kind
            /\ out'.user = Policy!VerdictUser(param, r, R)
            /\ conn' = Policy!ConnAfter(R, kind)
      BY <3>4 DEF Decided
    <3>6. Unanswered' = {[req |-> r, route |-> R, kind |-> kind,
                          user |-> Policy!VerdictUser(param, r, R)]}
      BY <3>3, <3>5 DEF Unanswered
    <3>7. Policy!Decide
      BY <2>0, <3>1, <3>5, <3>6 DEF Policy!Decide
    <3>8. QED
      BY <3>7 DEF Policy!PolicyNext
  <2>2. CASE Respond
    <3>1. Policy!Reply
      BY <2>2 DEF Respond, Policy!Reply, Unanswered
    <3>2. QED
      BY <3>1 DEF Policy!PolicyNext
  <2>3. CASE ClientClose
    <3>1. Policy!HangUp
      BY <2>3 DEF ClientClose, Policy!HangUp, Unanswered
    <3>2. QED
      BY <3>1 DEF Policy!PolicyNext
  <2>4. CASE Accept
    <3>1. Policy!NewConnection
      BY <2>4 DEF Accept, Policy!NewConnection, Unanswered
    <3>2. QED
      BY <3>1 DEF Policy!PolicyNext
  <2>5. CASE UNCHANGED vars
    BY <2>5 DEF vars, Policy!pvars, Unanswered
  <2>6. QED
    BY <2>1, <2>2, <2>3, <2>4, <2>5 DEF Next
<1>3. QED
  BY <1>1, <1>2, TypeAndConfig, PTL DEF Spec, DispatcherImplementsPolicy, Policy!PolicySpec
=============================================================================
