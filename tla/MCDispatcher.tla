---------------------------- MODULE MCDispatcher ----------------------------
(* Small instance of Dispatcher for TLC.                                   *)
EXTENDS Dispatcher, TLC

\* Header tokens are strings.
MCTokens == STRING
\* Host names and their Host-header text; "[::1]" is an IPv6 literal, whose
\* text contains the separator ':'.
MCHosts == {"cdn.example", "[::1]"}
MCHostText == ("cdn.example" :> <<"cdn.example">>) @@ ("[::1]" :> <<"[", ":", ":", "1]">>)
MCNumeral == ("80" :> 80) @@ ("443" :> 443) @@ ("8080" :> 8080) @@ ("70000" :> 70000)
MCPorts == {80, 443}
MCSchemes == {"http", "https", "wss"}
\* "/", "/a", "/ab": "/a" prefixes "/ab".
MCPaths == {<<"/">>, <<"/", "a">>, <<"/", "a", "b">>}
\* Host headers: a name, a name with a non-default port, a port that
\* overflows u16, an IPv6 literal with a port.
MCHostHeaders == {<<"cdn.example">>, <<"cdn.example", ":", "8080">>,
                  <<"cdn.example", ":", "70000">>, <<"[", ":", ":", "1]", ":", "443">>}
MCDefaultHost == <<"default_host">>
\* cdn.example: "/a" listed before "/ab", so "/ab" is shadowed; every other
\* host falls back to DEFAULT_HOST, which proxies "/ab".
MCLocations == (<<"cdn.example">> :> << <<"/", "a">>, <<"/", "a", "b">> >>)
               @@ (MCDefaultHost :> << <<"/", "a", "b">> >>)
MCAxumPaths == {<<"/">>}
\* An IPv4 client inside 10.0.0.0/8, the same address IPv4-mapped, and a
\* client outside.
MCClientAddrs == {"10.1.1.1", "::ffff:10.1.1.1", "192.168.1.5"}
MCCanonical == [a \in MCClientAddrs |-> IF a = "::ffff:10.1.1.1" THEN "10.1.1.1" ELSE a]
MCCidrTexts == {"10.0.0.0/8", "10.0.0.0/33"}
MCCidrNet == "10.0.0.0/8" :> {"10.1.1.1"}

\* Credentials of nobody the command line names.
MCJunkAuth == {BasicHeader([name |-> "eve", pass |-> "pw"])}

Alice == [name |-> "alice", pass |-> "pw"]
NoPass == [name |-> "alice", pass |-> ""]

\* Command lines: users and a network; no users and serving prohibited;
\* a user next to one without password (skipped), serving everyone.
MCParamsGood ==
    {[users |-> {Alice}, neverAskForAuth |-> FALSE, prohibitServing |-> FALSE,
      allowServingNetwork |-> {"10.0.0.0/8"}, overTls |-> FALSE],
     [users |-> {}, neverAskForAuth |-> TRUE, prohibitServing |-> TRUE,
      allowServingNetwork |-> {}, overTls |-> TRUE],
     [users |-> {Alice, NoPass}, neverAskForAuth |-> TRUE, prohibitServing |-> FALSE,
      allowServingNetwork |-> {}, overTls |-> FALSE]}
\* A network argument that does not parse.
MCParamsBadCidr ==
    {[users |-> {Alice}, neverAskForAuth |-> TRUE, prohibitServing |-> FALSE,
      allowServingNetwork |-> {"10.0.0.0/33"}, overTls |-> FALSE]}
\* A user argument without a password.
MCParamsBadUser ==
    {[users |-> {NoPass}, neverAskForAuth |-> FALSE, prohibitServing |-> TRUE,
      allowServingNetwork |-> {}, overTls |-> FALSE]}

\* A smaller request universe for checking the refinement, whose abstract
\* step ranges over every request: a path that no location prefixes and
\* one that a location does, the default and a non-default port, a plain
\* and an IPv6-literal Host header, a client inside the network and one
\* outside it.
MCPolicyPaths == {<<"/">>, <<"/", "a", "b">>}
MCPolicyPorts == {443}
MCPolicySchemes == {"http", "wss"}
MCPolicyHostHeaders == {<<"cdn.example">>, <<"[", ":", ":", "1]", ":", "443">>}
MCPolicyClientAddrs == {"10.1.1.1", "192.168.1.5"}
MCPolicyCanonical == [a \in MCPolicyClientAddrs |-> a]
=============================================================================
