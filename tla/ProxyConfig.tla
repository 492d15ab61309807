---------------------------- MODULE ProxyConfig ----------------------------
(***************************************************************************)
(* The startup configuration: Config::try_from(Param) (config.rs 110-166). *)
(* It is computed once from the command line and never changes; the       *)
(* dispatcher reads it on every request.                                   *)
(*                                                                         *)
(* A --users argument "name:pass" is a record [name, pass]; the key of     *)
(* basic_auth is "Basic " + base64("name:pass"), and since base64 is       *)
(* injective it is modelled by the pair <<"Basic", user>>.  An             *)
(* --allow-serving-network argument is a CIDR text; IpNetwork::from_str    *)
(* is the table CidrNet, whose domain holds the texts that parse, each     *)
(* mapped to the set of addresses its network contains.                    *)
(***************************************************************************)
EXTENDS Naturals, FiniteSets

CONSTANTS
    None,        \* the absent value (Option::None)
    UserNames,   \* the name parts of --users arguments, "" included
    Passwords,   \* the password parts, "" included
    CidrTexts,   \* the --allow-serving-network arguments
    CidrNet      \* IpNetwork::from_str: parsed text -> addresses it contains

ASSUME ConfigAssumption ==
    /\ "" \in UserNames /\ "" \in Passwords
    /\ "unknown" \notin UserNames
    /\ DOMAIN CidrNet \subseteq CidrTexts

\* A --users argument, split on ':' (config.rs 115-117).
RawUsers == [name : UserNames, pass : Passwords]

\* The Proxy-Authorization value that carries the credentials of u.
BasicHeader(u) == <<"Basic", u>>

\* The command-line flags the dispatcher depends on.
Params == [users : SUBSET RawUsers, neverAskForAuth : BOOLEAN,
           prohibitServing : BOOLEAN, allowServingNetwork : SUBSET CidrTexts,
           overTls : BOOLEAN]

\* Mutant: only an empty name is skipped.
BuildBasicAuthNameOnly(users) ==
    LET kept == {u \in users : u.name # ""}
    IN [h \in {BasicHeader(u) : u \in kept} |-> h[2].name]

\* config.rs 113-122: a user with an empty name or password is skipped.
BuildBasicAuth(users) ==
    LET kept == {u \in users : u.name # "" /\ u.pass # ""}
    IN [h \in {BasicHeader(u) : u \in kept} |-> h[2].name]

\* config.rs 133-148: the networks are parsed only when serving is not
\* prohibited; a text that does not parse is logged and skipped.
BuildAllowedNetworks(p) ==
    IF ~p.prohibitServing /\ p.allowServingNetwork # {}
      THEN {CidrNet[t] : t \in p.allowServingNetwork \cap DOMAIN CidrNet}
      ELSE {}

\* Config::try_from, restricted to the fields the proxy handler reads.
LoadConfig(p) ==
    [basicAuth |-> BuildBasicAuth(p.users),
     neverAskForAuth |-> p.neverAskForAuth,
     prohibitServing |-> p.prohibitServing,
     allowedNetworks |-> BuildAllowedNetworks(p),
     overTls |-> p.overTls]
=============================================================================
