CONSTANTS
    None = None
    UserNames = {"alice", ""}
    Passwords = {"pw", ""}
    CidrTexts <- MCCidrTexts
    CidrNet <- MCCidrNet
    Tokens <- MCTokens
    Hosts <- MCHosts
    HostText <- MCHostText
    Numeral <- MCNumeral
    Ports <- MCPorts
    Schemes <- MCSchemes
    Paths <- MCPaths
    HostHeaders <- MCHostHeaders
    JunkAuth <- MCJunkAuth
    Locations <- MCLocations
    DefaultHost <- MCDefaultHost
    AxumPaths <- MCAxumPaths
    ClientAddrs <- MCClientAddrs
    Canonical <- MCCanonical
    ParamSpace <- MCParamsGood
SPECIFICATION Spec
INVARIANT TypeOK
INVARIANT ForwardOnlyAuthorized
INVARIANT ReverseRulesTakePrecedence
INVARIANT ServingAsConfigured
INVARIANT ForwardedRequestWellFormed
