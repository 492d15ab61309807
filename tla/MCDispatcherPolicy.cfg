CONSTANTS
    None = None
    UserNames = {"alice", ""}
    Passwords = {"pw", ""}
    CidrTexts <- MCCidrTexts
    CidrNet <- MCCidrNet
    Tokens <- MCTokens
    Hosts <- MCHosts
    HostText <- MCHostText
    Numeral <- MCNumeral
    Ports <- MCPolicyPorts
    Schemes <- MCPolicySchemes
    Paths <- MCPolicyPaths
    HostHeaders <- MCPolicyHostHeaders
    JunkAuth <- MCJunkAuth
    Locations <- MCLocations
    DefaultHost <- MCDefaultHost
    AxumPaths <- MCAxumPaths
    ClientAddrs <- MCPolicyClientAddrs
    Canonical <- MCPolicyCanonical
    ParamSpace <- MCParamsGood
SPECIFICATION Spec
PROPERTY DispatcherImplementsPolicy
