SPECIFICATION Spec
CONSTANTS
    Clients = {"c1", "c2"}
    Claims <- MCClaims
    Subs = {"alice", "al", "bob"}
    Issuers = {"idp", "other"}
    Issuer = "idp"
    Urls = {"jwks"}
    Docs <- MCDocs
    MaxKey = 2
    None = None
    Algorithms = {"RS256", "none"}
    AllowedAlgorithms = {"RS256"}
    Algorithm = "RS256"
    ServerBaseURL = "server"
    IssuerURL = "issuer"
    ClientID = "client"
    FallbackWorks = FALSE
    Foreign <- MCForeign
    Paths <- MCPaths
    OpenPaths <- MCOpenPaths
INVARIANTS TypeOK ExpiredMeansGenuine
PROPERTIES AcceptedTokenIsGenuine MetadataAlwaysAnswered ClientGetsIn WithdrawnKeyDies
