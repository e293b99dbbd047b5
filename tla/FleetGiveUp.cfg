SPECIFICATION Spec
CONSTANTS
    None = None
    FallbackAgent = "codex"
    Issues = {1}
    Workers = {w1, w2}
    KeyOf <- MCKeyOf
    AgentOf <- MCAgentOf
    MaxRunFailures = 3
    ForceModes = {FALSE}
    ByHand = FALSE
    LateClaims = FALSE
PROPERTIES
    ReleasesOwnClaim
