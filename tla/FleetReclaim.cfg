SPECIFICATION Spec
CONSTANTS
    None = None
    FallbackAgent = "codex"
    Issues = {1}
    Workers = {w1, w2}
    KeyOf <- MCKeyOf
    AgentOf <- MCAgentOf
    MaxRunFailures = 2
    ForceModes = {TRUE, FALSE}
    ByHand = TRUE
    LateClaims = TRUE
SYMMETRY WorkerSymmetry
INVARIANTS
    TypeOK
    ClaimsAreOwned
PROPERTIES
    ReclaimTakesFromSilent
