SPECIFICATION Spec
CONSTANTS
    None = None
    FallbackAgent = "codex"
    Issues = {1, 2}
    Workers = {w1, w2}
    KeyOf <- MCKeyOf
    AgentOf <- MCAgentOf
    MaxRunFailures = 1
    ForceModes = {TRUE}
    ByHand = FALSE
    LateClaims = FALSE
SYMMETRY WorkerSymmetry
INVARIANTS
    OneClaimPerWorker
PROPERTIES
    ImplementsLedger
