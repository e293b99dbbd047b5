SPECIFICATION MatterSpec
CONSTANTS
    None = None
    FallbackAgent = "codex"
    Issues = {1}
    Agents = {"codex", "claude"}
    Checkouts <- MCCheckouts
    Sessions = {"s1"}
    Clients = {p1, p2}
    Machines = {q1, q2}
    ReviewerFor <- MCReviewerFor
    Callers = {"main", "beat", "other"}
    ApiClient <- MCApiClient
    ApiUrl <- MCApiUrl
    Given <- MCGiven
    WithPassword = {"attempt", "other"}
    Handed = 0
    MaxTokens = 2
    Contracts = {"x", "y"}
    ToolThreads = {p1, p2}
    MaxEdits = 2
    Scribes = {p1, p2}
    SourceIssues = {1}
    Targets = {"a"}
    LocalTurns <- MCTurns
    LocalRounds = 2
    MaxLocal = 2
    Drivers = {p1, p2}
    Finalizers = {q1, q2}
    Opener <- MCOpener
    Turns <- MCTurns
    MaxRounds = 3
    MaxThreads = 2
    MaxEntries = 3
    MaxTalkFaults = 1
    MaxPairs = 2
    Commands = {"c1"}
    Texts = {"t1"}
    Projects = {"a", "b", "c"}
    Routes <- MCRoutes
    MaxClarify = 1
    MaxRequests = 1
    MaxSent = 3
    MaxPmFaults = 1
    MaxCommits = 1
SYMMETRY ClientSymmetry
CHECK_DEADLOCK FALSE
INVARIANTS
    DirectedClaimRespected
    RefusedTokenReplacedOnce
    CacheKeepsOthers
    EditsAreNoticed
    FileIsOneHistory
    OneNegotiatingThread
    ConvergedIsFinal
    IssuesCarryAgreement
    PendingOnce
    DependenciesFollowProjects
    QuestionKeptUntilAnswered
PROPERTIES
    BuilderNeverApproves
