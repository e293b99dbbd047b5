SPECIFICATION ServicesSpec
CONSTANTS
    None = None
    FallbackAgent = "codex"
    Issues = {1, 2}
    Workers = {w1}
    KeyOf <- MCKeyOf
    AgentOf <- MCAgentOf
    MaxRunFailures = 2
    ForceModes = {TRUE, FALSE}
    ByHand = FALSE
    LateClaims = TRUE
    Incoming = {1, 2, 3}
    Letter <- MCLetter
    Triagers = {"s1"}
    RequireBlocking = TRUE
    HoldAdopted = TRUE
    MaxAdoptions = 1
    MaxFaults = 1
    ReviewIssues = {1, 2}
    Reviewers = {"r1"}
    ReviewerAgent <- MCReviewerAgent
    ReviewerKey <- MCReviewerKey
    Builders <- MCBuilders
    MaxRounds = 2
    MaxReviewFailures = 2
    Offers = {1}
    Checkers = {"m1", "m2"}
    LoopingCheckers = {"m1"}
    CheckerRow <- MCCheckerRow
    Addresses <- MCAddresses
    CheckLimit = 2
    MaxCheckErrors = 2
    MaxChecks = 2
    MaxCheckFaults = 1
    Names = {n1, n2}
    Repos = {r1, r2}
    Machines = {m1, m2}
CHECK_DEADLOCK FALSE
INVARIANTS
    ApprovedIsHeld
