SPECIFICATION DeskSpec
CONSTANTS
    None = None
    Runners = {r1, r2}
    Serves = {"p1", "p2"}
    ServeOptions <- MCServeOptions
    CycleRuns = 2
    MaxStarts = 2
    FallbackAgent = "codex"
    Work = {1, 2}
    Shells = {"t1", "t2"}
    ShellAgent <- MCShellAgent
    ShellToken <- MCShellToken
    Implementers = {"codex", "claude"}
    Here <- MCHere
    Enforced = TRUE
    MaxShellCommands = 3
    Registered <- MCRegistered
    Enrolments <- MCEnrolments
    Tickets = {1}
    Directions <- MCDirections
    Admins = {o1}
    MaxAdminCommands = 1
    MaxUnread = 1
    Batch = 1
    MaxNotes = 2
    MaxCommands = 2
    MaxAttemptFaults = 1
    CallTicks = 5
CHECK_DEADLOCK FALSE
INVARIANTS
    OneAgentPerId
    EndedIsNotRunning
    NoPollAfterStop
    RunMaySubmit
    GuardsKept
    DeletesOnlyIdle
    EventsInOrder
    ClosedIsDone
    SilenceIsReported
PROPERTIES
    KilledLooksDead
    LiveIsListed
    AttemptEnds
