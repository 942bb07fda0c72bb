SPECIFICATION DeviceSpec
CONSTANTS
    MaxStarts = 4
    MaxPolls = 4
    Unsettled = FALSE
    Problems <- MCProblems
    MaxBlocks = 3
    KeptLines = 6
    Declares <- MCDeclares
    Platforms = {"posix", "win32"}
    Suites <- MCSuites
    SigningChanges = FALSE
    MaxThrows = 1
    Scripts <- MCScripts
    App = "app"
    Process <- MCProcess
    Launched = TRUE
    Threads <- MCThreads
    FaultPid = 1
    FaultTid = 1
    MaxCalls = 4
    MaxFaults = 2
    MaxLooks = 1
    Logs <- MCLogs
    Now = 10
    Year = 8
    Duration = 3
INVARIANTS SuccessIsInstalled DeviceIsGivenBack ReportsAreTrue EvidenceIsTrue ReadingsAreTrue
PROPERTIES TookChange DeviceIsSpared SmokePassedStayedUp
CHECK_DEADLOCK FALSE
