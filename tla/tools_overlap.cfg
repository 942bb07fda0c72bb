SPECIFICATION FilesSpec
CONSTANTS
    bin = bin
    sdk = sdk
    notes = notes
    Entries = {bin, sdk, notes}
    ToolEntries = {bin, sdk}
    Installers = {2, 3}
    Archive <- Archives
    Keep = {}
    MaxFaults = 1
    RmFails = FALSE
    Kills = FALSE
    Overlap = TRUE
    Jobs = {1, 2}
    Releases <- MCReleases
    PageSize = 2
    Pages = 2
PROPERTIES FailureSparesOthers
CHECK_DEADLOCK FALSE
