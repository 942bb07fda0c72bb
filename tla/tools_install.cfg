SPECIFICATION FilesSpec
CONSTANTS
    bin = bin
    sdk = sdk
    notes = notes
    Entries = {bin, sdk, notes}
    ToolEntries = {bin, sdk}
    Installers = {2, 3}
    Archive <- Archives
    Keep = {}
    MaxFaults = 2
    RmFails = TRUE
    Kills = TRUE
    Overlap = FALSE
    Jobs = {1, 2}
    Releases <- MCReleases
    PageSize = 2
    Pages = 2
INVARIANTS StoreIsTold
PROPERTIES ToolsAreExact
CHECK_DEADLOCK FALSE
