SPECIFICATION CommandsSpec
CONSTANTS
    MaxLines = 2
    BundleNames = {"b1", "b2"}
    Chains <- MCChains
    GivenHaps <- MCGivenHaps
    MaxCommands = 2
    MaxReboots = 1
    MaxDrops = 1
    Deadline = 1
    Lookback = 1
    CallTime = 4
    Platforms = {"posix", "windows"}
    MaxOutput = 2
    Installs = {"a", "b"}
    FromArchive = {"b"}
    Forced = {}
    Components = {"js", "ets"}
    Projects = {"p", "q"}
    Phones = {"a"}
    MaxKeyPairs = 3
    MaxRuns = 3
    LosesConfig = FALSE
    Requests = {r1, r2}
    LoginLines = 2
    Entries = {bin, tools, notes}
    ToolEntries = {bin, tools}
    Installers = {2, 3}
    MaxFaults = 3
    Clients = {c1}
    Tokens = {t1, t2}
    MaxKeys = 2
    FirstKeys = {0}
    Denials = {"token", "keys"}
    Absent = Absent
    Torn = Torn
INVARIANTS LogIsSound
INVARIANTS CallIsSettled
INVARIANTS SdkIsSafe SigningIsSound
INVARIANTS TokenReadable SessionsAreTold
PROPERTIES RecentIsFound OldSdkOutlivesFailures LiveSessionsAreKept SignInEnds
PROPERTIES ToolsAreAtomic
CHECK_DEADLOCK FALSE
