SPECIFICATION FairSpec
CONSTANTS
    Clients = {c1}
    Instances = {1, 2}
    Pids = {p1, p2}
    NoPid = NoPid
    ForeignPids = {p1}
    MaxVersion = 2
    MayCrash = FALSE
    MayReinstall = FALSE
    PromptExit = TRUE
INVARIANTS RecordsAreTruthful OverlaysMatchBase
PROPERTIES OneEmulatorAtATime StopSparesOthers StopEndsQemu
