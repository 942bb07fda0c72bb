SPECIFICATION Spec
CONSTANTS
    Clients = {c1}
    Instances = {1, 10}
    Pids = {p1}
    NoPid = NoPid
    ForeignPids = {}
    MaxVersion = 1
    MayCrash = FALSE
    MayReinstall = FALSE
    PromptExit = TRUE
PROPERTIES StopSparesOthers
