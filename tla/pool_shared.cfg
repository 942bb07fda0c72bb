SPECIFICATION Spec
CONSTANTS
    Clients = {c1, c2}
    Instances = {1}
    Pids = {p1}
    NoPid = NoPid
    ForeignPids = {}
    MaxVersion = 3
    MayCrash = TRUE
    MayReinstall = TRUE
    PromptExit = FALSE
SYMMETRY Interchangeable
INVARIANTS FingerprintSound
