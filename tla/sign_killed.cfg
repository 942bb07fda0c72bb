SPECIFICATION SignSpec
CONSTANTS
    Projects = {"p"}
    Phones = {"a"}
    MaxKeyPairs = 2
    MaxRuns = 3
    LosesConfig = TRUE
INVARIANT SignedMaterialAgrees
CHECK_DEADLOCK FALSE
