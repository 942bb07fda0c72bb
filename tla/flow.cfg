SPECIFICATION Spec
CONSTANTS
    TextParts = {}
    Devices <- MCDevices
    Home <- MCHome
    Shot <- MCShot
    LockScreen <- MCLockScreen
    After <- MCAfter
    Gestures <- MCGestures
    EventOf <- MCEventOf
    Written <- MCWritten
    CharsOf <- MCCharsOf
    Ime = "ime"
    MaxFaults = 1
    MaxGestures = 3
    MaxPolls = 2
    SETTLED = 2
    TIMEOUT = 3
    AnyTyping = FALSE
INVARIANTS
    RecordedFlowReplays
    InputsMeanTheirSteps
    PassedMeansDone
    NothingLeftRunning
