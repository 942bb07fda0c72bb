SPECIFICATION FairSpec
CONSTANTS
    Tools = {"apply", "devices"}
    ChangesDevice = {"apply"}
    Lines <- MCLines
    MaxLines = 3
INVARIANTS AnswersAreComplete AnswersFitTheClient ExitsWithNothingOwed
PROPERTIES OnlyOwnToolsDelay
CHECK_DEADLOCK FALSE
