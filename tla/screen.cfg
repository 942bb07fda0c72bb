SPECIFICATION Spec
CONSTANTS
    TextParts <- MCTextParts
    MaxNodes = 3
    MaxText = 4
    MaxStatements = 4
INVARIANT CoveredIsPaintedOver
INVARIANT RecordedSelectorFindsElement
INVARIANT SelectorsMeanOneThing
INVARIANT InventoryIsWhole
INVARIANT NewElementIsTheOnlyDifference
CHECK_DEADLOCK FALSE
