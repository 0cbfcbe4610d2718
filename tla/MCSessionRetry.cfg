CONSTANTS
    Setups <- MCSetups
    Sizes = {1, 2}
    Situations <- MCRetry
SPECIFICATION Spec
INVARIANT FreesOwnChunks
CHECK_DEADLOCK FALSE
