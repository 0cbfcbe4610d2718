CONSTANTS
    Setups <- MCSetups
    Sizes = {1, 2}
    Situations = {}
SPECIFICATION Spec
INVARIANTS TensorsReady CommandsAnew HeldWhileResized PlanAllReturned FreesOwnChunks
CHECK_DEADLOCK FALSE
