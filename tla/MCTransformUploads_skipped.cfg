SPECIFICATION TFSpec
CONSTANTS
    MaxEntities = 2
    MaxMoves = 1
    DefaultCapacity = 1
INVARIANT
    UnchangedWhenSkipped
CHECK_DEADLOCK FALSE
