SPECIFICATION Spec
CONSTANTS
    MaxSegments = 8
    MaxKeccaks = 4
INVARIANTS
    GreaterIsUnreachable
    JoinsAreInOrder
    PlanIsComplete
    JoinTreeIsBalanced
CHECK_DEADLOCK FALSE
