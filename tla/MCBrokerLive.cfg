SPECIFICATION FairSpec
CONSTANTS
    a = a
    b = b
    r1 = r1
    r2 = r2
    Request = {r1}
    Order = {a}
    LockOrders = {a}
    Groth16Orders = {}
    RequestOf <- MCRequestOf
    LockExpiresAt <- MCLockExpiresAt
    ExpiresAt <- MCExpiresAt
    MaxConcurrentProofs = 2
    MinBatchSize = 2
    DeadlineBuffer = 0
    GracePeriod = 0
    MaxSubmissionAttempts = 2
    Reverts = {TRUE, FALSE}
    MaxBatches = 3
    MaxTime = 2
    MaxFaults = 2
PROPERTIES
    OrdersFinish
    BatchesFinish
CHECK_DEADLOCK FALSE
