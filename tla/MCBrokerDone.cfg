SPECIFICATION Spec
CONSTANTS
    a = a
    b = b
    r1 = r1
    r2 = r2
    Request = {r1, r2}
    Order = {a, b}
    LockOrders = {a}
    Groth16Orders = {b}
    RequestOf <- MCRequestOf
    LockExpiresAt <- MCLockExpiresAt
    ExpiresAt <- MCExpiresAt
    MaxConcurrentProofs = 1
    MinBatchSize = 2
    DeadlineBuffer = 0
    GracePeriod = 0
    MaxSubmissionAttempts = 2
    Reverts = {FALSE}
    MaxBatches = 3
    MaxTime = 2
    MaxFaults = 0
INVARIANT DoneIsDelivered
CHECK_DEADLOCK FALSE
