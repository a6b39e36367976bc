SPECIFICATION Spec
CONSTANTS
    alice = alice
    p1 = p1
    p2 = p2
    idA = idA
    idB = idB
    r1 = r1
    r2 = r2
    r3 = r3
    Market = Market
    Zero = Zero
    Address <- MCAddress
    RequestId <- MCRequestId
    ClientAndIndex <- MCClientAndIndex
    Request <- MCSameId
    IdOf <- MCIdOf
    OfferOf <- MCOfferOf
    SLASHING_BURN_BPS = 5000
    MARKET_FEE_BPS = 0
    MaxUint96 = 3
    MaxUint24 = 2
    EthSupply = 3
    TokenSupply = 3
    MaxTime = 5
SYMMETRY MCSymmetry
INVARIANTS
    TypeOK
    EthSolvency
    CollateralSolvency
    PaidImpliesFulfilled
    PaidInTimeIsFinal
    AtMostOnePayment
    ChargeWithinMaxPrice
    ChargedOnlyForPayment
    FulfilledIffDelivered
PROPERTIES
    LockFlagsGrow
    NoDeliveryAfterDeadline
    EscrowIsKept
CHECK_DEADLOCK FALSE
