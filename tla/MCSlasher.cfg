SPECIFICATION SlasherFairSpec
CONSTANTS
    alice = alice
    p1 = p1
    idA = idA
    r1 = r1
    Market = Market
    Zero = Zero
    Address <- MCAddress
    RequestId = {idA}
    ClientAndIndex <- MCClientAndIndex
    Request = {r1}
    IdOf <- MCIdOf
    OfferOf <- MCOfferOf
    SLASHING_BURN_BPS = 5000
    MARKET_FEE_BPS = 0
    MaxUint96 = 1
    MaxUint24 = 2
    EthSupply = 0
    TokenSupply = 1
    MaxTime = 6
    SkipAddresses = {alice}
    MaxBlockRange = 2
    Retries = 1
    StartingBlock = 1
    IgnoreLastProcessedBlock = FALSE
    MaxFaults = 2
INVARIANTS
    SlasherTypeOK
    NoLockForgotten
    SlashNeverEarly
PROPERTIES
    OrdersDrain
    UndeliveredLockSettled
CHECK_DEADLOCK FALSE
