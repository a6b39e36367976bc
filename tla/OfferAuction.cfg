SPECIFICATION Spec
CONSTANTS
    MaxPrice = 4
    MaxTimeout = 4
    MaxStart = 2
    MaxUint24 = 3
INVARIANTS
    PriceWithinOffer
    TimeAtPriceIsEarliestOnRamp
PROPERTIES
    PriceRises
CHECK_DEADLOCK FALSE
