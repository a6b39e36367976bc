------------------------------- MODULE Offer -------------------------------
(***************************************************************************)
(* The reverse Dutch auction of a proof request (types/Offer.sol): a       *)
(* price that starts at minPrice, ramps up linearly to maxPrice, stays     *)
(* there until the lock deadline and is zero afterwards.  The operators    *)
(* are pure; an offer is a record whose fields keep the Solidity names.    *)
(***************************************************************************)
EXTENDS Integers

LockDeadline(offer) == offer.rampUpStart + offer.lockTimeout

Deadline(offer) == offer.rampUpStart + offer.timeout

\* What validate() lets through; the last conjunct is the uint24 delta that
\* RequestLock packs.
Validate(offer, maxDelta) ==
    /\ offer.minPrice <= offer.maxPrice
    /\ offer.rampUpPeriod <= offer.lockTimeout
    /\ offer.lockTimeout <= offer.timeout
    /\ Deadline(offer) - LockDeadline(offer) <= maxDelta

FloorDivMutant(a, b) == a \div b

\* OpenZeppelin's Math.ceilDiv: no addition that could overflow.
CeilDiv(a, b) == IF a = 0 THEN 0 ELSE (a - 1) \div b + 1

RampFromZeroMutant(offer, timestamp) ==
    ((timestamp - offer.rampUpStart) * offer.maxPrice) \div offer.rampUpPeriod

\* The linear ramp; Solidity's division truncates.
RampPrice(offer, timestamp) ==
    offer.minPrice
      + ((timestamp - offer.rampUpStart) * (offer.maxPrice - offer.minPrice))
           \div offer.rampUpPeriod

PriceKeptMutant(offer, timestamp) ==
    IF timestamp <= offer.rampUpStart THEN offer.minPrice ELSE offer.maxPrice

PriceAt(offer, timestamp) ==
    CASE timestamp <= offer.rampUpStart -> offer.minPrice
      [] timestamp > offer.rampUpStart /\ timestamp > LockDeadline(offer) -> 0
      [] /\ timestamp > offer.rampUpStart
         /\ timestamp <= LockDeadline(offer)
         /\ timestamp <= offer.rampUpStart + offer.rampUpPeriod
           -> RampPrice(offer, timestamp)
      [] OTHER -> offer.maxPrice

\* Defined for price <= maxPrice: the Solidity function reverts above it.
TimeAtPrice(offer, price) ==
    IF price <= offer.minPrice
    THEN 0
    ELSE offer.rampUpStart
           + CeilDiv((price - offer.minPrice) * offer.rampUpPeriod,
                     offer.maxPrice - offer.minPrice)

=============================================================================
