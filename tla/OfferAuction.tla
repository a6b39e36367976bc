---------------------------- MODULE OfferAuction ----------------------------
(***************************************************************************)
(* A validated offer watched over time: the price that priceAt quotes at   *)
(* each block, against the time that timeAtPrice predicts for each price.  *)
(* The broker waits until timeAtPrice(target) before it locks              *)
(* (order_picker.rs), so the two functions must agree.                     *)
(***************************************************************************)
EXTENDS Offer

CONSTANTS MaxPrice, MaxTimeout, MaxStart, MaxUint24

ASSUME AuctionAssumption ==
    {MaxPrice, MaxTimeout, MaxStart, MaxUint24} \subseteq Nat

VARIABLES offer, now

vars == <<offer, now>>

OfferSpace ==
    [minPrice : 0..MaxPrice, maxPrice : 0..MaxPrice, rampUpStart : 0..MaxStart,
     rampUpPeriod : 0..MaxTimeout, lockTimeout : 0..MaxTimeout,
     timeout : 0..MaxTimeout, lockCollateral : {0}]

Init ==
    /\ offer \in {o \in OfferSpace : Validate(o, MaxUint24)}
    /\ now = 0

NextBlock ==
    /\ now <= Deadline(offer)
    /\ now' = now + 1
    /\ UNCHANGED offer

Spec == Init /\ [][NextBlock]_vars

-----------------------------------------------------------------------------
\* Until the lock deadline the price stays within the bounds the client
\* signed; afterwards, unless bidding has not started, it is zero (priceAt).
PriceWithinOffer ==
    IF now <= LockDeadline(offer)
    THEN PriceAt(offer, now) \in offer.minPrice .. offer.maxPrice
    ELSE PriceAt(offer, now) = 0

\* Waiting never lowers the price a prover can lock at before the lock
\* deadline: the reverse Dutch auction only rises (priceAt).
PriceRises ==
    [][now' <= LockDeadline(offer) => PriceAt(offer, now) <= PriceAt(offer, now')]_vars

\* "The earliest time at which the offer will be worth at least the given
\* price" (timeAtPrice, Offer.sol:76): at every block before the lock deadline
\* the offer is worth a price exactly if that time has come.
EarliestFor(price) ==
    PriceAt(offer, now) >= price <=> now >= TimeAtPrice(offer, price)
TimeAtPriceIsEarliest ==
    now <= LockDeadline(offer) =>
        \A price \in 0..offer.maxPrice : EarliestFor(price)

\* The same for the offers that do ramp up.
TimeAtPriceIsEarliestOnRamp ==
    offer.rampUpPeriod > 0 => TimeAtPriceIsEarliest

=============================================================================
