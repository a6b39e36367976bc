------------------------- MODULE OfferAuctionProofs -------------------------
(***************************************************************************)
(* The auction keeps its promises for every offer, and not only for those  *)
(* small enough to enumerate.                                              *)
(***************************************************************************)
EXTENDS OfferAuction, OfferProofs

\* The offer was validated and does not change.
AuctionInv == offer \in OfferSpace /\ Validate(offer, MaxUint24) /\ now \in Nat

\* The fields of an offer of the space are unsigned.
LEMMA OfferFields ==
    ASSUME AuctionInv
    PROVE  Unsigned(offer)
<1>1. {MaxPrice, MaxTimeout, MaxStart} \subseteq Nat
  BY AuctionAssumption
<1> QED
  BY <1>1 DEF AuctionInv, OfferSpace, Unsigned

\* It holds throughout.
LEMMA AuctionInvariance == Spec => []AuctionInv
<1>1. Init => AuctionInv
  BY DEF Init, AuctionInv
<1>2. AuctionInv /\ [NextBlock]_vars => AuctionInv'
  BY DEF AuctionInv, NextBlock, vars
<1> QED
  BY <1>1, <1>2, PTL DEF Spec

\* The price is within the bounds the client signed for every offer.
THEOREM PriceIsWithinOffer == Spec => []PriceWithinOffer
<1>1. AuctionInv => PriceWithinOffer
  <2> SUFFICES ASSUME AuctionInv PROVE PriceWithinOffer
    OBVIOUS
  <2>1. Unsigned(offer) /\ Validate(offer, MaxUint24) /\ now \in Nat
    BY OfferFields DEF AuctionInv
  <2>2. LockDeadline(offer) \in Nat
    BY <2>1 DEF Unsigned, LockDeadline
  <2>3. /\ now <= LockDeadline(offer) => PriceAt(offer, now) \in offer.minPrice .. offer.maxPrice
        /\ now > LockDeadline(offer) => PriceAt(offer, now) = 0
    BY <2>1, PriceBounds
  <2> QED
    BY <2>1, <2>2, <2>3 DEF PriceWithinOffer
<1> QED
  BY <1>1, AuctionInvariance, PTL

\* The price of no offer falls before its lock deadline.
THEOREM PriceOnlyRises == Spec => PriceRises
<1>1. AuctionInv /\ [NextBlock]_vars =>
        [now' <= LockDeadline(offer) => PriceAt(offer, now) <= PriceAt(offer, now')]_vars
  <2> SUFFICES ASSUME AuctionInv, NextBlock, now' <= LockDeadline(offer)
               PROVE  PriceAt(offer, now) <= PriceAt(offer, now')
    OBVIOUS
  <2>1. Unsigned(offer) /\ Validate(offer, MaxUint24) /\ now \in Nat
    BY OfferFields DEF AuctionInv
  <2>2. now' \in Nat /\ now <= now'
    BY <2>1 DEF NextBlock
  <2> QED
    BY <2>1, <2>2, PriceMonotone
<1> QED
  BY <1>1, AuctionInvariance, PTL DEF Spec, PriceRises

\* For every offer with a ramp, timeAtPrice is exactly the first block at which
\* priceAt reaches the price, with both divisions rounded as the code does.
THEOREM TimeAtPriceIsExact == Spec => []TimeAtPriceIsEarliestOnRamp
<1>1. AuctionInv => TimeAtPriceIsEarliestOnRamp
  <2> SUFFICES ASSUME AuctionInv, offer.rampUpPeriod > 0, now <= LockDeadline(offer),
                      NEW price \in 0..offer.maxPrice
               PROVE  PriceAt(offer, now) >= price <=> now >= TimeAtPrice(offer, price)
    BY DEF TimeAtPriceIsEarliestOnRamp, TimeAtPriceIsEarliest, EarliestFor
  <2>1. Unsigned(offer) /\ Validate(offer, MaxUint24) /\ now \in Nat
    BY OfferFields DEF AuctionInv
  <2> QED
    BY <2>1, TimeAtPriceInverts
<1> QED
  BY <1>1, AuctionInvariance, PTL

=============================================================================
