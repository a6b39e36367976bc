------------------------- MODULE MCBoundlessMarket -------------------------
(***************************************************************************)
(* Instances of BoundlessMarket for TLC: one client, two provers (the      *)
(* client may also prove), one slot.                                       *)
(***************************************************************************)
EXTENDS BoundlessMarket, TLC

CONSTANTS alice, p1, p2, idA, idB, r1, r2, r3

MCAddress      == {alice, p1, p2}
MCTwoAddresses == {alice, p1}
MCRequestId    == {idA, idB}

\* idA and idB differ in the signature bit only: they share a slot.
MCClientAndIndex == [id \in MCRequestId |-> <<alice, 0>>]

\* r1 and r2 are two requests signed under one id; r3 is signed under the
\* other id of the slot.
MCSameId    == {r1, r2}
MCAliasedId == {r1, r3}
MCIdOf      == [r \in Request |-> IF r = r3 THEN idB ELSE idA]

MCOffer(minP, maxP, start, ramp, lockT, t, coll) ==
    [minPrice |-> minP, maxPrice |-> maxP, rampUpStart |-> start,
     rampUpPeriod |-> ramp, lockTimeout |-> lockT, timeout |-> t,
     lockCollateral |-> coll]

\* r2 can still be priced when a lock on r1 has expired, above the price that
\* r1 was locked at; r1 itself is then worth less than that.  The collateral of
\* r2 is too small to be halved.
MCOfferOf == [r \in Request |->
    CASE r = r1 -> MCOffer(1, 2, 1, 1, 1, 3, 2)
      [] r = r2 -> MCOffer(0, 2, 1, 2, 2, 2, 1)
      [] r = r3 -> MCOffer(1, 1, 2, 0, 1, 1, 1)]

\* The provers are interchangeable; the client is not.
MCSymmetry == Permutations({p1, p2})

=============================================================================
