----------------------------- MODULE MCSlasher -----------------------------
(***************************************************************************)
(* The slasher with one request, free of charge, so that only collateral   *)
(* moves: two provers, one of whom may be skipped.                         *)
(***************************************************************************)
EXTENDS Slasher, TLC

CONSTANTS alice, p1, idA, r1

MCAddress == {alice, p1}
MCClientAndIndex == [id \in RequestId |-> <<alice, 0>>]
MCIdOf == [r \in Request |-> idA]

\* Locked at 1, the lock expires at 2 and the request at 4.
MCOfferOf == [r \in Request |->
    [minPrice |-> 0, maxPrice |-> 0, rampUpStart |-> 1, rampUpPeriod |-> 0,
     lockTimeout |-> 1, timeout |-> 3, lockCollateral |-> 1]]

=============================================================================
