------------------------------- MODULE Escrow -------------------------------
(***************************************************************************)
(* What the market promises a client and a prover about one request id.  A *)
(* lock puts the prover's stake and the client's price into escrow, and    *)
(* each leaves it once.                                                    *)
(*                                                                         *)
(* The stake is returned only together with the payment for a delivery     *)
(* within the lock, and forfeited only when the request has expired.       *)
(*                                                                         *)
(* The price is paid to the locker for a delivery within the lock.  It is  *)
(* returned to the client, all of it, when the locked request is delivered *)
(* after the lock lapsed, and refunded when the stake is forfeited and     *)
(* nothing was delivered late.  A client that signed another request under *)
(* the id pays the price of that one instead, once the lock has lapsed,    *)
(* also when it was refunded before.                                       *)
(***************************************************************************)
EXTENDS Naturals

CONSTANTS
    Id,
    Amount      \* what a client can be charged

VARIABLES
    stake,      \* the locker's collateral
    price,      \* where the client's money is
    phase,      \* of the lock: 0 none, 1 valid, 2 lapsed, 3 request expired
    cost        \* what the client has paid for the id, less what came back

vars == <<stake, price, phase, cost>>

Init ==
    /\ stake = [id \in Id |-> "none"]
    /\ price = [id \in Id |-> "none"]
    /\ phase = [id \in Id |-> 0]
    /\ cost = [id \in Id |-> 0]

Lock(id, p) ==
    /\ stake[id] = "none" /\ price[id] = "none"
    /\ stake' = [stake EXCEPT ![id] = "staked"]
    /\ price' = [price EXCEPT ![id] = "held"]
    /\ phase' = [phase EXCEPT ![id] = 1]
    /\ cost' = [cost EXCEPT ![id] = p]

DeliverInTime(id) ==
    /\ stake[id] = "staked" /\ price[id] = "held" /\ phase[id] = 1
    /\ stake' = [stake EXCEPT ![id] = "returned"]
    /\ price' = [price EXCEPT ![id] = "paid"]
    /\ UNCHANGED <<phase, cost>>

\* The locked request, by anybody: its price is zero by now.
DeliverLate(id) ==
    /\ price[id] = "held" /\ phase[id] = 2
    /\ price' = [price EXCEPT ![id] = "returned"]
    /\ cost' = [cost EXCEPT ![id] = 0]
    /\ UNCHANGED <<stake, phase>>

\* Another request that the client signed under the locked id.
DeliverOther(id, p) ==
    /\ price[id] \in {"held", "refunded"} /\ phase[id] \in {2, 3}
    /\ price' = [price EXCEPT ![id] = "replaced"]
    /\ cost' = [cost EXCEPT ![id] = p]
    /\ UNCHANGED <<stake, phase>>

\* A request of an id that has no lock, paid from the client's balance.
DeliverUnlocked(id, p) ==
    /\ stake[id] = "none" /\ price[id] = "none"
    /\ price' = [price EXCEPT ![id] = "replaced"]
    /\ cost' = [cost EXCEPT ![id] = p]
    /\ UNCHANGED <<stake, phase>>

Forfeit(id) ==
    /\ stake[id] = "staked" /\ phase[id] = 3
    /\ stake' = [stake EXCEPT ![id] = "forfeited"]
    /\ IF price[id] = "held"
       THEN /\ price' = [price EXCEPT ![id] = "refunded"]
            /\ cost' = [cost EXCEPT ![id] = 0]
       ELSE UNCHANGED <<price, cost>>
    /\ UNCHANGED phase

Pass ==
    /\ phase' \in [Id -> 0..3]
    /\ \A id \in Id : phase[id] <= phase'[id] /\ (phase[id] = 0 => phase'[id] = 0)
    /\ UNCHANGED <<stake, price, cost>>

Next ==
    \/ Pass
    \/ \E id \in Id : DeliverInTime(id) \/ DeliverLate(id) \/ Forfeit(id)
    \/ \E id \in Id, p \in Amount :
          Lock(id, p) \/ DeliverOther(id, p) \/ DeliverUnlocked(id, p)

Spec == Init /\ [][Next]_vars

=============================================================================
