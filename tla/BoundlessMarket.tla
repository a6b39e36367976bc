-------------------------- MODULE BoundlessMarket --------------------------
(***************************************************************************)
(* The market contract (BoundlessMarket.sol with its types/ libraries).    *)
(* A step is one transaction's effect on storage, or one fill of a batch:  *)
(* the fills of a batch share nothing but storage and the block timestamp, *)
(* and the callback that runs between two fills may call back into the     *)
(* market, so a batch is a run of Fulfill steps at one timestamp with any  *)
(* other transaction in between.  A call that reverts is a step that is    *)
(* not enabled.                                                            *)
(*                                                                         *)
(* The proofs (application receipt, assessor) and the signatures are       *)
(* checked by external verifiers: a fill is for a Request its client has   *)
(* signed, and every request in Request is signed.                         *)
(***************************************************************************)
EXTENDS Offer, Totals

CONSTANTS
    Address,            \* externally owned accounts and contracts
    Market,             \* address(this): the treasury account
    RequestId,          \* ids, as keys of requestLocks
    ClientAndIndex,     \* id -> <<client, idx>>: two ids that differ in the
                        \* smart-contract-signature bit have the same pair
    Request,            \* request digests
    IdOf, OfferOf,      \* digest -> its id, its offer
    Zero,               \* address(0) and bytes32(0)
    SLASHING_BURN_BPS, MARKET_FEE_BPS,
    MaxUint96, MaxUint24,
    EthSupply,          \* all the Ether there is
    TokenSupply,        \* all the collateral tokens there are
    MaxTime             \* bound on block.timestamp

Account == Address \cup {Market}
Slot    == {ClientAndIndex[id] : id \in RequestId}

OfferType == [minPrice : Nat, maxPrice : Nat, rampUpStart : Nat,
              rampUpPeriod : Nat, lockTimeout : Nat, timeout : Nat,
              lockCollateral : Nat]

ASSUME AddressAssumption ==
    /\ IsFiniteSet(Address)
    /\ Market \notin Address
    /\ Zero \notin Address \cup Request \cup {Market}

ASSUME RequestAssumption ==
    /\ IsFiniteSet(RequestId)
    /\ ClientAndIndex \in [RequestId -> Address \X Nat]
    /\ IdOf \in [Request -> RequestId]
    /\ OfferOf \in [Request -> OfferType]

ASSUME RateAssumption ==
    /\ SLASHING_BURN_BPS \in 0..10000
    /\ MARKET_FEE_BPS \in 0..10000

ASSUME LimitAssumption ==
    /\ MaxUint96 \in Nat
    /\ MaxUint24 \in Nat
    /\ EthSupply \in 0..MaxUint96       \* Account.sol:16
    /\ TokenSupply \in 0..MaxUint96
    /\ MaxTime \in Nat \ {0}

VARIABLES
    now,                \* block.timestamp
    balance,            \* accounts[a].balance
    collateralBalance,  \* accounts[a].collateralBalance
    lockedFlag,         \* slots whose locked bit is set in requestFlags
    fulfilledFlag,      \* slots whose fulfilled bit is set
    requestLocks,       \* requestLocks[id]
    ethHeld,            \* Ether the contract holds
    tokenHeld,          \* collateral tokens the contract holds
    burned              \* collateral tokens held by 0xdEaD

\* History, read by no guard: what the events and the client's account say.
VARIABLES
    delivered,          \* requests a ProofDelivered event was emitted for
    charged,            \* net Ether the client was debited for an id
    payments,           \* settlements of the price of an id with a prover
    paidFor             \* the request of an id that was settled, or Zero

accountVars == <<balance, collateralBalance>>
flagVars    == <<lockedFlag, fulfilledFlag>>
holdingVars == <<ethHeld, tokenHeld, burned>>
historyVars == <<delivered, charged, payments, paidFor>>
vars == <<now, accountVars, flagVars, requestLocks, holdingVars, historyVars>>

-----------------------------------------------------------------------------
(* Lock flags (types/RequestLock.sol)                                      *)

DURING  == "PROVER_PAID_DURING_LOCK"
AFTER   == "PROVER_PAID_AFTER_LOCK"
SLASHED == "SLASHED"

RequestLock ==
    [prover : Address \cup {Market, Zero}, lockDeadline : Nat,
     deadlineDelta : 0..MaxUint24, requestLockFlags : SUBSET {DURING, AFTER, SLASHED},
     price : 0..MaxUint96, collateral : 0..MaxUint96,
     requestDigest : Request \cup {Zero}]

\* Storage that was never written.
ZeroLock ==
    [prover |-> Zero, lockDeadline |-> 0, deadlineDelta |-> 0,
     requestLockFlags |-> {}, price |-> 0, collateral |-> 0,
     requestDigest |-> Zero]

LockedUntil(lock) == lock.lockDeadline + lock.deadlineDelta

IsProverPaidBeforeLockDeadline(lock) == DURING \in lock.requestLockFlags
IsProverPaidAfterLockDeadline(lock)  == AFTER \in lock.requestLockFlags
IsSlashed(lock)                      == SLASHED \in lock.requestLockFlags

IsProverPaidMutant(lock) == IsProverPaidBeforeLockDeadline(lock)
IsProverPaid(lock) ==
    IsProverPaidBeforeLockDeadline(lock) \/ IsProverPaidAfterLockDeadline(lock)

ClearSlot1(lock) == [lock EXCEPT !.price = 0, !.collateral = 0]

\* The flags are assigned, not or-ed.
SetProverPaidBeforeLockDeadline(lock) ==
    ClearSlot1([lock EXCEPT !.requestLockFlags = {DURING}])

SetProverPaidAfterMutant(lock, prover) ==
    ClearSlot1([lock EXCEPT !.prover = prover, !.requestLockFlags = @ \cup {AFTER}])

\* Slot 1 is kept: slash() still needs the collateral.
SetProverPaidAfterLockDeadline(lock, prover) ==
    [lock EXCEPT !.prover = prover, !.requestLockFlags = @ \cup {AFTER}]

SetSlashedMutant(lock) == ClearSlot1([lock EXCEPT !.requestLockFlags = {SLASHED}])
SetSlashed(lock) ==
    ClearSlot1([lock EXCEPT !.requestLockFlags = @ \cup {SLASHED}])

-----------------------------------------------------------------------------
(* Accounts (types/Account.sol, types/RequestId.sol)                       *)

ClientOf(id) == ClientAndIndex[id][1]
SlotOf(id)   == ClientAndIndex[id]

IsLocked(id)    == SlotOf(id) \in lockedFlag
IsFulfilled(id) == SlotOf(id) \in fulfilledFlag

\* A uint96 addition reverts when it overflows.
FitsUint96(f) == \A a \in DOMAIN f : f[a] <= MaxUint96

Credit(f, a, v) == [f EXCEPT ![a] = @ + v]
Debit(f, a, v)  == [f EXCEPT ![a] = @ - v]

\* Unwritten storage has lockDeadline 0; block.timestamp is never 0.
Init ==
    /\ now = 1
    /\ balance = [a \in Account |-> 0]
    /\ collateralBalance = [a \in Account |-> 0]
    /\ lockedFlag = {}
    /\ fulfilledFlag = {}
    /\ requestLocks = [id \in RequestId |-> ZeroLock]
    /\ ethHeld = 0
    /\ tokenHeld = 0
    /\ burned = 0
    /\ delivered = {}
    /\ charged = [id \in RequestId |-> 0]
    /\ payments = [id \in RequestId |-> 0]
    /\ paidFor = [id \in RequestId |-> Zero]

-----------------------------------------------------------------------------
(* Time, deposits and withdrawals                                          *)

Tick ==
    /\ now < MaxTime
    /\ now' = now + 1
    /\ UNCHANGED <<accountVars, flagVars, requestLocks, holdingVars, historyVars>>

\* deposit, depositTo and the deposit inside submitRequest.
Deposit(to, value) ==
    /\ ethHeld + value <= EthSupply
    /\ balance' = Credit(balance, to, value)
    /\ FitsUint96(balance')
    /\ ethHeld' = ethHeld + value
    /\ UNCHANGED <<now, collateralBalance, flagVars, requestLocks, tokenHeld,
                   burned, historyVars>>

Withdraw(account, value) ==
    /\ balance[account] >= value
    /\ balance' = Debit(balance, account, value)
    /\ ethHeld' = ethHeld - value
    /\ UNCHANGED <<now, collateralBalance, flagVars, requestLocks, tokenHeld,
                   burned, historyVars>>

\* depositCollateral and depositCollateralWithPermit.
DepositCollateral(from, value) ==
    /\ tokenHeld + burned + value <= TokenSupply
    /\ collateralBalance' = Credit(collateralBalance, from, value)
    /\ FitsUint96(collateralBalance')
    /\ tokenHeld' = tokenHeld + value
    /\ UNCHANGED <<now, balance, flagVars, requestLocks, ethHeld, burned,
                   historyVars>>

WithdrawCollateral(account, value) ==
    /\ collateralBalance[account] >= value
    /\ collateralBalance' = Debit(collateralBalance, account, value)
    /\ tokenHeld' = tokenHeld - value
    /\ UNCHANGED <<now, balance, flagVars, requestLocks, ethHeld, burned,
                   historyVars>>

-----------------------------------------------------------------------------
(* Locking                                                                 *)

LockableMutant(id) == ~IsFulfilled(id)
Lockable(id) == ~IsLocked(id) /\ ~IsFulfilled(id)

FundedMutant(id, prover, price, collateral) == balance[ClientOf(id)] >= price
Funded(id, prover, price, collateral) ==
    /\ balance[ClientOf(id)] >= price
    /\ collateralBalance[prover] >= collateral

\* lockRequest and lockRequestWithSignature: the prover is the sender or the
\* signer.
LockRequest(request, prover) ==
    LET id    == IdOf[request]
        offer == OfferOf[request]
        price == PriceAt(offer, now)
    IN
    /\ Validate(offer, MaxUint24)
    /\ Lockable(id)
    /\ now <= LockDeadline(offer)
    /\ price <= MaxUint96
    /\ Funded(id, prover, price, offer.lockCollateral)
    /\ balance' = Debit(balance, ClientOf(id), price)
    /\ collateralBalance' = Debit(collateralBalance, prover, offer.lockCollateral)
    /\ requestLocks' = [requestLocks EXCEPT ![id] =
          [prover |-> prover, lockDeadline |-> LockDeadline(offer),
           deadlineDelta |-> Deadline(offer) - LockDeadline(offer),
           requestLockFlags |-> {}, price |-> price,
           collateral |-> offer.lockCollateral, requestDigest |-> request]]
    /\ lockedFlag' = lockedFlag \cup {SlotOf(id)}
    /\ charged' = Credit(charged, id, price)
    /\ UNCHANGED <<now, fulfilledFlag, holdingVars, delivered, payments, paidFor>>

-----------------------------------------------------------------------------
(* Fulfillment                                                             *)

\* What priceRequest leaves in transient storage for the rest of the
\* transaction, and what load returns when it was not called.
FulfillmentContextMutant(request, priced) ==
    IF priced
    THEN [valid |-> TRUE, expired |-> FALSE, price |-> PriceAt(OfferOf[request], now)]
    ELSE [valid |-> FALSE, expired |-> FALSE, price |-> 0]
FulfillmentContext(request, priced) ==
    IF priced
    THEN [valid |-> TRUE,
          expired |-> Deadline(OfferOf[request]) < now,
          price |-> PriceAt(OfferOf[request], now)]
    ELSE [valid |-> FALSE, expired |-> FALSE, price |-> 0]

PriceRequestOk(request) ==
    /\ Validate(OfferOf[request], MaxUint24)
    /\ PriceAt(OfferOf[request], now) <= MaxUint96

\* priceRequest or lockRequest has seen the client's signature; otherwise
\* RequestIsNotLockedOrPriced reverts.
Authenticated(request, priced) ==
    \/ priced /\ PriceRequestOk(request)
    \/ ~priced /\ IsLocked(IdOf[request])
               /\ requestLocks[IdOf[request]].requestDigest = request

Expired(request, priced) ==
    IF priced
    THEN FulfillmentContext(request, priced).expired
    ELSE LockedUntil(requestLocks[IdOf[request]]) < now

MarketFee(price) == (price * MARKET_FEE_BPS) \div 10000

\* The payment to a prover, less the market fee that the treasury keeps.
Pay(f, prover, price) ==
    Credit(Credit(f, Market, MarketFee(price)), prover, price - MarketFee(price))

\* The end of fulfill, or of fulfillAndWithdraw, which sends the prover all
\* of its balance.
PayOut(newBalance, prover, withdraw) ==
    /\ FitsUint96(newBalance)
    /\ IF withdraw
       THEN /\ balance' = [newBalance EXCEPT ![prover] = 0]
            /\ ethHeld' = ethHeld - newBalance[prover]
       ELSE /\ balance' = newBalance
            /\ ethHeld' = ethHeld

SetRequestFulfilledMutant(id) == UNCHANGED fulfilledFlag
SetRequestFulfilled(id) == fulfilledFlag' = fulfilledFlag \cup {SlotOf(id)}

\* The early return: no ProofDelivered event, no callback.
FulfillExpired(request, prover, priced, withdraw) ==
    /\ Authenticated(request, priced)
    /\ Expired(request, priced)
    /\ PayOut(balance, prover, withdraw)
    /\ UNCHANGED <<now, collateralBalance, flagVars, requestLocks, tokenHeld,
                   burned, historyVars>>

\* The guard of every path that ends in ProofDelivered.
Deliverable(request, priced) ==
    Authenticated(request, priced) /\ ~Expired(request, priced)

\* A fill that is delivered and pays nobody: the prover was paid before (then
\* fulfilled is set already), or the fill is not the locker's own.
DeliverUnpaid(request, prover, withdraw) ==
    /\ PayOut(balance, prover, withdraw)
    /\ delivered' = delivered \cup {request}
    /\ UNCHANGED <<now, collateralBalance, lockedFlag, requestLocks, tokenHeld,
                   burned, charged, payments, paidFor>>

FulfillAndPayLocked(request, prover, priced, withdraw) ==
    LET id   == IdOf[request]
        lock == requestLocks[id]
        mine == lock.prover = prover /\ lock.requestDigest = request
    IN
    /\ Deliverable(request, priced)
    /\ IsLocked(id)
    /\ lock.lockDeadline >= now
    /\ \/ /\ IsProverPaid(lock)
          /\ UNCHANGED fulfilledFlag
          /\ DeliverUnpaid(request, prover, withdraw)
       \/ /\ ~IsProverPaid(lock) /\ ~mine
          /\ SetRequestFulfilled(id)
          /\ DeliverUnpaid(request, prover, withdraw)
       \/ /\ ~IsProverPaid(lock) /\ mine
          /\ SetRequestFulfilled(id)
          /\ requestLocks' = [requestLocks EXCEPT ![id] =
                                SetProverPaidBeforeLockDeadline(@)]
          /\ PayOut(Pay(balance, prover, lock.price), prover, withdraw)
          /\ collateralBalance' = Credit(collateralBalance, prover, lock.collateral)
          /\ FitsUint96(collateralBalance')
          /\ delivered' = delivered \cup {request}
          /\ payments' = Credit(payments, id, 1)
          /\ paidFor' = [paidFor EXCEPT ![id] = request]
          /\ UNCHANGED <<now, lockedFlag, tokenHeld, burned, charged>>

\* What the client still owes when the price now is above the lock price,
\* capped by its balance (PartialPayment); negative when it is owed money.
ClientOwesMutant(price, lockPrice, available) ==
    IF price > available THEN available ELSE price
NoLateRefundMutant(price, lockPrice, available) ==
    IF price <= lockPrice THEN 0
    ELSE IF price - lockPrice > available THEN available ELSE price - lockPrice
ClientOwes(price, lockPrice, available) ==
    IF price - lockPrice > available THEN available ELSE price - lockPrice

FulfillAndPayWasLocked(request, prover, priced, withdraw) ==
    LET id     == IdOf[request]
        client == ClientOf(id)
        lock   == requestLocks[id]
        price  == FulfillmentContext(request, priced).price
        owes   == ClientOwes(price, lock.price, balance[client])
        finalPrice == lock.price + owes
    IN
    /\ Deliverable(request, priced)
    /\ IsLocked(id)
    /\ lock.lockDeadline < now
    /\ \/ /\ IsProverPaid(lock)
          /\ UNCHANGED fulfilledFlag
          /\ DeliverUnpaid(request, prover, withdraw)
       \/ /\ ~IsProverPaid(lock)
          /\ SetRequestFulfilled(id)
          /\ FitsUint96(Debit(balance, client, owes))
          /\ PayOut(Pay(Debit(balance, client, owes), prover, finalPrice),
                    prover, withdraw)
          /\ requestLocks' = [requestLocks EXCEPT ![id] =
                                SetProverPaidAfterLockDeadline(@, prover)]
          /\ delivered' = delivered \cup {request}
          /\ charged' = Credit(charged, id, owes)
          /\ payments' = Credit(payments, id, 1)
          /\ paidFor' = [paidFor EXCEPT ![id] = request]
          /\ UNCHANGED <<now, collateralBalance, lockedFlag, tokenHeld, burned>>

FulfillAndPayNeverLocked(request, prover, priced, withdraw) ==
    LET id     == IdOf[request]
        client == ClientOf(id)
        price  == FulfillmentContext(request, priced).price
    IN
    /\ Deliverable(request, priced)
    /\ ~IsLocked(id)
    /\ SetRequestFulfilled(id)
    /\ \/ /\ IsFulfilled(id) \/ balance[client] < price
          /\ DeliverUnpaid(request, prover, withdraw)
       \/ /\ ~IsFulfilled(id) /\ balance[client] >= price
          /\ PayOut(Pay(Debit(balance, client, price), prover, price),
                    prover, withdraw)
          /\ delivered' = delivered \cup {request}
          /\ charged' = Credit(charged, id, price)
          /\ payments' = Credit(payments, id, 1)
          /\ paidFor' = [paidFor EXCEPT ![id] = request]
          /\ UNCHANGED <<now, collateralBalance, lockedFlag, requestLocks,
                         tokenHeld, burned>>

-----------------------------------------------------------------------------
(* Slashing                                                                *)

BurnValue(collateral) == (collateral * SLASHING_BURN_BPS) \div 10000

SlashablePaidMutant(id) ==
    /\ IsLocked(id)
    /\ ~IsSlashed(requestLocks[id])
    /\ now > LockedUntil(requestLocks[id])
Slashable(id) ==
    /\ IsLocked(id)
    /\ ~IsSlashed(requestLocks[id])
    /\ ~IsProverPaidBeforeLockDeadline(requestLocks[id])
    /\ now > LockedUntil(requestLocks[id])

\* The Ether that goes back to the client: what it paid at lock time, unless a
\* late delivery has settled that.
NoRefundMutant(lock) == 0
RefundAlwaysMutant(lock) == lock.price
SlashRefund(lock) == IF IsProverPaidAfterLockDeadline(lock) THEN 0 ELSE lock.price

Slash(id) ==
    LET lock     == requestLocks[id]
        burn     == BurnValue(lock.collateral)
        transfer == lock.collateral - burn
        recipient == IF IsProverPaidAfterLockDeadline(lock) THEN lock.prover ELSE Market
    IN
    /\ Slashable(id)
    /\ requestLocks' = [requestLocks EXCEPT ![id] = SetSlashed(@)]
    /\ collateralBalance' = Credit(collateralBalance, recipient, transfer)
    /\ FitsUint96(collateralBalance')
    /\ balance' = Credit(balance, ClientOf(id), SlashRefund(lock))
    /\ FitsUint96(balance')
    /\ tokenHeld' = tokenHeld - burn
    /\ burned' = burned + burn
    /\ charged' = Debit(charged, id, SlashRefund(lock))
    /\ UNCHANGED <<now, flagVars, ethHeld, delivered, payments, paidFor>>

-----------------------------------------------------------------------------
(* The specification                                                       *)

Fulfill(request, prover, priced, withdraw) ==
    \/ FulfillExpired(request, prover, priced, withdraw)
    \/ FulfillAndPayLocked(request, prover, priced, withdraw)
    \/ FulfillAndPayWasLocked(request, prover, priced, withdraw)
    \/ FulfillAndPayNeverLocked(request, prover, priced, withdraw)

Next ==
    \/ Tick
    \/ \E to \in Account, value \in 1..MaxUint96 : Deposit(to, value)
    \/ \E a \in Address, value \in 1..MaxUint96 :
          \/ Withdraw(a, value)
          \/ DepositCollateral(a, value)
          \/ WithdrawCollateral(a, value)
    \/ \E request \in Request, prover \in Address : LockRequest(request, prover)
    \/ \E request \in Request, prover \in Address, priced, withdraw \in BOOLEAN :
          Fulfill(request, prover, priced, withdraw)
    \/ \E id \in RequestId : Slash(id)

Spec == Init /\ [][Next]_vars

-----------------------------------------------------------------------------
(* Properties                                                              *)

TypeOK ==
    /\ now \in Nat
    /\ balance \in [Account -> 0..MaxUint96]
    /\ collateralBalance \in [Account -> 0..MaxUint96]
    /\ lockedFlag \subseteq Slot
    /\ fulfilledFlag \subseteq Slot
    /\ requestLocks \in [RequestId -> RequestLock]
    /\ ethHeld \in 0..EthSupply
    /\ tokenHeld \in 0..TokenSupply
    /\ burned \in 0..TokenSupply
    /\ delivered \subseteq Request
    /\ charged \in [RequestId -> 0..MaxUint96]
    /\ payments \in [RequestId -> Nat]
    /\ paidFor \in [RequestId -> Request \cup {Zero}]

\* The price of a lock is in escrow until somebody is paid or it is slashed;
\* its collateral until the locker delivers in time or it is slashed.
EthEscrowOf(lock) == IF lock.requestLockFlags = {} THEN lock.price ELSE 0
CollateralEscrowOf(lock) ==
    IF lock.requestLockFlags \subseteq {AFTER} THEN lock.collateral ELSE 0

EthEscrow        == [id \in RequestId |-> EthEscrowOf(requestLocks[id])]
CollateralEscrow == [id \in RequestId |-> CollateralEscrowOf(requestLocks[id])]

\* The contract holds, to the wei, what it owes: the accounts' balances and
\* the prices of the locks nobody was paid for (_lockRequest, the three
\* _fulfillAndPay paths, slash, _withdraw).
EthSolvency ==
    ethHeld = Total(balance, MaxUint96) + Total(EthEscrow, MaxUint96)

\* The same for collateral tokens, across the burn of slash.
CollateralSolvency ==
    tokenHeld = Total(collateralBalance, MaxUint96)
                  + Total(CollateralEscrow, MaxUint96)

\* "If the prover is paid, the fulfilled flag must be set"
\* (BoundlessMarket.sol:514), and a lock whose flags are set belongs to a
\* slot that can never be locked again.
PaidImpliesFulfilled ==
    \A id \in RequestId :
        /\ IsProverPaid(requestLocks[id]) => IsFulfilled(id)
        /\ requestLocks[id].requestLockFlags # {} => IsLocked(id)

\* A locker that delivered in time is never slashed and nobody else is paid
\* for its lock: slash, the late path and the assignment of the flags in
\* setProverPaidBeforeLockDeadline never meet.
PaidInTimeIsFinal ==
    \A id \in RequestId :
        IsProverPaidBeforeLockDeadline(requestLocks[id]) =>
            requestLocks[id].requestLockFlags = {DURING}

\* Whatever is locked, refilled, priced again or slashed, at most one prover
\* is paid, once, for a request id.
AtMostOnePayment == \A id \in RequestId : payments[id] <= 1

\* All that a client is ever debited for an id is the highest maxPrice among
\* the requests it signed under that id, also when one was locked and another
\* one fulfilled (_fulfillAndPayWasLocked).
ChargeWithinMaxPrice ==
    \A id \in RequestId :
        charged[id] > 0 =>
            \E r \in Request : IdOf[r] = id /\ charged[id] <= OfferOf[r].maxPrice

\* A client keeps being charged for an id only while the price is in escrow or
\* was transferred to a prover: a slashed lock nobody was paid for costs
\* nothing, and neither does an unpaid delivery.
ChargedOnlyForPayment ==
    \A id \in RequestId :
        charged[id] > 0 =>
            \/ payments[id] = 1
            \/ IsLocked(id) /\ requestLocks[id].requestLockFlags = {}

\* The fulfilled bit of a slot is set exactly when a ProofDelivered event was
\* emitted for a request of the slot (the note at BoundlessMarket.sol:479).
FulfilledIffDelivered ==
    \A s \in Slot :
        s \in fulfilledFlag <=> \E r \in delivered : SlotOf(IdOf[r]) = s

\* Of the ids that share a slot, which differ in the signature bit that
\* clientAndIndex drops, at most one is ever locked.
OneLockPerSlot ==
    \A id1, id2 \in RequestId :
        /\ SlotOf(id1) = SlotOf(id2)
        /\ requestLocks[id1].requestDigest # Zero
        /\ requestLocks[id2].requestDigest # Zero
        => id1 = id2

\* The flags of a lock only grow: no payment and no slashing is forgotten, by
\* a second lock or otherwise.
LockFlagsGrow ==
    [][\A id \in RequestId :
          requestLocks[id].requestLockFlags \subseteq requestLocks'[id].requestLockFlags]_vars

\* ProofDelivered is not emitted for an expired request
\* (BoundlessMarket.sol:455).
NoDeliveryAfterDeadline ==
    [][\A r \in delivered' \ delivered : now <= Deadline(OfferOf[r])]_vars

\* The escrow of an id, read off its lock and its settlement.
Stake(id) ==
    LET lock == requestLocks[id]
    IN  IF lock.requestDigest = Zero THEN "none"
        ELSE IF IsSlashed(lock) THEN "forfeited"
        ELSE IF IsProverPaidBeforeLockDeadline(lock) THEN "returned"
        ELSE "staked"

Price(id) ==
    LET lock == requestLocks[id]
    IN  IF payments[id] > 0
        THEN IF paidFor[id] # lock.requestDigest THEN "replaced"
             ELSE IF IsProverPaidAfterLockDeadline(lock) THEN "returned"
             ELSE "paid"
        ELSE IF Stake(id) = "none" THEN "none"
        ELSE IF Stake(id) = "forfeited" THEN "refunded"
        ELSE "held"

Phase(id) ==
    LET lock == requestLocks[id]
    IN  IF lock.requestDigest = Zero THEN 0
        ELSE IF now <= lock.lockDeadline THEN 1
        ELSE IF now <= LockedUntil(lock) THEN 2
        ELSE 3

E == INSTANCE Escrow WITH Id <- RequestId, Amount <- 0..MaxUint96,
        stake <- [id \in RequestId |-> Stake(id)],
        price <- [id \in RequestId |-> Price(id)],
        phase <- [id \in RequestId |-> Phase(id)],
        cost <- charged

\* The contract keeps the promise of Escrow: through re-deliveries, requests
\* signed under one id, ids that share a slot and slash, the collateral and the
\* price of a lock each leave escrow once and for the right reason, and what
\* the client has paid in the end is what that reason says: the lock price for
\* a delivery in time, nothing when the locked request is delivered late or not
\* at all (_lockRequest, _fulfillAndPay, slash).
EscrowIsKept == E!Spec

=============================================================================
