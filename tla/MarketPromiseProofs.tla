------------------------ MODULE MarketPromiseProofs ------------------------
(***************************************************************************)
(* What the market promises its clients and provers, for every set of      *)
(* requests, ids and accounts.                                             *)
(*                                                                         *)
(* What it records about a request, its lock, its deliveries and what its  *)
(* client was charged: the invariant adds to the one of                    *)
(* BoundlessMarketProofs that a lock keeps the deadlines, and at most the  *)
(* price, of the request that was locked.                                  *)
(*                                                                         *)
(* It implements Escrow: a step of the market changes the escrow of at     *)
(* most one id, and the invariant says in which state that id is: a slot   *)
(* that is not locked has no lock at all, a lock nobody was paid for has   *)
(* no payments and has cost its price, a slashed one has expired, and the  *)
(* locked request is worth nothing once its lock has lapsed.               *)
(***************************************************************************)
EXTENDS BoundlessMarketProofs, OfferProofs

-----------------------------------------------------------------------------
(* Locks, deliveries and charges                                           *)

DigestInv(id) ==
    LET lock == requestLocks[id] IN
    /\ lock.requestDigest = Zero => lock.price = 0
    /\ lock.requestDigest # Zero =>
        /\ lock.requestDigest \in Request /\ IdOf[lock.requestDigest] = id
        /\ lock.lockDeadline = LockDeadline(OfferOf[lock.requestDigest])
        /\ LockedUntil(lock) = Deadline(OfferOf[lock.requestDigest])
        /\ lock.price <= OfferOf[lock.requestDigest].maxPrice

DInv ==
    /\ IInv
    /\ FulfilledIffDelivered
    /\ OneLockPerSlot
    /\ \A id \in RequestId : DigestInv(id)
    /\ ChargeWithinMaxPrice

-----------------------------------------------------------------------------
(* Steps                                                                   *)

\* The fields of the offer of a request.
LEMMA OfferFields ==
    ASSUME NEW request \in Request
    PROVE  /\ IdOf[request] \in RequestId /\ request # Zero
           /\ Unsigned(OfferOf[request])
           /\ OfferOf[request].maxPrice \in Nat
           /\ LockDeadline(OfferOf[request]) \in Nat /\ Deadline(OfferOf[request]) \in Nat
<1>1. OfferOf[request] \in OfferType /\ IdOf[request] \in RequestId /\ request # Zero
  BY OfRequest
<1>2. Unsigned(OfferOf[request])
  BY <1>1 DEF OfferType, Unsigned
<1> QED
  BY <1>1, <1>2 DEF Unsigned, LockDeadline, Deadline

\* A step keeps the request and the deadline of a lock and never raises its
\* price, or it makes a lock of an id whose slot was not locked.
Kept(id) ==
    /\ requestLocks'[id].requestDigest = requestLocks[id].requestDigest
    /\ requestLocks'[id].lockDeadline = requestLocks[id].lockDeadline
    /\ LockedUntil(requestLocks'[id]) = LockedUntil(requestLocks[id])
    /\ requestLocks'[id].price <= requestLocks[id].price
Made(id) ==
    \E request \in Request, prover \in Address :
        /\ LockRequest(request, prover) /\ IdOf[request] = id
        /\ requestLocks'[id].requestDigest = request
        /\ requestLocks'[id].lockDeadline = LockDeadline(OfferOf[request])
        /\ LockedUntil(requestLocks'[id]) = Deadline(OfferOf[request])
        /\ requestLocks'[id].price = PriceAt(OfferOf[request], now)

\* _lockRequest.
LEMMA LockMade ==
    ASSUME IInv, NEW request \in Request, NEW prover \in Address,
           LockRequest(request, prover)
    PROVE  /\ Made(IdOf[request])
           /\ \A id \in RequestId \ {IdOf[request]} : requestLocks'[id] = requestLocks[id]
<1> DEFINE id == IdOf[request]
           o == OfferOf[request]
           lock == [prover |-> prover, lockDeadline |-> LockDeadline(o),
                    deadlineDelta |-> Deadline(o) - LockDeadline(o),
                    requestLockFlags |-> {}, price |-> PriceAt(o, now),
                    collateral |-> o.lockCollateral, requestDigest |-> request]
<1>1. requestLocks' = [requestLocks EXCEPT ![id] = lock]
  BY DEF LockRequest
<1>2. requestLocks \in [RequestId -> RequestLock] /\ id \in RequestId
  BY OfferFields DEF IInv, TypeOK
<1>3. requestLocks'[id] = lock
  BY <1>1, <1>2
<1>4. LockedUntil(lock) = Deadline(o)
  BY OfferFields DEF LockedUntil
<1> QED
  BY <1>1, <1>2, <1>3, <1>4 DEF Made

\* A change of one lock that leaves request and deadlines alone.
LEMMA LockKept ==
    ASSUME IInv, NEW id \in RequestId, NEW x \in RequestId, NEW new,
           requestLocks' = [requestLocks EXCEPT ![id] = new],
           new.requestDigest = requestLocks[id].requestDigest,
           new.lockDeadline = requestLocks[id].lockDeadline,
           LockedUntil(new) = LockedUntil(requestLocks[id]),
           new.price <= requestLocks[id].price
    PROVE  Kept(x)
<1>1. requestLocks \in [RequestId -> RequestLock]
  BY DEF IInv, TypeOK
<1>2. requestLocks[x] \in RequestLock /\ requestLocks[x].price \in Nat
  BY <1>1, Constants DEF RequestLock
<1>3. CASE x = id
  BY <1>1, <1>3 DEF Kept
<1>4. CASE x # id
  BY <1>1, <1>2, <1>4 DEF Kept
<1> QED
  BY <1>3, <1>4

\* The three transitions of a lock keep its request and its deadlines.
LEMMA Transitions ==
    ASSUME NEW lock \in RequestLock, NEW prover
    PROVE  /\ SetProverPaidBeforeLockDeadline(lock).requestDigest = lock.requestDigest
           /\ SetProverPaidBeforeLockDeadline(lock).lockDeadline = lock.lockDeadline
           /\ LockedUntil(SetProverPaidBeforeLockDeadline(lock)) = LockedUntil(lock)
           /\ SetProverPaidBeforeLockDeadline(lock).price = 0
           /\ SetProverPaidAfterLockDeadline(lock, prover).requestDigest = lock.requestDigest
           /\ SetProverPaidAfterLockDeadline(lock, prover).lockDeadline = lock.lockDeadline
           /\ LockedUntil(SetProverPaidAfterLockDeadline(lock, prover)) = LockedUntil(lock)
           /\ SetProverPaidAfterLockDeadline(lock, prover).price = lock.price
           /\ SetSlashed(lock).requestDigest = lock.requestDigest
           /\ SetSlashed(lock).lockDeadline = lock.lockDeadline
           /\ LockedUntil(SetSlashed(lock)) = LockedUntil(lock)
           /\ SetSlashed(lock).price = 0
BY DEF SetProverPaidBeforeLockDeadline, SetProverPaidAfterLockDeadline, SetSlashed,
       ClearSlot1, LockedUntil, RequestLock

\* Of all the steps, only locking makes a lock.
LEMMA LockChange ==
    ASSUME IInv, [Next]_vars, NEW id \in RequestId
    PROVE  Kept(id) \/ Made(id)
<1>0. /\ requestLocks \in [RequestId -> RequestLock]
      /\ \A x \in RequestId : requestLocks[x] \in RequestLock /\ requestLocks[x].price \in Nat
  BY Constants DEF IInv, TypeOK, RequestLock
<1>1. CASE requestLocks' = requestLocks
  BY <1>0, <1>1 DEF Kept
<1>2. ASSUME NEW request \in Request, NEW prover \in Address, LockRequest(request, prover)
      PROVE  Kept(id) \/ Made(id)
  <2>1. CASE id = IdOf[request]
    BY <1>2, <2>1, LockMade
  <2>2. CASE id # IdOf[request]
    BY <1>0, <1>2, <2>2, LockMade DEF Kept
  <2> QED
    BY <2>1, <2>2
<1>3. ASSUME NEW request \in Request, NEW prover \in Address, NEW priced \in BOOLEAN,
             NEW withdraw \in BOOLEAN, Fulfill(request, prover, priced, withdraw)
      PROVE  Kept(id) \/ Made(id)
  <2> DEFINE x == IdOf[request]
             lock == requestLocks[x]
  <2>1. x \in RequestId /\ lock \in RequestLock /\ lock.price \in Nat
    BY <1>0, OfferFields
  <2>2. CASE requestLocks' = [requestLocks EXCEPT ![x] = SetProverPaidBeforeLockDeadline(@)]
    <3> DEFINE new == SetProverPaidBeforeLockDeadline(lock)
    <3>1. /\ new.requestDigest = lock.requestDigest /\ LockedUntil(new) = LockedUntil(lock)
          /\ new.lockDeadline = lock.lockDeadline
          /\ new.price = 0
      BY <2>1, Transitions
    <3>2. requestLocks' = [requestLocks EXCEPT ![x] = new]
      BY <2>2
    <3> HIDE DEF new
    <3>3. new.price <= lock.price
      BY <2>1, <3>1
    <3>4. Kept(id)
      BY <2>1, <3>1, <3>2, <3>3, LockKept
    <3> QED
      BY <3>4
  <2>3. CASE requestLocks' = [requestLocks EXCEPT ![x] = SetProverPaidAfterLockDeadline(@, prover)]
    <3> DEFINE new == SetProverPaidAfterLockDeadline(lock, prover)
    <3>1. /\ new.requestDigest = lock.requestDigest /\ LockedUntil(new) = LockedUntil(lock)
          /\ new.lockDeadline = lock.lockDeadline
          /\ new.price = lock.price
      BY <2>1, Transitions
    <3>2. requestLocks' = [requestLocks EXCEPT ![x] = new]
      BY <2>3
    <3> HIDE DEF new
    <3>3. new.price <= lock.price
      BY <2>1, <3>1
    <3>4. Kept(id)
      BY <2>1, <3>1, <3>2, <3>3, LockKept
    <3> QED
      BY <3>4
  <2>4. CASE requestLocks' = requestLocks
    BY <1>1, <2>4
  <2> QED
    BY <1>3, <2>2, <2>3, <2>4
       DEF Fulfill, FulfillExpired, FulfillAndPayLocked, FulfillAndPayWasLocked,
           FulfillAndPayNeverLocked, DeliverUnpaid
<1>4. ASSUME NEW x \in RequestId, Slash(x) PROVE Kept(id) \/ Made(id)
  <2> DEFINE new == SetSlashed(requestLocks[x])
  <2>1. /\ new.requestDigest = requestLocks[x].requestDigest
        /\ new.lockDeadline = requestLocks[x].lockDeadline
        /\ LockedUntil(new) = LockedUntil(requestLocks[x]) /\ new.price = 0
    BY <1>0, Transitions
  <2>2. requestLocks' = [requestLocks EXCEPT ![x] = new]
    BY <1>4 DEF Slash
  <2> HIDE DEF new
  <2>3. new.price <= requestLocks[x].price
    BY <1>0, <2>1
  <2>4. Kept(id)
    BY <2>1, <2>2, <2>3, LockKept
  <2> QED
    BY <2>4
<1> QED
  BY <1>1, <1>2, <1>3, <1>4
     DEF Next, Tick, Deposit, Withdraw, DepositCollateral, WithdrawCollateral, vars

-----------------------------------------------------------------------------
(* The invariant                                                           *)

\* The deadline of a lock is the one of the locked request, and its price at
\* most the highest one of that request.
LEMMA DigestStep ==
    ASSUME IInv, [Next]_vars, NEW id \in RequestId, DigestInv(id)
    PROVE  DigestInv(id)'
<1> DEFINE old == requestLocks[id]
           new == requestLocks'[id]
<1>1. IInv'
  BY NextInv
<1>2. old.price \in Nat /\ new.price \in Nat
  BY <1>1, Constants DEF IInv, TypeOK, RequestLock
<1>3. CASE Kept(id)
  <2>0. new.requestDigest = Zero => new.price = 0
    <3>1. new.requestDigest = old.requestDigest /\ new.price <= old.price
      BY <1>3 DEF Kept
    <3>2. old.requestDigest = Zero => old.price = 0
      BY DEF DigestInv
    <3> HIDE DEF old, new
    <3> QED
      BY <1>2, <3>1, <3>2
  <2> SUFFICES ASSUME new.requestDigest # Zero
               PROVE  /\ new.requestDigest \in Request /\ IdOf[new.requestDigest] = id
                      /\ new.lockDeadline = LockDeadline(OfferOf[new.requestDigest])
                      /\ LockedUntil(new) = Deadline(OfferOf[new.requestDigest])
                      /\ new.price <= OfferOf[new.requestDigest].maxPrice
    BY <2>0 DEF DigestInv
  <2>1. /\ new.requestDigest = old.requestDigest /\ LockedUntil(new) = LockedUntil(old)
        /\ new.lockDeadline = old.lockDeadline
        /\ new.price <= old.price
    BY <1>3 DEF Kept
  <2>2. /\ old.requestDigest \in Request /\ IdOf[old.requestDigest] = id
        /\ old.lockDeadline = LockDeadline(OfferOf[old.requestDigest])
        /\ LockedUntil(old) = Deadline(OfferOf[old.requestDigest])
        /\ old.price <= OfferOf[old.requestDigest].maxPrice
    BY <2>1 DEF DigestInv
  <2>3. OfferOf[old.requestDigest].maxPrice \in Nat
    BY <2>2, OfferFields
  <2> HIDE DEF old, new
  <2>4. new.price <= OfferOf[old.requestDigest].maxPrice
    BY <1>2, <2>1, <2>2, <2>3
  <2> QED
    BY <2>1, <2>2, <2>4
<1>4. CASE Made(id)
  <2>1. PICK request \in Request, prover \in Address :
          /\ LockRequest(request, prover) /\ IdOf[request] = id
          /\ new.requestDigest = request
          /\ new.lockDeadline = LockDeadline(OfferOf[request])
          /\ LockedUntil(new) = Deadline(OfferOf[request])
          /\ new.price = PriceAt(OfferOf[request], now)
    BY <1>4 DEF Made
  <2>2. Validate(OfferOf[request], MaxUint24) /\ now \in Nat
    BY <2>1 DEF LockRequest, IInv, TypeOK
  <2>3. PriceAt(OfferOf[request], now) \in 0..OfferOf[request].maxPrice
    BY <2>2, OfferFields, PriceBounds
  <2>4. PriceAt(OfferOf[request], now) <= OfferOf[request].maxPrice
    BY <2>3, OfferFields
  <2>5. request # Zero
    BY OfferFields
  <2> QED
    BY <2>1, <2>4, <2>5 DEF DigestInv
<1> QED
  BY <1>3, <1>4, LockChange

\* A slot is locked once, for all the ids that share it.
LEMMA OneLockStep ==
    ASSUME IInv, [Next]_vars, OneLockPerSlot
    PROVE  OneLockPerSlot'
<1> SUFFICES ASSUME NEW id1 \in RequestId, NEW id2 \in RequestId, SlotOf(id1) = SlotOf(id2),
                    requestLocks'[id1].requestDigest # Zero,
                    requestLocks'[id2].requestDigest # Zero, id1 # id2
             PROVE  FALSE
  BY DEF OneLockPerSlot, SlotOf
<1>1. ASSUME NEW a \in RequestId, NEW b \in RequestId, a # b, SlotOf(a) = SlotOf(b), Made(a)
      PROVE  requestLocks'[b].requestDigest = Zero
  <2>1. PICK request \in Request, prover \in Address :
          LockRequest(request, prover) /\ IdOf[request] = a
    BY <1>1 DEF Made
  <2>2. ~IsLocked(b)
    BY <1>1, <2>1 DEF LockRequest, Lockable, IsLocked
  <2>3. requestLocks[b].requestDigest = Zero
    BY <1>1, <2>2 DEF IInv, LockInv, ZeroLock
  <2>4. requestLocks'[b] = requestLocks[b]
    BY <1>1, <2>1, LockMade
  <2> QED
    BY <2>3, <2>4
<1>2. Kept(id1) /\ Kept(id2)
  BY <1>1, LockChange
<1> QED
  BY <1>2 DEF Kept, OneLockPerSlot

\* A step delivers at most one request, which is not expired, and then its slot
\* is fulfilled: it was already, if a prover was paid for it.
LEMMA DeliveryStep ==
    ASSUME IInv, [Next]_vars
    PROVE  \/ delivered' = delivered /\ fulfilledFlag' = fulfilledFlag
           \/ \E request \in Request, priced \in BOOLEAN :
                 /\ Deliverable(request, priced)
                 /\ delivered' = delivered \cup {request}
                 /\ fulfilledFlag' = fulfilledFlag \cup {SlotOf(IdOf[request])}
<1> DEFINE Goal ==
             \/ delivered' = delivered /\ fulfilledFlag' = fulfilledFlag
             \/ \E request \in Request, priced \in BOOLEAN :
                   /\ Deliverable(request, priced)
                   /\ delivered' = delivered \cup {request}
                   /\ fulfilledFlag' = fulfilledFlag \cup {SlotOf(IdOf[request])}
<1>1. ASSUME NEW request \in Request, NEW prover \in Address, NEW priced \in BOOLEAN,
             NEW withdraw \in BOOLEAN, Fulfill(request, prover, priced, withdraw)
      PROVE  Goal
  <2> DEFINE id == IdOf[request]
  <2>1. id \in RequestId /\ LockInv(id)
    BY OfferFields DEF IInv
  <2>2. IsProverPaid(requestLocks[id]) =>
           fulfilledFlag = fulfilledFlag \cup {SlotOf(id)}
    BY <2>1 DEF LockInv, IsFulfilled
  <2>3. CASE FulfillExpired(request, prover, priced, withdraw)
    BY <2>3 DEF FulfillExpired, flagVars, historyVars
  <2>4. CASE ~FulfillExpired(request, prover, priced, withdraw)
    <3>1. /\ Deliverable(request, priced)
          /\ delivered' = delivered \cup {request}
          /\ \/ fulfilledFlag' = fulfilledFlag /\ IsProverPaid(requestLocks[id])
             \/ fulfilledFlag' = fulfilledFlag \cup {SlotOf(id)}
      BY <1>1, <2>4
         DEF Fulfill, FulfillAndPayLocked, FulfillAndPayWasLocked, FulfillAndPayNeverLocked,
             DeliverUnpaid, SetRequestFulfilled
    <3>2. fulfilledFlag' = fulfilledFlag \cup {SlotOf(id)}
      BY <2>2, <3>1
    <3> QED
      BY <3>1, <3>2
  <2> QED
    BY <2>3, <2>4
<1> QED
  BY <1>1
     DEF Next, Tick, Deposit, Withdraw, DepositCollateral, WithdrawCollateral, LockRequest,
         Slash, vars, flagVars, historyVars

\* The fulfilled bits are those of the delivered requests.
LEMMA FulfilledStep ==
    ASSUME IInv, [Next]_vars, FulfilledIffDelivered
    PROVE  FulfilledIffDelivered'
<1> SUFFICES ASSUME NEW s \in Slot
             PROVE  s \in fulfilledFlag' <=> \E r \in delivered' : SlotOf(IdOf[r]) = s
  BY DEF FulfilledIffDelivered, SlotOf
<1>1. s \in fulfilledFlag <=> \E r \in delivered : SlotOf(IdOf[r]) = s
  BY DEF FulfilledIffDelivered
<1>2. CASE delivered' = delivered /\ fulfilledFlag' = fulfilledFlag
  BY <1>1, <1>2
<1>3. ASSUME NEW request \in Request, delivered' = delivered \cup {request},
             fulfilledFlag' = fulfilledFlag \cup {SlotOf(IdOf[request])}
      PROVE  s \in fulfilledFlag' <=> \E r \in delivered' : SlotOf(IdOf[r]) = s
  BY <1>1, <1>3
<1> QED
  BY <1>2, <1>3, DeliveryStep

\* The price a fill is charged at is within the request's maxPrice.
LEMMA PriceWithinMax ==
    ASSUME IInv, NEW request \in Request, NEW priced \in BOOLEAN,
           Authenticated(request, priced)
    PROVE  /\ FulfillmentContext(request, priced).price \in Nat
           /\ FulfillmentContext(request, priced).price <= OfferOf[request].maxPrice
<1>1. now \in Nat /\ Unsigned(OfferOf[request]) /\ OfferOf[request].maxPrice \in Nat
  BY OfferFields DEF IInv, TypeOK
<1>2. CASE priced
  <2>1. Validate(OfferOf[request], MaxUint24)
    BY <1>2 DEF Authenticated, PriceRequestOk
  <2>2. PriceAt(OfferOf[request], now) \in 0..OfferOf[request].maxPrice
    BY <1>1, <2>1, PriceBounds
  <2>3. FulfillmentContext(request, priced).price = PriceAt(OfferOf[request], now)
    BY <1>2 DEF FulfillmentContext
  <2> QED
    BY <1>1, <2>2, <2>3
<1>3. CASE ~priced
  <2>1. FulfillmentContext(request, priced).price = 0
    BY <1>3 DEF FulfillmentContext
  <2> QED
    BY <1>1, <2>1
<1> QED
  BY <1>2, <1>3

\* What a step charges a client for an id: nothing more, or the price of one of
\* its requests in all.
LEMMA ChargeChange ==
    ASSUME IInv, [Next]_vars, NEW id \in RequestId
    PROVE  \/ charged'[id] <= charged[id]
           \/ \E r \in Request : IdOf[r] = id /\ charged'[id] <= OfferOf[r].maxPrice
<1> DEFINE Goal == \/ charged'[id] <= charged[id]
                   \/ \E r \in Request : IdOf[r] = id /\ charged'[id] <= OfferOf[r].maxPrice
<1>0. /\ charged \in [RequestId -> 0..MaxUint96]
      /\ balance \in [Account -> 0..MaxUint96]
      /\ \A x \in RequestId : charged[x] \in Nat /\ LockInv(x) /\ ChargeInv(x)
  BY Constants DEF IInv, TypeOK
<1>1. CASE charged' = charged
  BY <1>0, <1>1
<1>2. ASSUME NEW x \in RequestId, NEW v \in Int, charged' = Credit(charged, x, v),
             NEW r \in Request, IdOf[r] = x, charged[x] + v <= OfferOf[r].maxPrice
      PROVE  Goal
  <2>1. CASE x = id
    <3>1. charged'[id] = charged[id] + v
      BY <1>0, <1>2, <2>1 DEF Credit
    <3> QED
      BY <1>2, <2>1, <3>1
  <2>2. CASE x # id
    <3>1. charged'[id] = charged[id]
      BY <1>0, <1>2, <2>2 DEF Credit
    <3> QED
      BY <1>0, <3>1
  <2> QED
    BY <2>1, <2>2
<1>3. ASSUME NEW request \in Request, NEW prover \in Address, LockRequest(request, prover)
      PROVE  Goal
  <2> DEFINE p == PriceAt(OfferOf[request], now)
  <2>1. /\ IdOf[request] \in RequestId /\ Unsigned(OfferOf[request])
        /\ OfferOf[request].maxPrice \in Nat /\ now \in Nat
    BY OfferFields DEF IInv, TypeOK
  <2>2. /\ Validate(OfferOf[request], MaxUint24) /\ Lockable(IdOf[request])
        /\ charged' = Credit(charged, IdOf[request], p)
    BY <1>3 DEF LockRequest
  <2>3. p \in 0..OfferOf[request].maxPrice
    BY <2>1, <2>2, PriceBounds
  <2> HIDE DEF p
  <2>4. charged[IdOf[request]] = 0
    BY <1>0, <2>1, <2>2 DEF Lockable, ChargeInv
  <2>5. p \in Int /\ charged[IdOf[request]] + p <= OfferOf[request].maxPrice
    BY <2>1, <2>3, <2>4
  <2> QED
    BY <1>2, <2>1, <2>2, <2>5
<1>4. ASSUME NEW request \in Request, NEW prover \in Address, NEW priced \in BOOLEAN,
             NEW withdraw \in BOOLEAN, Fulfill(request, prover, priced, withdraw)
      PROVE  Goal
  <2> DEFINE x == IdOf[request]
             client == ClientOf(x)
             lock == requestLocks[x]
             p == FulfillmentContext(request, priced).price
             owes == ClientOwes(p, lock.price, balance[client])
  <2>1. /\ x \in RequestId /\ OfferOf[request].maxPrice \in Nat
        /\ lock.price \in Nat /\ balance[client] \in Nat
    <3>1. x \in RequestId /\ OfferOf[request].maxPrice \in Nat
      BY OfferFields
    <3>2. lock \in RequestLock /\ client \in Account
      BY <3>1, IdFacts DEF IInv, TypeOK
    <3> QED
      BY <1>0, <3>1, <3>2, Constants DEF RequestLock
  <2>2. Authenticated(request, priced) => p \in Nat /\ p <= OfferOf[request].maxPrice
    BY PriceWithinMax
  <2>3. CASE /\ Authenticated(request, priced) /\ IsLocked(x) /\ ~IsProverPaid(lock)
             /\ charged' = Credit(charged, x, owes)
    <3>1. charged[x] = lock.price
      BY <1>0, <2>1, <2>3 DEF ChargeInv
    <3> HIDE DEF p
    <3>2. owes \in Int /\ lock.price + owes <= p
      BY <2>1, <2>2, <2>3 DEF ClientOwes
    <3> HIDE DEF owes
    <3>3. charged[x] + owes <= OfferOf[request].maxPrice
      BY <2>1, <2>2, <2>3, <3>1, <3>2
    <3> QED
      BY <1>2, <2>1, <2>3, <3>2, <3>3
  <2>4. CASE /\ Authenticated(request, priced) /\ ~IsLocked(x) /\ ~IsFulfilled(x)
             /\ charged' = Credit(charged, x, p)
    <3>1. charged[x] = 0
      BY <1>0, <2>1, <2>4 DEF ChargeInv
    <3> HIDE DEF p
    <3>2. p \in Int /\ charged[x] + p <= OfferOf[request].maxPrice
      BY <2>1, <2>2, <2>4, <3>1
    <3> QED
      BY <1>2, <2>1, <2>4, <3>2
  <2> QED
    BY <1>1, <1>4, <2>3, <2>4
       DEF Fulfill, FulfillExpired, FulfillAndPayLocked, FulfillAndPayWasLocked,
           FulfillAndPayNeverLocked, DeliverUnpaid, Deliverable, historyVars
<1>5. ASSUME NEW x \in RequestId, Slash(x) PROVE Goal
  <2> DEFINE refund == SlashRefund(requestLocks[x])
  <2>1. charged' = Debit(charged, x, refund)
    BY <1>5 DEF Slash
  <2>2. refund \in Nat
    BY Constants DEF IInv, TypeOK, RequestLock, SlashRefund
  <2> HIDE DEF refund
  <2>3. charged'[id] = charged[id] \/ charged'[id] = charged[id] - refund
    BY <1>0, <2>1 DEF Debit
  <2>4. charged'[id] <= charged[id]
    BY <1>0, <2>2, <2>3
  <2> QED
    BY <2>4
<1> QED
  BY <1>1, <1>3, <1>4, <1>5
     DEF Next, Tick, Deposit, Withdraw, DepositCollateral, WithdrawCollateral, vars, historyVars

\* All that a client pays for an id is within the maxPrice of one request.
LEMMA ChargeStep ==
    ASSUME IInv, [Next]_vars, ChargeWithinMaxPrice
    PROVE  ChargeWithinMaxPrice'
<1> SUFFICES ASSUME NEW id \in RequestId, charged'[id] > 0
             PROVE  \E r \in Request : IdOf[r] = id /\ charged'[id] <= OfferOf[r].maxPrice
  BY DEF ChargeWithinMaxPrice
<1>1. charged[id] \in Nat /\ charged'[id] \in Nat
  <2>1. IInv'
    BY NextInv
  <2> QED
    BY <2>1, Constants DEF IInv, TypeOK
<1>2. CASE charged'[id] <= charged[id]
  <2>1. charged[id] > 0
    BY <1>1, <1>2
  <2>2. PICK r \in Request : IdOf[r] = id /\ charged[id] <= OfferOf[r].maxPrice
    BY <2>1 DEF ChargeWithinMaxPrice
  <2>3. OfferOf[r].maxPrice \in Nat
    BY OfferFields
  <2>4. charged'[id] <= OfferOf[r].maxPrice
    BY <1>1, <1>2, <2>2, <2>3
  <2> QED
    BY <2>2, <2>4
<1> QED
  BY <1>2, ChargeChange

-----------------------------------------------------------------------------
(* The invariant holds                                                     *)

LEMMA DInvInit == Init => DInv
<1> SUFFICES ASSUME Init PROVE DInv
  OBVIOUS
<1>1. IInv
  BY InitInv
<1>2. \A id \in RequestId :
        /\ requestLocks[id].requestDigest = Zero /\ requestLocks[id].price = 0
        /\ charged[id] = 0
  BY DEF Init, ZeroLock
<1>3. OneLockPerSlot /\ \A id \in RequestId : DigestInv(id)
  BY <1>2 DEF OneLockPerSlot, DigestInv
<1>4. FulfilledIffDelivered
  BY DEF Init, FulfilledIffDelivered
<1>5. ChargeWithinMaxPrice
  BY <1>2 DEF ChargeWithinMaxPrice
<1> QED
  BY <1>1, <1>3, <1>4, <1>5 DEF DInv

LEMMA DInvNext == DInv /\ [Next]_vars => DInv'
<1> SUFFICES ASSUME DInv, [Next]_vars PROVE DInv'
  OBVIOUS
<1>1. IInv /\ IInv'
  BY NextInv DEF DInv
<1>2. \A id \in RequestId : DigestInv(id)'
  BY <1>1, DigestStep DEF DInv
<1>3. OneLockPerSlot' /\ FulfilledIffDelivered' /\ ChargeWithinMaxPrice'
  BY <1>1, OneLockStep, FulfilledStep, ChargeStep DEF DInv
<1> QED
  BY <1>1, <1>2, <1>3 DEF DInv

LEMMA DInvariance == Spec => []DInv
BY DInvInit, DInvNext, PTL DEF Spec

\* A request that can be delivered has not expired, also when the fill was not
\* priced and only the lock's packed deadline is compared.
LEMMA DeliverableInTime ==
    ASSUME DInv, NEW r \in Request, NEW priced \in BOOLEAN, Deliverable(r, priced)
    PROVE  now <= Deadline(OfferOf[r])
<1>1. /\ now \in Nat /\ Deadline(OfferOf[r]) \in Nat
      /\ IdOf[r] \in RequestId /\ r # Zero
  BY OfferFields DEF DInv, IInv, TypeOK
<1>2. CASE priced
  <2>1. ~FulfillmentContext(r, priced).expired
    BY <1>2 DEF Deliverable, Expired
  <2>2. FulfillmentContext(r, priced) =
          [valid |-> TRUE, expired |-> Deadline(OfferOf[r]) < now,
           price |-> PriceAt(OfferOf[r], now)]
    BY <1>2 DEF FulfillmentContext
  <2>3. FulfillmentContext(r, priced).expired = (Deadline(OfferOf[r]) < now)
    BY <2>2
  <2>4. ~(Deadline(OfferOf[r]) < now)
    BY <2>1, <2>3, Zenon
  <2> QED
    BY <1>1, <2>4
<1>3. CASE ~priced
  <2>1. /\ requestLocks[IdOf[r]].requestDigest = r
        /\ ~(LockedUntil(requestLocks[IdOf[r]]) < now)
    BY <1>3 DEF Deliverable, Authenticated, Expired
  <2>2. LockedUntil(requestLocks[IdOf[r]]) = Deadline(OfferOf[r])
    BY <1>1, <2>1 DEF DInv, DigestInv
  <2> QED
    BY <1>1, <2>1, <2>2
<1> QED
  BY <1>2, <1>3

-----------------------------------------------------------------------------
(* The escrow                                                              *)

Stakes == [id \in RequestId |-> Stake(id)]
Prices == [id \in RequestId |-> Price(id)]
Phases == [id \in RequestId |-> Phase(id)]

\* What the escrow of an id is read off.
SameEscrow(id) ==
    /\ requestLocks'[id] = requestLocks[id] /\ payments'[id] = payments[id]
    /\ paidFor'[id] = paidFor[id]

LEMMA EscrowOf ==
    ASSUME NEW id \in RequestId, SameEscrow(id), now' = now
    PROVE  Stake(id)' = Stake(id) /\ Price(id)' = Price(id) /\ Phase(id)' = Phase(id)
BY DEF SameEscrow, Stake, Price, Phase

\* A step that changes the escrow and the charge of one id only.
OnlyThis(id) ==
    /\ now' = now
    /\ \A x \in RequestId \ {id} : SameEscrow(x) /\ charged'[x] = charged[x]

LEMMA OneId ==
    ASSUME IInv, IInv', NEW id \in RequestId, OnlyThis(id)
    PROVE  /\ Stakes' = [Stakes EXCEPT ![id] = Stake(id)']
           /\ Prices' = [Prices EXCEPT ![id] = Price(id)']
           /\ Phases' = [Phases EXCEPT ![id] = Phase(id)']
           /\ charged' = [charged EXCEPT ![id] = charged'[id]]
<1>1. \A x \in RequestId \ {id} :
        Stake(x)' = Stake(x) /\ Price(x)' = Price(x) /\ Phase(x)' = Phase(x)
  BY EscrowOf DEF OnlyThis
<1>2. charged \in [RequestId -> 0..MaxUint96] /\ charged' \in [RequestId -> 0..MaxUint96]
  BY DEF IInv, TypeOK
<1>3. charged' = [charged EXCEPT ![id] = charged'[id]]
  BY <1>2 DEF OnlyThis
<1> QED
  BY <1>1, <1>3 DEF Stakes, Prices, Phases

\* The ways the escrow and the cost of one id may change.
Locks(id) ==
    /\ Stake(id) = "none" /\ Price(id) = "none"
    /\ Stake(id)' = "staked" /\ Price(id)' = "held" /\ Phase(id)' = 1
DeliversInTime(id) ==
    /\ Stake(id) = "staked" /\ Price(id) = "held" /\ Phase(id) = 1
    /\ Stake(id)' = "returned" /\ Price(id)' = "paid" /\ Phase(id)' = Phase(id)
    /\ charged'[id] = charged[id]
DeliversLate(id) ==
    /\ Price(id) = "held" /\ Phase(id) = 2
    /\ Stake(id)' = Stake(id) /\ Price(id)' = "returned" /\ Phase(id)' = Phase(id)
    /\ charged'[id] = 0
DeliversOther(id) ==
    /\ \/ Price(id) \in {"held", "refunded"} /\ Phase(id) \in {2, 3}
       \/ Stake(id) = "none" /\ Price(id) = "none"
    /\ Stake(id)' = Stake(id) /\ Price(id)' = "replaced" /\ Phase(id)' = Phase(id)
Forfeits(id) ==
    /\ Stake(id) = "staked" /\ Phase(id) = 3
    /\ Stake(id)' = "forfeited" /\ Phase(id)' = Phase(id)
    /\ IF Price(id) = "held"
       THEN Price(id)' = "refunded" /\ charged'[id] = 0
       ELSE Price(id)' = Price(id) /\ charged'[id] = charged[id]
Keeps(id) ==
    /\ Stake(id)' = Stake(id) /\ Price(id)' = Price(id) /\ Phase(id)' = Phase(id)
    /\ charged'[id] = charged[id]

LEMMA AbstractStep ==
    ASSUME IInv, IInv', NEW id \in RequestId, OnlyThis(id),
           \/ Locks(id) \/ DeliversInTime(id) \/ DeliversLate(id)
           \/ DeliversOther(id) \/ Forfeits(id) \/ Keeps(id)
    PROVE  [E!Next]_(E!vars)
<1>1. /\ Stakes' = [Stakes EXCEPT ![id] = Stake(id)']
      /\ Prices' = [Prices EXCEPT ![id] = Price(id)']
      /\ Phases' = [Phases EXCEPT ![id] = Phase(id)']
      /\ charged' = [charged EXCEPT ![id] = charged'[id]]
  BY OneId
<1>2. Stakes[id] = Stake(id) /\ Prices[id] = Price(id) /\ Phases[id] = Phase(id)
  BY DEF Stakes, Prices, Phases
<1>3. charged \in [RequestId -> 0..MaxUint96] /\ charged'[id] \in 0..MaxUint96
  BY DEF IInv, TypeOK
<1>4. /\ Stakes = [Stakes EXCEPT ![id] = Stakes[id]]
      /\ Prices = [Prices EXCEPT ![id] = Prices[id]]
      /\ Phases = [Phases EXCEPT ![id] = Phases[id]]
      /\ charged = [charged EXCEPT ![id] = charged[id]]
  BY <1>3 DEF Stakes, Prices, Phases
<1>5. CASE Locks(id)
  <2>1. E!Lock(id, charged'[id]) <=>
          /\ Stakes[id] = "none" /\ Prices[id] = "none"
          /\ Stakes' = [Stakes EXCEPT ![id] = "staked"]
          /\ Prices' = [Prices EXCEPT ![id] = "held"]
          /\ Phases' = [Phases EXCEPT ![id] = 1]
          /\ charged' = [charged EXCEPT ![id] = charged'[id]]
    BY DEF E!Lock, Stakes, Prices, Phases
  <2>2. E!Lock(id, charged'[id])
    BY <1>1, <1>2, <1>5, <2>1 DEF Locks
  <2> QED
    BY <1>3, <2>2 DEF E!Next
<1>6. CASE DeliversInTime(id)
  <2>1. E!DeliverInTime(id) <=>
          /\ Stakes[id] = "staked" /\ Prices[id] = "held" /\ Phases[id] = 1
          /\ Stakes' = [Stakes EXCEPT ![id] = "returned"]
          /\ Prices' = [Prices EXCEPT ![id] = "paid"]
          /\ Phases' = Phases /\ charged' = charged
    BY DEF E!DeliverInTime, Stakes, Prices, Phases
  <2>2. E!DeliverInTime(id)
    BY <1>1, <1>2, <1>4, <1>6, <2>1 DEF DeliversInTime
  <2> QED
    BY <2>2 DEF E!Next
<1>7. CASE DeliversLate(id)
  <2>1. E!DeliverLate(id) <=>
          /\ Prices[id] = "held" /\ Phases[id] = 2
          /\ Prices' = [Prices EXCEPT ![id] = "returned"]
          /\ charged' = [charged EXCEPT ![id] = 0]
          /\ Stakes' = Stakes /\ Phases' = Phases
    BY DEF E!DeliverLate, Stakes, Prices, Phases
  <2>2. E!DeliverLate(id)
    BY <1>1, <1>2, <1>4, <1>7, <2>1 DEF DeliversLate
  <2> QED
    BY <2>2 DEF E!Next
<1>8. CASE DeliversOther(id)
  <2>1. E!DeliverOther(id, charged'[id]) <=>
          /\ Prices[id] \in {"held", "refunded"} /\ Phases[id] \in {2, 3}
          /\ Prices' = [Prices EXCEPT ![id] = "replaced"]
          /\ charged' = [charged EXCEPT ![id] = charged'[id]]
          /\ Stakes' = Stakes /\ Phases' = Phases
    BY DEF E!DeliverOther, Stakes, Prices, Phases
  <2>2. E!DeliverUnlocked(id, charged'[id]) <=>
          /\ Stakes[id] = "none" /\ Prices[id] = "none"
          /\ Prices' = [Prices EXCEPT ![id] = "replaced"]
          /\ charged' = [charged EXCEPT ![id] = charged'[id]]
          /\ Stakes' = Stakes /\ Phases' = Phases
    BY DEF E!DeliverUnlocked, Stakes, Prices, Phases
  <2>3. E!DeliverOther(id, charged'[id]) \/ E!DeliverUnlocked(id, charged'[id])
    BY <1>1, <1>2, <1>4, <1>8, <2>1, <2>2 DEF DeliversOther
  <2> QED
    BY <1>3, <2>3 DEF E!Next
<1>9. CASE Forfeits(id)
  <2>1. E!Forfeit(id) <=>
          /\ Stakes[id] = "staked" /\ Phases[id] = 3
          /\ Stakes' = [Stakes EXCEPT ![id] = "forfeited"]
          /\ IF Prices[id] = "held"
             THEN /\ Prices' = [Prices EXCEPT ![id] = "refunded"]
                  /\ charged' = [charged EXCEPT ![id] = 0]
             ELSE Prices' = Prices /\ charged' = charged
          /\ Phases' = Phases
    BY DEF E!Forfeit, Stakes, Prices, Phases
  <2>2. E!Forfeit(id)
    BY <1>1, <1>2, <1>4, <1>9, <2>1 DEF Forfeits
  <2> QED
    BY <2>2 DEF E!Next
<1>10. CASE Keeps(id)
  <2>1. Stakes' = Stakes /\ Prices' = Prices /\ Phases' = Phases /\ charged' = charged
    BY <1>1, <1>2, <1>4, <1>10 DEF Keeps
  <2> QED
    BY <2>1 DEF E!vars, Stakes, Prices, Phases
<1> QED
  BY <1>5, <1>6, <1>7, <1>8, <1>9, <1>10

\* The types the steps below use.
LEMMA LockTypes ==
    ASSUME IInv, NEW id \in RequestId
    PROVE  /\ now \in Nat
           /\ requestLocks \in [RequestId -> RequestLock]
           /\ requestLocks[id] \in RequestLock
           /\ requestLocks[id].lockDeadline \in Nat
           /\ requestLocks[id].deadlineDelta \in Nat
           /\ requestLocks[id].lockDeadline <= LockedUntil(requestLocks[id])
           /\ LockedUntil(requestLocks[id]) \in Nat
           /\ payments \in [RequestId -> Nat] /\ payments[id] \in Nat
           /\ LockInv(id) /\ ChargeInv(id)
<1>1. /\ now \in Nat /\ requestLocks \in [RequestId -> RequestLock]
      /\ payments \in [RequestId -> Nat] /\ LockInv(id) /\ ChargeInv(id)
  BY DEF IInv, TypeOK
<1>2. requestLocks[id] \in RequestLock /\ payments[id] \in Nat
  BY <1>1
<1>3. requestLocks[id].lockDeadline \in Nat /\ requestLocks[id].deadlineDelta \in Nat
  BY <1>2, Limits DEF RequestLock
<1> QED
  BY <1>1, <1>2, <1>3 DEF LockedUntil

\* The amounts they use.
LEMMA Amounts ==
    ASSUME IInv, NEW id \in RequestId
    PROVE  /\ requestLocks[id].price \in Nat
           /\ charged \in [RequestId -> 0..MaxUint96] /\ charged[id] \in Nat
           /\ balance[ClientOf(id)] \in Nat
           /\ paidFor \in [RequestId -> Request \cup {Zero}]
<1>1. /\ requestLocks[id] \in RequestLock /\ ClientOf(id) \in Account
      /\ charged \in [RequestId -> 0..MaxUint96] /\ balance \in [Account -> 0..MaxUint96]
      /\ paidFor \in [RequestId -> Request \cup {Zero}]
  BY IdFacts DEF IInv, TypeOK
<1>2. requestLocks[id].price \in 0..MaxUint96
  BY <1>1 DEF RequestLock
<1> QED
  BY <1>1, <1>2, Constants

\* A lock that was never made is zero: its stake and its price are not there.
LEMMA NoLock ==
    ASSUME IInv, NEW id \in RequestId, ~IsLocked(id), ~IsFulfilled(id)
    PROVE  Stake(id) = "none" /\ Price(id) = "none"
<1>1. requestLocks[id] = ZeroLock /\ payments[id] = 0
  BY DEF IInv, LockInv, ChargeInv
<1>2. requestLocks[id].requestDigest = Zero
  BY <1>1 DEF ZeroLock
<1> QED
  BY <1>1, <1>2 DEF Stake, Price

\* _lockRequest puts the stake and the price of an id that has neither.
LEMMA LockEscrow ==
    ASSUME IInv, IInv', NEW request \in Request, NEW prover \in Address,
           LockRequest(request, prover)
    PROVE  [E!Next]_(E!vars)
<1> DEFINE id == IdOf[request]
           p == PriceAt(OfferOf[request], now)
           lock == [prover |-> prover, lockDeadline |-> LockDeadline(OfferOf[request]),
                    deadlineDelta |-> Deadline(OfferOf[request]) - LockDeadline(OfferOf[request]),
                    requestLockFlags |-> {}, price |-> p,
                    collateral |-> OfferOf[request].lockCollateral,
                    requestDigest |-> request]
<1>1. id \in RequestId /\ request # Zero
  BY OfRequest
<1>2. /\ ~IsLocked(id) /\ ~IsFulfilled(id) /\ now <= LockDeadline(OfferOf[request])
      /\ requestLocks' = [requestLocks EXCEPT ![id] = lock]
      /\ charged' = Credit(charged, id, p)
      /\ now' = now /\ payments' = payments /\ paidFor' = paidFor
  BY DEF LockRequest, Lockable
<1>3. /\ lock.requestDigest = request /\ lock.requestLockFlags = {}
      /\ lock.lockDeadline = LockDeadline(OfferOf[request])
  OBVIOUS
<1> HIDE DEF id, lock, p
<1>4. Stake(id) = "none" /\ Price(id) = "none" /\ payments[id] = 0
  BY <1>1, <1>2, NoLock DEF IInv, ChargeInv
<1>5. /\ requestLocks'[id] = lock
      /\ \A x \in RequestId \ {id} : requestLocks'[x] = requestLocks[x]
      /\ \A x \in RequestId \ {id} : charged'[x] = charged[x]
  BY <1>1, <1>2, LockTypes, Amounts DEF Credit
<1>6. Stake(id)' = "staked" /\ Phase(id)' = 1
  BY <1>1, <1>2, <1>3, <1>5
     DEF Stake, Phase, IsSlashed, IsProverPaidBeforeLockDeadline
<1>7. Price(id)' = "held"
  BY <1>2, <1>4, <1>6 DEF Price
<1>8. Locks(id)
  BY <1>4, <1>6, <1>7 DEF Locks
<1>9. OnlyThis(id)
  BY <1>2, <1>5 DEF OnlyThis, SameEscrow
<1> QED
  BY <1>1, <1>8, <1>9, AbstractStep

\* A step that changes no lock, no payment, no charge and not the time.
LEMMA NothingLeaves ==
    ASSUME requestLocks' = requestLocks, payments' = payments, paidFor' = paidFor,
           charged' = charged, now' = now
    PROVE  UNCHANGED (E!vars)
BY DEF E!vars, Stake, Price, Phase

\* The payment to the locker, in time: the lock was not slashed, as it has not
\* expired, so its stake was there and is returned with the payment.
LEMMA LockedEscrow ==
    ASSUME IInv, IInv', NEW request \in Request, NEW prover \in Address,
           NEW priced \in BOOLEAN, NEW withdraw \in BOOLEAN,
           FulfillAndPayLocked(request, prover, priced, withdraw)
    PROVE  [E!Next]_(E!vars)
<1> DEFINE id == IdOf[request]
           lock == requestLocks[id]
<1>1. id \in RequestId /\ request # Zero
  BY OfRequest
<1>2. CASE DeliverUnpaid(request, prover, withdraw)
  BY <1>2, NothingLeaves DEF DeliverUnpaid
<1>3. CASE /\ IsLocked(id) /\ ~IsProverPaid(lock)
           /\ lock.lockDeadline >= now /\ lock.requestDigest = request
           /\ requestLocks' = [requestLocks EXCEPT ![id] = SetProverPaidBeforeLockDeadline(@)]
           /\ payments' = Credit(payments, id, 1) /\ now' = now
           /\ paidFor' = [paidFor EXCEPT ![id] = request] /\ charged' = charged
  <2> DEFINE new == SetProverPaidBeforeLockDeadline(lock)
  <2>1. /\ now \in Nat /\ requestLocks \in [RequestId -> RequestLock] /\ lock \in RequestLock
        /\ lock.lockDeadline \in Nat /\ lock.lockDeadline <= LockedUntil(lock)
        /\ LockedUntil(lock) \in Nat /\ payments \in [RequestId -> Nat]
        /\ LockInv(id) /\ ChargeInv(id)
        /\ paidFor \in [RequestId -> Request \cup {Zero}]
    BY <1>1, LockTypes, Amounts
  <2>2. payments[id] = 0
    BY <1>3, <2>1 DEF ChargeInv
  <2>3. ~(LockedUntil(lock) < now)
    BY <1>3, <2>1
  <2>4. SLASHED \notin lock.requestLockFlags
    BY <2>1, <2>3 DEF LockInv
  <2>5. Stake(id) = "staked" /\ Price(id) = "held" /\ Phase(id) = 1
    BY <1>1, <1>3, <2>1, <2>2, <2>4
       DEF Stake, Price, Phase, IsSlashed, IsProverPaid, IsProverPaidBeforeLockDeadline
  <2>6. /\ new.requestLockFlags = {DURING} /\ new.requestDigest = lock.requestDigest
        /\ new.lockDeadline = lock.lockDeadline /\ LockedUntil(new) = LockedUntil(lock)
    BY <2>1 DEF SetProverPaidBeforeLockDeadline, ClearSlot1, LockedUntil, RequestLock
  <2> HIDE DEF new
  <2>7. /\ requestLocks'[id] = new /\ payments'[id] = 1 /\ paidFor'[id] = request
        /\ \A x \in RequestId \ {id} :
              /\ requestLocks'[x] = requestLocks[x] /\ payments'[x] = payments[x]
              /\ paidFor'[x] = paidFor[x]
    BY <1>1, <1>3, <2>1, <2>2 DEF new, Credit
  <2>8. SLASHED # DURING /\ AFTER # DURING
    BY DEF SLASHED, DURING, AFTER
  <2>9. Stake(id)' = "returned" /\ Price(id)' = "paid" /\ Phase(id)' = 1
    BY <1>1, <1>3, <2>6, <2>7, <2>8
       DEF Stake, Price, Phase, IsSlashed, IsProverPaidBeforeLockDeadline,
           IsProverPaidAfterLockDeadline
  <2>10. DeliversInTime(id)
    BY <1>3, <2>5, <2>9 DEF DeliversInTime
  <2>11. OnlyThis(id)
    BY <1>3, <2>7 DEF OnlyThis, SameEscrow
  <2> QED
    BY <1>1, <2>10, <2>11, AbstractStep
<1> QED
  BY <1>2, <1>3 DEF FulfillAndPayLocked

\* The locked request is worth nothing once its lock has lapsed.
LEMMA WorthNothing ==
    ASSUME DInv, NEW request \in Request, NEW priced \in BOOLEAN,
           requestLocks[IdOf[request]].requestDigest = request,
           requestLocks[IdOf[request]].lockDeadline < now
    PROVE  FulfillmentContext(request, priced).price = 0
<1> DEFINE o == OfferOf[request]
<1>1. /\ now \in Nat /\ IdOf[request] \in RequestId /\ request # Zero
      /\ Unsigned(o) /\ LockDeadline(o) \in Nat
  BY OfferFields DEF DInv, IInv, TypeOK
<1>2. LockDeadline(o) < now
  BY <1>1 DEF DInv, DigestInv
<1>3. PriceAt(o, now) = 0
  <2>1. o.rampUpStart < now /\ o.rampUpStart \in Nat
    BY <1>1, <1>2 DEF Unsigned, LockDeadline
  <2> HIDE DEF o
  <2>2. ~(now <= o.rampUpStart) /\ now > o.rampUpStart /\ now > LockDeadline(o)
        /\ ~(now <= LockDeadline(o))
    BY <1>1, <1>2, <2>1
  <2> QED
    BY <2>2 DEF PriceAt
<1> QED
  BY <1>3 DEF FulfillmentContext

\* The payment after the lock deadline leaves the stake where it is.  For the
\* locked request the client gets the price back.  The id may have no lock of
\* its own, when it shares the slot of one that has: then nothing of it is in
\* escrow.
LEMMA WasLockedEscrow ==
    ASSUME DInv, IInv', NEW request \in Request, NEW prover \in Address,
           NEW priced \in BOOLEAN, NEW withdraw \in BOOLEAN,
           FulfillAndPayWasLocked(request, prover, priced, withdraw)
    PROVE  [E!Next]_(E!vars)
<1> DEFINE id == IdOf[request]
           lock == requestLocks[id]
           p == FulfillmentContext(request, priced).price
           owes == ClientOwes(p, lock.price, balance[ClientOf(id)])
<1>0. IInv
  BY DEF DInv
<1>1. id \in RequestId /\ request # Zero
  BY OfRequest
<1>2. CASE DeliverUnpaid(request, prover, withdraw)
  BY <1>2, NothingLeaves DEF DeliverUnpaid
<1>3. CASE /\ IsLocked(id) /\ ~IsProverPaid(lock) /\ lock.lockDeadline < now
           /\ requestLocks' = [requestLocks EXCEPT ![id] = SetProverPaidAfterLockDeadline(@, prover)]
           /\ payments' = Credit(payments, id, 1) /\ now' = now
           /\ paidFor' = [paidFor EXCEPT ![id] = request]
           /\ charged' = Credit(charged, id, owes)
           /\ Deliverable(request, priced)
  <2> DEFINE new == SetProverPaidAfterLockDeadline(lock, prover)
  <2>1. /\ now \in Nat /\ requestLocks \in [RequestId -> RequestLock] /\ lock \in RequestLock
        /\ lock.lockDeadline \in Nat /\ payments \in [RequestId -> Nat]
        /\ LockedUntil(lock) \in Nat /\ ChargeInv(id)
    BY <1>0, <1>1, LockTypes
  <2>2. /\ lock.price \in Nat /\ balance[ClientOf(id)] \in Nat
        /\ charged \in [RequestId -> 0..MaxUint96] /\ charged[id] \in Nat
        /\ paidFor \in [RequestId -> Request \cup {Zero}]
    BY <1>0, <1>1, Amounts
  <2>3. payments[id] = 0 /\ charged[id] = lock.price
    BY <1>3, <2>1 DEF ChargeInv
  <2>4. /\ new.requestLockFlags = lock.requestLockFlags \cup {AFTER}
        /\ new.requestDigest = lock.requestDigest
        /\ new.lockDeadline = lock.lockDeadline /\ LockedUntil(new) = LockedUntil(lock)
    BY <2>1 DEF SetProverPaidAfterLockDeadline, LockedUntil, RequestLock
  <2>5. lock.requestDigest = request => p = 0
    BY <1>3, WorthNothing
  <2>6. lock.requestDigest = request => now <= LockedUntil(lock)
    <3>1. now <= Deadline(OfferOf[request])
      BY <1>3, DeliverableInTime
    <3> QED
      BY <1>1, <3>1 DEF DInv, DigestInv
  <2>7. p = 0 => owes = 0 - lock.price
    BY <2>2 DEF ClientOwes
  <2> HIDE DEF new, owes, p
  <2>8. /\ requestLocks'[id] = new /\ payments'[id] = 1 /\ paidFor'[id] = request
        /\ charged'[id] = charged[id] + owes
        /\ \A x \in RequestId \ {id} :
              /\ requestLocks'[x] = requestLocks[x] /\ payments'[x] = payments[x]
              /\ paidFor'[x] = paidFor[x] /\ charged'[x] = charged[x]
    BY <1>1, <1>3, <2>1, <2>2, <2>3 DEF new, Credit
  <2>9. AFTER # SLASHED /\ AFTER # DURING
    BY DEF AFTER, SLASHED, DURING
  <2>10. Stake(id)' = Stake(id) /\ Phase(id)' = Phase(id)
    BY <1>3, <2>4, <2>8, <2>9
       DEF Stake, Phase, IsSlashed, IsProverPaidBeforeLockDeadline
  <2>11. OnlyThis(id)
    BY <1>3, <2>8 DEF OnlyThis, SameEscrow
  <2>12. CASE lock.requestDigest = request
    <3>1. Price(id)' = "returned"
      BY <2>4, <2>8, <2>12 DEF Price, IsProverPaidAfterLockDeadline
    <3>2. SLASHED \notin lock.requestLockFlags
      BY <1>0, <1>1, <2>1, <2>6, <2>12 DEF IInv, LockInv
    <3>3. Price(id) = "held" /\ Phase(id) = 2
      BY <1>1, <1>3, <2>1, <2>3, <2>6, <2>12, <3>2
         DEF Stake, Price, Phase, IsSlashed, IsProverPaid, IsProverPaidBeforeLockDeadline
    <3>4. charged'[id] = 0
      BY <2>2, <2>3, <2>5, <2>7, <2>8, <2>12
    <3>5. DeliversLate(id)
      BY <2>10, <3>1, <3>3, <3>4 DEF DeliversLate
    <3> QED
      BY <1>0, <1>1, <2>11, <3>5, AbstractStep
  <2>13. CASE lock.requestDigest # request
    <3>1. Price(id)' = "replaced"
      BY <2>4, <2>8, <2>13 DEF Price
    <3>2. \/ Stake(id) = "none" /\ Price(id) = "none"
          \/ Price(id) \in {"held", "refunded"} /\ Phase(id) \in {2, 3}
      <4>1. CASE lock.requestDigest = Zero
        BY <2>3, <4>1 DEF Stake, Price
      <4>2. CASE lock.requestDigest # Zero
        <5>1. Phase(id) \in {2, 3}
          BY <1>3, <2>1, <4>2 DEF Phase
        <5>2. Price(id) \in {"held", "refunded"}
          BY <2>3, <4>2 DEF Stake, Price
        <5> QED
          BY <5>1, <5>2
      <4> QED
        BY <4>1, <4>2
    <3>3. DeliversOther(id)
      BY <2>10, <3>1, <3>2 DEF DeliversOther
    <3> QED
      BY <1>0, <1>1, <2>11, <3>3, AbstractStep
  <2> QED
    BY <2>12, <2>13
<1> QED
  BY <1>2, <1>3 DEF FulfillAndPayWasLocked

\* A request that was never locked is paid once, from the client's balance.
LEMMA NeverLockedEscrow ==
    ASSUME IInv, IInv', NEW request \in Request, NEW prover \in Address,
           NEW priced \in BOOLEAN, NEW withdraw \in BOOLEAN,
           FulfillAndPayNeverLocked(request, prover, priced, withdraw)
    PROVE  [E!Next]_(E!vars)
<1> DEFINE id == IdOf[request]
           p == FulfillmentContext(request, priced).price
<1>1. id \in RequestId /\ request # Zero
  BY OfRequest
<1>2. CASE DeliverUnpaid(request, prover, withdraw)
  BY <1>2, NothingLeaves DEF DeliverUnpaid
<1>3. CASE /\ ~IsLocked(id) /\ ~IsFulfilled(id) /\ requestLocks' = requestLocks
           /\ payments' = Credit(payments, id, 1) /\ now' = now
           /\ paidFor' = [paidFor EXCEPT ![id] = request]
           /\ charged' = Credit(charged, id, p)
  <2>1. Stake(id) = "none" /\ Price(id) = "none" /\ payments[id] = 0
    BY <1>1, <1>3, NoLock DEF IInv, ChargeInv
  <2>2. requestLocks[id].requestDigest = Zero
    BY <1>1, <1>3 DEF IInv, LockInv, ZeroLock
  <2> HIDE DEF p
  <2>3. /\ payments'[id] = 1 /\ paidFor'[id] = request
        /\ \A x \in RequestId \ {id} :
              /\ payments'[x] = payments[x] /\ paidFor'[x] = paidFor[x]
              /\ charged'[x] = charged[x]
    BY <1>1, <1>3, <2>1, LockTypes, Amounts DEF Credit
  <2>4. Stake(id)' = Stake(id) /\ Price(id)' = "replaced" /\ Phase(id)' = Phase(id)
    BY <1>1, <1>3, <2>2, <2>3 DEF Stake, Price, Phase
  <2>5. DeliversOther(id)
    BY <2>1, <2>4 DEF DeliversOther
  <2>6. OnlyThis(id)
    BY <1>3, <2>3 DEF OnlyThis, SameEscrow
  <2> QED
    BY <1>1, <2>5, <2>6, AbstractStep
<1> QED
  BY <1>2, <1>3 DEF FulfillAndPayNeverLocked

\* slash forfeits a stake that is still there, of a request that expired, and
\* refunds the price unless a late delivery has settled it.
LEMMA SlashEscrow ==
    ASSUME DInv, IInv', NEW id \in RequestId, Slash(id)
    PROVE  [E!Next]_(E!vars)
<1> DEFINE lock == requestLocks[id]
           new == SetSlashed(lock)
           refund == SlashRefund(lock)
<1>0. IInv
  BY DEF DInv
<1>1. /\ SLASHED \notin lock.requestLockFlags /\ DURING \notin lock.requestLockFlags
      /\ now > LockedUntil(lock) /\ IsLocked(id)
      /\ requestLocks' = [requestLocks EXCEPT ![id] = SetSlashed(@)]
      /\ charged' = Debit(charged, id, refund)
      /\ payments' = payments /\ paidFor' = paidFor /\ now' = now
  BY DEF Slash, Slashable, IsSlashed, IsProverPaidBeforeLockDeadline
<1>2. /\ now \in Nat /\ requestLocks \in [RequestId -> RequestLock] /\ lock \in RequestLock
      /\ lock.lockDeadline \in Nat /\ lock.lockDeadline <= LockedUntil(lock)
      /\ LockedUntil(lock) \in Nat /\ payments[id] \in Nat /\ ChargeInv(id)
  BY <1>0, LockTypes
<1>3. /\ lock.price \in Nat /\ charged[id] \in Nat
      /\ charged \in [RequestId -> 0..MaxUint96]
  BY <1>0, Amounts
<1>4. /\ new.requestLockFlags = lock.requestLockFlags \cup {SLASHED}
      /\ new.requestDigest = lock.requestDigest
      /\ new.lockDeadline = lock.lockDeadline /\ LockedUntil(new) = LockedUntil(lock)
  BY <1>2 DEF SetSlashed, ClearSlot1, LockedUntil, RequestLock
<1>5. /\ payments[id] > 0 => refund = 0
      /\ ~(payments[id] > 0) => refund = lock.price /\ charged[id] = lock.price
  BY <1>1, <1>2
     DEF ChargeInv, SlashRefund, IsProverPaid, IsProverPaidBeforeLockDeadline,
         IsProverPaidAfterLockDeadline
<1> HIDE DEF new, refund
<1>6. /\ requestLocks'[id] = new /\ charged'[id] = charged[id] - refund
      /\ \A x \in RequestId \ {id} :
            requestLocks'[x] = requestLocks[x] /\ charged'[x] = charged[x]
  BY <1>1, <1>2, <1>3 DEF new, Debit
<1>7. OnlyThis(id)
  BY <1>1, <1>6 DEF OnlyThis, SameEscrow
<1>8. Phase(id)' = Phase(id)
  BY <1>1, <1>4, <1>6 DEF Phase
<1>9. AFTER # SLASHED
  BY DEF AFTER, SLASHED
<1>10. payments[id] > 0 => Price(id)' = Price(id) /\ Price(id) \notin {"held", "none"}
  BY <1>1, <1>4, <1>6, <1>9 DEF Price, IsProverPaidAfterLockDeadline
<1>11. payments[id] > 0 => charged'[id] = charged[id]
  BY <1>3, <1>5, <1>6
<1>12. CASE lock.requestDigest = Zero
  <2>1. lock.price = 0
    BY <1>12 DEF DInv, DigestInv
  <2>2. charged'[id] = charged[id]
    BY <1>2, <1>3, <1>5, <1>6, <2>1
  <2>3. Stake(id)' = Stake(id) /\ Stake(id) = "none"
    BY <1>4, <1>6, <1>12 DEF Stake
  <2>4. Price(id)' = Price(id)
    <3>1. CASE payments[id] > 0
      BY <1>10, <3>1
    <3>2. CASE ~(payments[id] > 0)
      BY <1>1, <2>3, <3>2 DEF Price
    <3> QED
      BY <3>1, <3>2
  <2>5. Keeps(id)
    BY <1>8, <2>2, <2>3, <2>4 DEF Keeps
  <2> QED
    BY <1>0, <1>7, <2>5, AbstractStep
<1>13. CASE lock.requestDigest # Zero
  <2>1. Stake(id) = "staked" /\ Phase(id) = 3
    <3>1. ~(now <= lock.lockDeadline) /\ ~(now <= LockedUntil(lock))
      BY <1>1, <1>2
    <3> QED
      BY <1>1, <1>13, <3>1
         DEF Stake, Phase, IsSlashed, IsProverPaidBeforeLockDeadline
  <2>2. Stake(id)' = "forfeited"
    BY <1>4, <1>6, <1>13 DEF Stake, IsSlashed
  <2>3. CASE payments[id] > 0
    <3>1. Forfeits(id)
      BY <1>8, <1>10, <1>11, <2>1, <2>2, <2>3 DEF Forfeits
    <3> QED
      BY <1>0, <1>7, <3>1, AbstractStep
  <2>4. CASE ~(payments[id] > 0)
    <3>1. Price(id) = "held" /\ Price(id)' = "refunded"
      BY <1>1, <2>1, <2>2, <2>4 DEF Price
    <3>2. charged'[id] = 0
      BY <1>3, <1>5, <1>6, <2>4
    <3>3. Forfeits(id)
      BY <1>8, <2>1, <2>2, <3>1, <3>2 DEF Forfeits
    <3> QED
      BY <1>0, <1>7, <3>3, AbstractStep
  <2> QED
    BY <2>3, <2>4
<1> QED
  BY <1>12, <1>13

\* Time moves every lock on, from valid to lapsed to expired.
LEMMA TickEscrow ==
    ASSUME IInv, Tick
    PROVE  E!Next
<1>1. /\ now' = now + 1 /\ requestLocks' = requestLocks /\ payments' = payments
      /\ paidFor' = paidFor /\ charged' = charged
  BY DEF Tick, historyVars
<1>2. Stakes' = Stakes /\ Prices' = Prices
  BY <1>1 DEF Stakes, Prices, Stake, Price
<1>3. ASSUME NEW id \in RequestId
      PROVE  /\ Phase(id)' \in 0..3 /\ Phase(id) <= Phase(id)'
             /\ Phase(id) = 0 => Phase(id)' = 0
  <2>1. /\ now \in Nat /\ requestLocks[id].lockDeadline \in Nat
        /\ LockedUntil(requestLocks[id]) \in Nat
    BY LockTypes
  <2> QED
    BY <1>1, <2>1 DEF Phase
<1>4. /\ Phases' \in [RequestId -> 0..3]
      /\ \A id \in RequestId :
            Phases[id] <= Phases'[id] /\ (Phases[id] = 0 => Phases'[id] = 0)
  BY <1>3 DEF Phases
<1>5. E!Pass
  BY <1>1, <1>2, <1>4 DEF E!Pass, Stakes, Prices, Phases
<1> QED
  BY <1>5 DEF E!Next

\* At deployment there is no lock, no payment and no charge.
LEMMA InitEscrow == Init => E!Init
<1> SUFFICES ASSUME Init PROVE E!Init
  OBVIOUS
<1>1. ASSUME NEW id \in RequestId
      PROVE  Stake(id) = "none" /\ Price(id) = "none" /\ Phase(id) = 0
  <2>1. requestLocks[id].requestDigest = Zero /\ payments[id] = 0
    BY DEF Init, ZeroLock
  <2> QED
    BY <2>1 DEF Stake, Price, Phase
<1>2. charged = [id \in RequestId |-> 0]
  BY DEF Init
<1> QED
  BY <1>1, <1>2 DEF E!Init

\* Every transaction is a step of Escrow, or changes nothing that is in escrow.
LEMMA NextEscrow == DInv /\ [Next]_vars => [E!Next]_(E!vars)
<1> SUFFICES ASSUME DInv, [Next]_vars PROVE [E!Next]_(E!vars)
  OBVIOUS
<1>0. IInv /\ IInv'
  BY NextInv DEF DInv
<1>1. CASE Tick
  BY <1>0, <1>1, TickEscrow
<1>2. ASSUME NEW a \in Account, NEW value \in 1..MaxUint96,
             \/ Deposit(a, value) \/ Withdraw(a, value)
             \/ DepositCollateral(a, value) \/ WithdrawCollateral(a, value)
      PROVE  [E!Next]_(E!vars)
  BY <1>2, NothingLeaves
     DEF Deposit, Withdraw, DepositCollateral, WithdrawCollateral, historyVars
<1>3. ASSUME NEW request \in Request, NEW prover \in Address, LockRequest(request, prover)
      PROVE  [E!Next]_(E!vars)
  BY <1>0, <1>3, LockEscrow
<1>4. ASSUME NEW request \in Request, NEW prover \in Address,
             NEW priced \in BOOLEAN, NEW withdraw \in BOOLEAN,
             Fulfill(request, prover, priced, withdraw)
      PROVE  [E!Next]_(E!vars)
  <2>1. CASE FulfillExpired(request, prover, priced, withdraw)
    BY <2>1, NothingLeaves DEF FulfillExpired, historyVars
  <2> QED
    BY <1>0, <1>4, <2>1, LockedEscrow, WasLockedEscrow, NeverLockedEscrow DEF Fulfill
<1>5. ASSUME NEW id \in RequestId, Slash(id) PROVE [E!Next]_(E!vars)
  BY <1>0, <1>5, SlashEscrow
<1>6. CASE UNCHANGED vars
  BY <1>6, NothingLeaves DEF vars, historyVars
<1> QED
  BY <1>1, <1>2, <1>3, <1>4, <1>5, <1>6 DEF Next, Account

-----------------------------------------------------------------------------
(* Theorems                                                                *)

\* A slot is fulfilled exactly when one of its requests was delivered.
THEOREM FulfilledMeansDelivered == Spec => []FulfilledIffDelivered
<1>1. DInv => FulfilledIffDelivered
  BY DEF DInv
<1> QED
  BY <1>1, DInvariance, PTL

\* No two ids of one slot are ever both locked.
THEOREM SlotIsLockedOnce == Spec => []OneLockPerSlot
<1>1. DInv => OneLockPerSlot
  BY DEF DInv
<1> QED
  BY <1>1, DInvariance, PTL

\* No client is charged more than the highest price it signed for an id.
THEOREM ChargesAreBounded == Spec => []ChargeWithinMaxPrice
<1>1. DInv => ChargeWithinMaxPrice
  BY DEF DInv
<1> QED
  BY <1>1, DInvariance, PTL

\* No request is delivered after its deadline, also when the fill was not
\* priced and only the lock's packed deadline is compared.
THEOREM DeliveriesAreInTime == Spec => NoDeliveryAfterDeadline
<1>1. DInv /\ [Next]_vars => [\A r \in delivered' \ delivered : now <= Deadline(OfferOf[r])]_vars
  <2> SUFFICES ASSUME DInv, [Next]_vars, NEW r \in delivered' \ delivered
               PROVE  now <= Deadline(OfferOf[r])
    OBVIOUS
  <2>1. IInv
    BY DEF DInv
  <2>2. PICK priced \in BOOLEAN : r \in Request /\ Deliverable(r, priced)
    BY <2>1, DeliveryStep
  <2> QED
    BY <2>2, DeliverableInTime
<1> QED
  BY <1>1, DInvariance, PTL DEF Spec, NoDeliveryAfterDeadline

\* The market contract implements Escrow: the stake and the price of every lock
\* leave escrow once, in time, and for the reason Escrow gives, and the client
\* has then paid what Escrow says.
THEOREM MarketImplementsEscrow == Spec => EscrowIsKept
BY InitEscrow, NextEscrow, DInvariance, PTL DEF Spec, EscrowIsKept, E!Spec

=============================================================================
