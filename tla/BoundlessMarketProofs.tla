------------------------ MODULE BoundlessMarketProofs ------------------------
(***************************************************************************)
(* Safety of the market for every set of accounts, ids and requests, every *)
(* offer, and every value of the fee and burn fractions.                   *)
(***************************************************************************)
EXTENDS BoundlessMarket, FiniteSetTheorems, TLAPS

-----------------------------------------------------------------------------
(* Totals: Total is a natural number, it is zero for the zero function, no  *)
(* value exceeds it, and changing one value changes it by the difference.   *)

\* The units of everybody but a.
Others(f, bound, a) == {u \in Units(f, bound) : u[1] # a}

\* A total splits into the units of one point of the domain and the others:
\* the disjoint union that the laws below count.
LEMMA TotalSplit ==
    ASSUME NEW D, IsFiniteSet(D), NEW bound \in Nat,
           NEW f \in [D -> 0..bound], NEW a \in D
    PROVE  /\ IsFiniteSet(Others(f, bound, a))
           /\ Total(f, bound) = Cardinality(Others(f, bound, a)) + f[a]
           /\ Total(f, bound) \in Nat
           /\ Cardinality(Others(f, bound, a)) \in Nat
<1> DEFINE Mine == {a} \X (1..f[a])
<1>1. IsFiniteSet(D \X (1..bound))
  <2>1. IsFiniteSet(1..bound)
    BY FS_Interval
  <2>2. QED BY <2>1, FS_Product
<1>2. Units(f, bound) \in SUBSET (D \X (1..bound))
  BY DEF Units
<1>3. IsFiniteSet(Units(f, bound))
  BY <1>1, <1>2, FS_Subset
<1>4. Others(f, bound, a) \in SUBSET Units(f, bound)
  BY DEF Others
<1>5. IsFiniteSet(Others(f, bound, a))
  BY <1>3, <1>4, FS_Subset
<1>6. f[a] \in Nat /\ f[a] <= bound
  OBVIOUS
<1>7. IsFiniteSet(1..f[a]) /\ Cardinality(1..f[a]) = f[a]
  BY <1>6, FS_Interval
<1>8. IsFiniteSet({a}) /\ Cardinality({a}) = 1
  BY FS_Singleton
<1>9. IsFiniteSet(Mine) /\ Cardinality(Mine) = f[a]
  <2>1. IsFiniteSet(Mine) /\ Cardinality(Mine) = Cardinality({a}) * Cardinality(1..f[a])
    BY <1>7, <1>8, FS_Product
  <2>2. QED BY <2>1, <1>7, <1>8, <1>6
<1>10. Units(f, bound) = Others(f, bound, a) \cup Mine
  <2>1. ASSUME NEW u \in Units(f, bound) PROVE u \in Others(f, bound, a) \cup Mine
    <3>1. u \in D \X (1..bound) /\ u[2] <= f[u[1]]
      BY DEF Units
    <3>2. CASE u[1] # a
      BY <3>2 DEF Others
    <3>3. CASE u[1] = a
      <4>1. u[2] \in 1..f[a]
        BY <3>1, <3>3
      <4>2. u = <<a, u[2]>>
        BY <3>1, <3>3
      <4>3. QED BY <4>1, <4>2
    <3>4. QED BY <3>2, <3>3
  <2>2. ASSUME NEW u \in Mine PROVE u \in Units(f, bound)
    <3>1. u[1] = a /\ u[2] \in 1..f[a] /\ u = <<a, u[2]>>
      OBVIOUS
    <3>2. u[2] \in 1..bound
      BY <3>1, <1>6
    <3>3. u \in D \X (1..bound)
      BY <3>1, <3>2
    <3>4. QED BY <3>1, <3>3, <1>6 DEF Units
  <2>3. QED BY <2>1, <2>2, <1>4
<1>11. Others(f, bound, a) \cap Mine = {}
  BY DEF Others
<1>12. Cardinality(Units(f, bound)) = Cardinality(Others(f, bound, a)) + f[a]
  <2>1. Cardinality(Others(f, bound, a) \cup Mine) =
          Cardinality(Others(f, bound, a)) + Cardinality(Mine) - Cardinality({})
    BY <1>5, <1>9, <1>11, FS_Union
  <2>2. Cardinality({}) = 0
    BY FS_EmptySet
  <2>3. Cardinality(Others(f, bound, a)) \in Nat
    BY <1>5, FS_CardinalityType
  <2>4. QED BY <2>1, <2>2, <2>3, <1>6, <1>9, <1>10
<1>13. Cardinality(Others(f, bound, a)) \in Nat /\ Cardinality(Units(f, bound)) \in Nat
  BY <1>3, <1>5, FS_CardinalityType
<1>14. QED BY <1>5, <1>12, <1>13 DEF Total

\* A credit or a debit of one account moves the total by the same amount.
LEMMA TotalUpdate ==
    ASSUME NEW D, IsFiniteSet(D), NEW bound \in Nat, NEW a \in D,
           NEW f \in [D -> 0..bound], NEW g \in [D -> 0..bound],
           \A x \in D \ {a} : g[x] = f[x]
    PROVE  Total(g, bound) = Total(f, bound) - f[a] + g[a]
<1>1. Others(g, bound, a) = Others(f, bound, a)
  BY DEF Others, Units
<1>2. /\ Total(f, bound) = Cardinality(Others(f, bound, a)) + f[a]
      /\ Total(g, bound) = Cardinality(Others(g, bound, a)) + g[a]
      /\ Cardinality(Others(f, bound, a)) \in Nat
  BY TotalSplit
<1>3. f[a] \in Int /\ g[a] \in Int
  OBVIOUS
<1>4. QED BY <1>1, <1>2, <1>3

\* Totals are natural numbers and bound every value.
LEMMA TotalBounds ==
    ASSUME NEW D, IsFiniteSet(D), NEW bound \in Nat, NEW f \in [D -> 0..bound]
    PROVE  /\ Total(f, bound) \in Nat
           /\ \A a \in D : f[a] <= Total(f, bound)
<1>1. ASSUME NEW a \in D PROVE f[a] <= Total(f, bound)
  <2>1. /\ Total(f, bound) = Cardinality(Others(f, bound, a)) + f[a]
        /\ Cardinality(Others(f, bound, a)) \in Nat
    BY TotalSplit
  <2>2. f[a] \in Nat
    OBVIOUS
  <2>3. QED BY <2>1, <2>2
<1>2. Total(f, bound) \in Nat
  <2>1. IsFiniteSet(D \X (1..bound))
    <3>1. IsFiniteSet(1..bound)
      BY FS_Interval
    <3>2. QED BY <3>1, FS_Product
  <2>2. Units(f, bound) \in SUBSET (D \X (1..bound))
    BY DEF Units
  <2>3. IsFiniteSet(Units(f, bound))
    BY <2>1, <2>2, FS_Subset
  <2>4. QED BY <2>3, FS_CardinalityType DEF Total
<1>3. QED BY <1>1, <1>2

\* Nobody holds anything initially.
LEMMA TotalZero ==
    ASSUME NEW D, NEW bound \in Nat
    PROVE  Total([a \in D |-> 0], bound) = 0
<1>1. Units([a \in D |-> 0], bound) = {}
  BY DEF Units
<1>2. QED BY <1>1, FS_EmptySet DEF Total

-----------------------------------------------------------------------------
(* Arithmetic                                                              *)

\* Solidity's truncating division of unsigned values.
LEMMA DivNat ==
    ASSUME NEW a \in Nat, NEW b \in Nat, b > 0
    PROVE  a \div b \in Nat
  OBVIOUS

\* A fraction of at most 10000 basis points of an amount is within the amount.
LEMMA BpsQuotient ==
    ASSUME NEW a \in Nat, NEW v \in Nat, a <= v * 10000
    PROVE  a \div 10000 \in 0..v
  OBVIOUS

\* priceAt returns an unsigned value for a validated offer: it divides only
\* by a positive rampUpPeriod and subtracts only minPrice from maxPrice.
LEMMA PriceAtNat ==
    ASSUME NEW offer \in OfferType, NEW t \in Nat, NEW d,
           Validate(offer, d)
    PROVE  PriceAt(offer, t) \in Nat
<1>1. offer.minPrice \in Nat /\ offer.maxPrice \in Nat /\ offer.rampUpStart \in Nat
      /\ offer.rampUpPeriod \in Nat /\ offer.lockTimeout \in Nat
  BY DEF OfferType
<1>2. offer.maxPrice - offer.minPrice \in Nat
  BY <1>1 DEF Validate
<1>3. ASSUME t > offer.rampUpStart, t <= offer.rampUpStart + offer.rampUpPeriod
      PROVE  RampPrice(offer, t) \in Nat
  <2> DEFINE m == (t - offer.rampUpStart) * (offer.maxPrice - offer.minPrice)
  <2>1. t - offer.rampUpStart \in Nat /\ offer.rampUpPeriod > 0
    BY <1>1, <1>3
  <2>2. m \in Nat
    BY <1>2, <2>1
  <2> HIDE DEF m
  <2>3. m \div offer.rampUpPeriod \in Nat
    BY <1>1, <2>1, <2>2, DivNat
  <2>4. QED BY <1>1, <2>3 DEF RampPrice, m
<1>4. QED BY <1>1, <1>3 DEF PriceAt, LockDeadline

-----------------------------------------------------------------------------
(* Accounts                                                                *)

\* The width of an amount, without the rest of LimitAssumption.
LEMMA Constants ==
    MaxUint96 \in Nat /\ 0 \in 0..MaxUint96
<1>1. MaxUint96 \in Nat
  BY LimitAssumption
<1> QED
  BY <1>1

\* The other limits.
LEMMA Limits ==
    /\ MaxUint24 \in Nat
    /\ EthSupply \in Nat /\ EthSupply <= MaxUint96
    /\ TokenSupply \in Nat /\ TokenSupply <= MaxUint96
<1>1. /\ MaxUint96 \in Nat /\ MaxUint24 \in Nat
      /\ EthSupply \in 0..MaxUint96 /\ TokenSupply \in 0..MaxUint96
  BY LimitAssumption
<1> QED
  BY <1>1

\* What the market knows of a request.
LEMMA OfRequest ==
    ASSUME NEW request \in Request
    PROVE  IdOf[request] \in RequestId /\ OfferOf[request] \in OfferType /\ request # Zero
<1>1. /\ IdOf \in [Request -> RequestId] /\ OfferOf \in [Request -> OfferType]
      /\ Zero \notin Request
  BY AddressAssumption, RequestAssumption
<1> QED
  BY <1>1

\* The market's own account is none of the addresses.
LEMMA MarketIsNoAddress == Market \notin Address
  BY AddressAssumption

\* Both rates are fractions.
LEMMA Rates ==
    MARKET_FEE_BPS \in 0..10000 /\ SLASHING_BURN_BPS \in 0..10000
  BY RateAssumption

\* Neither the fee nor the burnt part exceeds what it is taken from.
LEMMA MarketFeeBounds ==
    ASSUME NEW price \in Nat PROVE MarketFee(price) \in 0..price
<1> DEFINE m == price * MARKET_FEE_BPS
<1>1. m \in Nat /\ m <= price * 10000
  BY Rates
<1>2. MarketFee(price) = m \div 10000
  BY DEF MarketFee
<1> HIDE DEF m
<1>3. QED BY <1>1, <1>2, BpsQuotient

\* slash burns at most the collateral.
LEMMA BurnValueBounds ==
    ASSUME NEW collateral \in Nat PROVE BurnValue(collateral) \in 0..collateral
<1> DEFINE m == collateral * SLASHING_BURN_BPS
<1>1. m \in Nat /\ m <= collateral * 10000
  BY Rates
<1>2. BurnValue(collateral) = m \div 10000
  BY DEF BurnValue
<1> HIDE DEF m
<1>3. QED BY <1>1, <1>2, BpsQuotient

\* RequestAssumption, one conjunct.
LEMMA RequestIdFinite == IsFiniteSet(RequestId)
  BY RequestAssumption

\* The accounts are the addresses and the market itself.
LEMMA AccountFinite == IsFiniteSet(Account)
<1>1. IsFiniteSet(Address)
  BY AddressAssumption
<1> QED
  BY <1>1, FS_AddElement DEF Account

\* A credit or debit that stays within uint96 moves the total by its amount.
LEMMA CreditTotal ==
    ASSUME NEW D, IsFiniteSet(D), NEW f \in [D -> 0..MaxUint96],
           NEW a \in D, NEW v \in Int, f[a] + v \in 0..MaxUint96
    PROVE  /\ Credit(f, a, v) \in [D -> 0..MaxUint96]
           /\ Total(Credit(f, a, v), MaxUint96) = Total(f, MaxUint96) + v
<1> DEFINE g == Credit(f, a, v)
<1>1. /\ g \in [D -> 0..MaxUint96]
      /\ g[a] = f[a] + v
      /\ \A x \in D \ {a} : g[x] = f[x]
  BY DEF Credit
<1> HIDE DEF g
<1>2. Total(g, MaxUint96) = Total(f, MaxUint96) - f[a] + g[a]
  BY <1>1, Constants, TotalUpdate
<1>3. Total(f, MaxUint96) \in Nat
  BY Constants, TotalBounds
<1>4. f[a] \in Int
  BY Constants
<1>5. QED BY <1>1, <1>2, <1>3, <1>4 DEF g

\* A debit lowers the total of the balances by its value.
LEMMA DebitTotal ==
    ASSUME NEW D, IsFiniteSet(D), NEW f \in [D -> 0..MaxUint96],
           NEW a \in D, NEW v \in Int, f[a] - v \in 0..MaxUint96
    PROVE  /\ Debit(f, a, v) \in [D -> 0..MaxUint96]
           /\ Total(Debit(f, a, v), MaxUint96) = Total(f, MaxUint96) - v
<1> DEFINE g == Debit(f, a, v)
<1>1. /\ g \in [D -> 0..MaxUint96]
      /\ g[a] = f[a] - v
      /\ \A x \in D \ {a} : g[x] = f[x]
  BY DEF Debit
<1> HIDE DEF g
<1>2. Total(g, MaxUint96) = Total(f, MaxUint96) - f[a] + g[a]
  BY <1>1, Constants, TotalUpdate
<1>3. Total(f, MaxUint96) \in Nat
  BY Constants, TotalBounds
<1>4. f[a] \in Int
  BY Constants
<1>5. QED BY <1>1, <1>2, <1>3, <1>4 DEF g

\* A payment adds its price to the accounts, however it is split into the fee
\* and the prover's part (_applyMarketFee), the treasury being the prover or not.
LEMMA PayTotal ==
    ASSUME NEW f \in [Account -> 0..MaxUint96], NEW prover \in Address,
           NEW price \in Nat, FitsUint96(Pay(f, prover, price))
    PROVE  /\ Pay(f, prover, price) \in [Account -> 0..MaxUint96]
           /\ Total(Pay(f, prover, price), MaxUint96) = Total(f, MaxUint96) + price
<1> DEFINE fee == MarketFee(price)
           g   == Credit(f, Market, fee)
           h   == Credit(g, prover, price - fee)
<1>1. fee \in 0..price
  BY MarketFeeBounds
<1>2. Pay(f, prover, price) = h
  BY DEF Pay
<1> HIDE DEF fee
<1>3. prover \in Account /\ Market \in Account /\ prover # Market
  BY MarketIsNoAddress DEF Account
<1>4. h[Market] = f[Market] + fee /\ h[prover] = f[prover] + (price - fee)
  BY <1>3 DEF Credit
<1>5. DOMAIN h = Account
  BY DEF Credit
<1>6. h[Market] <= MaxUint96 /\ h[prover] <= MaxUint96
  BY <1>2, <1>3, <1>5 DEF FitsUint96
<1>7. f[Market] + fee \in 0..MaxUint96
  BY <1>1, <1>3, <1>4, <1>6, Constants
<1>8. /\ g \in [Account -> 0..MaxUint96]
      /\ Total(g, MaxUint96) = Total(f, MaxUint96) + fee
  BY <1>1, <1>3, <1>7, AccountFinite, CreditTotal
<1>9. g[prover] + (price - fee) \in 0..MaxUint96
  BY <1>1, <1>3, <1>4, <1>6, Constants DEF Credit
<1> HIDE DEF g
<1>10. /\ h \in [Account -> 0..MaxUint96]
       /\ Total(h, MaxUint96) = Total(g, MaxUint96) + (price - fee)
  BY <1>1, <1>3, <1>8, <1>9, AccountFinite, CreditTotal
<1>11. Total(f, MaxUint96) \in Nat
  BY Constants, AccountFinite, TotalBounds
<1>12. QED BY <1>1, <1>2, <1>8, <1>10, <1>11

\* What fulfillAndWithdraw sends out is what it takes off the prover's account.
LEMMA PayOutTotal ==
    ASSUME NEW newBalance \in [Account -> 0..MaxUint96], NEW prover \in Address,
           NEW withdraw \in BOOLEAN, ethHeld \in Int,
           PayOut(newBalance, prover, withdraw)
    PROVE  /\ balance' \in [Account -> 0..MaxUint96]
           /\ ethHeld' \in Int /\ ethHeld' <= ethHeld
           /\ ethHeld' - Total(balance', MaxUint96)
                = ethHeld - Total(newBalance, MaxUint96)
<1>1. prover \in Account
  BY DEF Account
<1>2. Total(newBalance, MaxUint96) \in Nat
  BY Constants, AccountFinite, TotalBounds
<1>3. newBalance[prover] \in Nat
  BY <1>1, Constants
<1>4. CASE withdraw
  <2>1. /\ balance' = [newBalance EXCEPT ![prover] = 0]
        /\ ethHeld' = ethHeld - newBalance[prover]
    BY <1>4 DEF PayOut
  <2>2. /\ balance' \in [Account -> 0..MaxUint96]
        /\ balance'[prover] = 0
        /\ \A x \in Account \ {prover} : balance'[x] = newBalance[x]
    BY <1>1, <2>1, Constants
  <2>3. Total(balance', MaxUint96)
             = Total(newBalance, MaxUint96) - newBalance[prover] + 0
    BY <1>1, <2>2, Constants, AccountFinite, TotalUpdate
  <2>4. QED BY <1>2, <1>3, <2>1, <2>2, <2>3
<1>5. CASE ~withdraw
  BY <1>2, <1>5 DEF PayOut
<1>6. QED BY <1>4, <1>5

-----------------------------------------------------------------------------
(* The inductive invariant                                                 *)

\* What the lock of an id looks like in each state of its slot's flags.
LockInv(id) ==
    LET lock == requestLocks[id] IN
    /\ ~IsLocked(id) => lock = ZeroLock
    /\ IsProverPaid(lock) => IsFulfilled(id)
    /\ DURING \in lock.requestLockFlags => lock.requestLockFlags = {DURING}
    /\ AFTER \in lock.requestLockFlags => lock.prover \in Address
    /\ SLASHED \in lock.requestLockFlags =>
          lock.price = 0 /\ lock.collateral = 0 /\ LockedUntil(lock) < now

\* What the client was charged, and how often a prover was paid, in each state.
ChargeInv(id) ==
    LET lock == requestLocks[id] IN
    /\ ~IsLocked(id) /\ ~IsFulfilled(id) => charged[id] = 0 /\ payments[id] = 0
    /\ ~IsLocked(id) => payments[id] <= 1 /\ (charged[id] > 0 => payments[id] = 1)
    /\ IsLocked(id) /\ ~IsProverPaid(lock) => charged[id] = lock.price /\ payments[id] = 0
    /\ IsLocked(id) /\ IsProverPaid(lock) => payments[id] = 1

SupplyInv == tokenHeld + burned <= TokenSupply

IInv ==
    /\ TypeOK
    /\ EthSolvency
    /\ CollateralSolvency
    /\ SupplyInv
    /\ \A id \in RequestId : LockInv(id) /\ ChargeInv(id)

-----------------------------------------------------------------------------
(* Escrow                                                                  *)

\* The escrow is a function of the locks alone.
LEMMA EscrowFrame ==
    ASSUME requestLocks' = requestLocks
    PROVE  EthEscrow' = EthEscrow /\ CollateralEscrow' = CollateralEscrow
  BY DEF EthEscrow, CollateralEscrow

\* What is in escrow for an id fits the lock's uint96 fields.
LEMMA EscrowType ==
    ASSUME requestLocks \in [RequestId -> RequestLock]
    PROVE  /\ EthEscrow \in [RequestId -> 0..MaxUint96]
           /\ CollateralEscrow \in [RequestId -> 0..MaxUint96]
           /\ Total(EthEscrow, MaxUint96) \in Nat
           /\ Total(CollateralEscrow, MaxUint96) \in Nat
           /\ \A id \in RequestId :
                 /\ EthEscrowOf(requestLocks[id]) <= Total(EthEscrow, MaxUint96)
                 /\ CollateralEscrowOf(requestLocks[id])
                       <= Total(CollateralEscrow, MaxUint96)
<1>1. \A id \in RequestId : /\ requestLocks[id].price \in 0..MaxUint96
                            /\ requestLocks[id].collateral \in 0..MaxUint96
  BY DEF RequestLock
<1>2. /\ EthEscrow \in [RequestId -> 0..MaxUint96]
      /\ CollateralEscrow \in [RequestId -> 0..MaxUint96]
  BY <1>1, Constants DEF EthEscrow, CollateralEscrow, EthEscrowOf, CollateralEscrowOf
<1>3. /\ Total(EthEscrow, MaxUint96) \in Nat
      /\ \A id \in RequestId : EthEscrow[id] <= Total(EthEscrow, MaxUint96)
  BY <1>2, Constants, RequestIdFinite, TotalBounds
<1>4. /\ Total(CollateralEscrow, MaxUint96) \in Nat
      /\ \A id \in RequestId : CollateralEscrow[id] <= Total(CollateralEscrow, MaxUint96)
  BY <1>2, Constants, RequestIdFinite, TotalBounds
<1>5. \A id \in RequestId : /\ EthEscrow[id] = EthEscrowOf(requestLocks[id])
                            /\ CollateralEscrow[id] = CollateralEscrowOf(requestLocks[id])
  BY DEF EthEscrow, CollateralEscrow
<1>6. QED BY <1>2, <1>3, <1>4, <1>5

\* TotalUpdate for amounts by request id.
LEMMA TotalUpdateById ==
    ASSUME NEW f \in [RequestId -> 0..MaxUint96], NEW g \in [RequestId -> 0..MaxUint96],
           NEW id \in RequestId, \A x \in RequestId \ {id} : g[x] = f[x]
    PROVE  Total(g, MaxUint96) = Total(f, MaxUint96) - f[id] + g[id]
  BY Constants, RequestIdFinite, TotalUpdate

\* Writing one lock changes the escrow by what that lock holds.
LEMMA EscrowUpdate ==
    ASSUME requestLocks \in [RequestId -> RequestLock], NEW id \in RequestId,
           requestLocks' \in [RequestId -> RequestLock],
           \A x \in RequestId \ {id} : requestLocks'[x] = requestLocks[x]
    PROVE  /\ Total(EthEscrow', MaxUint96)
                = Total(EthEscrow, MaxUint96) - EthEscrowOf(requestLocks[id])
                    + EthEscrowOf(requestLocks'[id])
           /\ Total(CollateralEscrow', MaxUint96)
                = Total(CollateralEscrow, MaxUint96)
                    - CollateralEscrowOf(requestLocks[id])
                    + CollateralEscrowOf(requestLocks'[id])
<1>1. /\ EthEscrow \in [RequestId -> 0..MaxUint96]
      /\ CollateralEscrow \in [RequestId -> 0..MaxUint96]
  BY EscrowType
<1>2. \A x \in RequestId : /\ requestLocks'[x].price \in 0..MaxUint96
                           /\ requestLocks'[x].collateral \in 0..MaxUint96
  BY DEF RequestLock
<1>3. /\ EthEscrow' \in [RequestId -> 0..MaxUint96]
      /\ CollateralEscrow' \in [RequestId -> 0..MaxUint96]
  BY <1>2, Constants DEF EthEscrow, CollateralEscrow, EthEscrowOf, CollateralEscrowOf
<1>4. \A x \in RequestId : /\ EthEscrow[x] = EthEscrowOf(requestLocks[x])
                           /\ EthEscrow'[x] = EthEscrowOf(requestLocks'[x])
                           /\ CollateralEscrow[x] = CollateralEscrowOf(requestLocks[x])
                           /\ CollateralEscrow'[x] = CollateralEscrowOf(requestLocks'[x])
  BY DEF EthEscrow, CollateralEscrow
<1>5. \A x \in RequestId \ {id} : /\ EthEscrow'[x] = EthEscrow[x]
                                  /\ CollateralEscrow'[x] = CollateralEscrow[x]
  BY <1>4
<1>6. Total(EthEscrow', MaxUint96)
        = Total(EthEscrow, MaxUint96) - EthEscrow[id] + EthEscrow'[id]
  BY <1>1, <1>3, <1>5, TotalUpdateById
<1>7. Total(CollateralEscrow', MaxUint96)
        = Total(CollateralEscrow, MaxUint96) - CollateralEscrow[id] + CollateralEscrow'[id]
  BY <1>1, <1>3, <1>5, TotalUpdateById
<1>8. QED BY <1>4, <1>6, <1>7

\* The id, the client and the lock of a request are of their types.
LEMMA IdFacts ==
    ASSUME NEW id \in RequestId
    PROVE  /\ ClientOf(id) \in Address /\ ClientOf(id) \in Account
           /\ SlotOf(id) \in Slot
<1>1. ClientAndIndex \in [RequestId -> Address \X Nat]
  BY RequestAssumption
<1> QED
  BY <1>1 DEF ClientOf, SlotOf, Slot, Account

-----------------------------------------------------------------------------
(* The invariant holds initially                                           *)

\* Nothing is deposited, locked or owed at deployment.
LEMMA InitInv == Init => IInv
<1> SUFFICES ASSUME Init PROVE IInv
  OBVIOUS
<1>1. ZeroLock \in RequestLock
  BY Constants, Limits DEF ZeroLock, RequestLock
<1>2. TypeOK
  BY <1>1, Constants, Limits DEF Init, TypeOK
<1>3. EthEscrow = [id \in RequestId |-> 0] /\ CollateralEscrow = [id \in RequestId |-> 0]
  BY DEF Init, EthEscrow, CollateralEscrow, EthEscrowOf, CollateralEscrowOf, ZeroLock
<1>4. Total(EthEscrow, MaxUint96) = 0 /\ Total(CollateralEscrow, MaxUint96) = 0
  BY <1>3, Constants, TotalZero
<1>5. Total(balance, MaxUint96) = 0 /\ Total(collateralBalance, MaxUint96) = 0
  BY Constants, TotalZero DEF Init
<1>6. EthSolvency /\ CollateralSolvency /\ SupplyInv
  BY <1>4, <1>5, Limits DEF Init, EthSolvency, CollateralSolvency, SupplyInv
<1>7. ASSUME NEW id \in RequestId PROVE LockInv(id) /\ ChargeInv(id)
  BY <1>7 DEF Init, LockInv, ChargeInv, ZeroLock, IsLocked, IsFulfilled, IsProverPaid,
     IsProverPaidBeforeLockDeadline, IsProverPaidAfterLockDeadline, DURING, AFTER, SLASHED
<1>8. QED BY <1>2, <1>6, <1>7 DEF IInv

-----------------------------------------------------------------------------
(* Every step preserves it                                                 *)

\* Time passing changes no lock and no balance.
LEMMA TickStep == IInv /\ Tick => IInv'
<1> SUFFICES ASSUME IInv, Tick PROVE IInv'
  OBVIOUS
<1> USE DEF Tick, accountVars, flagVars, holdingVars, historyVars
<1>1. TypeOK'
  BY DEF IInv, TypeOK
<1>2. EthEscrow' = EthEscrow /\ CollateralEscrow' = CollateralEscrow
  BY EscrowFrame
<1>3. EthSolvency' /\ CollateralSolvency' /\ SupplyInv'
  BY <1>2 DEF IInv, EthSolvency, CollateralSolvency, SupplyInv
<1>4. ASSUME NEW id \in RequestId PROVE LockInv(id)' /\ ChargeInv(id)'
  <2>1. LockInv(id) /\ ChargeInv(id)
    BY DEF IInv
  <2>2. LockedUntil(requestLocks[id]) \in Nat /\ now \in Nat
    BY Limits DEF IInv, TypeOK, RequestLock, LockedUntil
  <2>3. QED BY <2>1, <2>2 DEF LockInv, ChargeInv, IsLocked, IsFulfilled
<1>5. QED BY <1>1, <1>3, <1>4 DEF IInv

\* An id keeps its invariant when its lock and its history are left alone;
\* its slot may become fulfilled through another id or another fill.
LEMMA IdInvFrame ==
    ASSUME NEW id \in RequestId, LockInv(id), ChargeInv(id),
           requestLocks'[id] = requestLocks[id], charged'[id] = charged[id],
           payments'[id] = payments[id], lockedFlag' = lockedFlag, now' = now,
           fulfilledFlag \subseteq fulfilledFlag'
    PROVE  LockInv(id)' /\ ChargeInv(id)'
  BY DEF LockInv, ChargeInv, IsLocked, IsFulfilled

\* deposit, depositTo: the credit matches the Ether received.
LEMMA DepositStep ==
    ASSUME IInv, NEW to \in Account, NEW value \in 1..MaxUint96, Deposit(to, value)
    PROVE  IInv'
<1> USE DEF Deposit, flagVars, historyVars
<1>1. to \in Account /\ value \in Nat /\ balance[to] \in Nat /\ ethHeld \in Nat
  BY Constants, Limits DEF Account, IInv, TypeOK
<1>2. balance[to] + value \in 0..MaxUint96
  <2>1. DOMAIN balance' = Account /\ balance'[to] = balance[to] + value
    BY <1>1 DEF Credit, IInv, TypeOK
  <2>2. QED BY <1>1, <2>1, Constants DEF FitsUint96
<1>3. /\ balance' \in [Account -> 0..MaxUint96]
      /\ Total(balance', MaxUint96) = Total(balance, MaxUint96) + value
  BY <1>1, <1>2, AccountFinite, CreditTotal DEF IInv, TypeOK
<1>4. TypeOK'
  BY <1>1, <1>3, Limits DEF IInv, TypeOK
<1>5. EthEscrow' = EthEscrow /\ CollateralEscrow' = CollateralEscrow
  BY EscrowFrame
<1>6. Total(balance, MaxUint96) \in Nat /\ Total(EthEscrow, MaxUint96) \in Nat
  BY Constants, AccountFinite, TotalBounds, EscrowType DEF IInv, TypeOK
<1>7. EthSolvency' /\ CollateralSolvency' /\ SupplyInv'
  BY <1>1, <1>3, <1>5, <1>6 DEF IInv, EthSolvency, CollateralSolvency, SupplyInv
<1>8. ASSUME NEW id \in RequestId PROVE LockInv(id)' /\ ChargeInv(id)'
  BY IdInvFrame DEF IInv
<1>9. QED BY <1>4, <1>7, <1>8 DEF IInv

\* _withdraw: the debit matches the Ether sent.
LEMMA WithdrawStep ==
    ASSUME IInv, NEW account \in Address, NEW value \in 1..MaxUint96,
           Withdraw(account, value)
    PROVE  IInv'
<1> USE DEF Withdraw, flagVars, historyVars
<1>1. account \in Account /\ value \in Nat /\ balance[account] \in 0..MaxUint96
      /\ ethHeld \in Nat
  BY Constants, Limits DEF Account, IInv, TypeOK
<1>2. balance[account] - value \in 0..MaxUint96
  BY <1>1, Constants
<1>3. /\ balance' \in [Account -> 0..MaxUint96]
      /\ Total(balance', MaxUint96) = Total(balance, MaxUint96) - value
  BY <1>1, <1>2, AccountFinite, DebitTotal DEF IInv, TypeOK
<1>4. EthEscrow' = EthEscrow /\ CollateralEscrow' = CollateralEscrow
  BY EscrowFrame
<1>5. Total(balance, MaxUint96) \in Nat /\ Total(EthEscrow, MaxUint96) \in Nat
      /\ Total(balance', MaxUint96) \in Nat
  BY <1>3, Constants, AccountFinite, TotalBounds, EscrowType DEF IInv, TypeOK
<1>6. EthSolvency' /\ CollateralSolvency' /\ SupplyInv'
  BY <1>1, <1>3, <1>4, <1>5 DEF IInv, EthSolvency, CollateralSolvency, SupplyInv
<1>7. TypeOK'
  <2>1. ethHeld' \in Nat /\ ethHeld' <= ethHeld
    BY <1>1, <1>3, <1>4, <1>5 DEF IInv, EthSolvency
  <2>2. ethHeld' \in 0..EthSupply
    BY <2>1, Limits DEF IInv, TypeOK
  <2>3. QED BY <1>3, <2>2 DEF IInv, TypeOK
<1>8. ASSUME NEW id \in RequestId PROVE LockInv(id)' /\ ChargeInv(id)'
  BY IdInvFrame DEF IInv
<1>9. QED BY <1>7, <1>6, <1>8 DEF IInv

\* _depositCollateral: the credit matches the tokens received.
LEMMA DepositCollateralStep ==
    ASSUME IInv, NEW from \in Address, NEW value \in 1..MaxUint96,
           DepositCollateral(from, value)
    PROVE  IInv'
<1> USE DEF DepositCollateral, flagVars, historyVars
<1>1. from \in Account /\ value \in Nat /\ collateralBalance[from] \in Nat
      /\ tokenHeld \in Nat /\ burned \in Nat
  BY Constants, Limits DEF Account, IInv, TypeOK
<1>2. collateralBalance[from] + value \in 0..MaxUint96
  <2>1. /\ DOMAIN collateralBalance' = Account
        /\ collateralBalance'[from] = collateralBalance[from] + value
    BY <1>1 DEF Credit, IInv, TypeOK
  <2>2. QED BY <1>1, <2>1, Constants DEF FitsUint96
<1>3. /\ collateralBalance' \in [Account -> 0..MaxUint96]
      /\ Total(collateralBalance', MaxUint96)
           = Total(collateralBalance, MaxUint96) + value
  BY <1>1, <1>2, AccountFinite, CreditTotal DEF IInv, TypeOK
<1>4. TypeOK'
  BY <1>1, <1>3, Limits DEF IInv, TypeOK
<1>5. EthEscrow' = EthEscrow /\ CollateralEscrow' = CollateralEscrow
  BY EscrowFrame
<1>6. Total(collateralBalance, MaxUint96) \in Nat
      /\ Total(CollateralEscrow, MaxUint96) \in Nat
  BY Constants, AccountFinite, TotalBounds, EscrowType DEF IInv, TypeOK
<1>7. EthSolvency' /\ CollateralSolvency' /\ SupplyInv'
  BY <1>1, <1>3, <1>5, <1>6, Limits
     DEF IInv, EthSolvency, CollateralSolvency, SupplyInv
<1>8. ASSUME NEW id \in RequestId PROVE LockInv(id)' /\ ChargeInv(id)'
  BY IdInvFrame DEF IInv
<1>9. QED BY <1>4, <1>7, <1>8 DEF IInv

\* withdrawCollateral: the debit matches the tokens sent.
LEMMA WithdrawCollateralStep ==
    ASSUME IInv, NEW account \in Address, NEW value \in 1..MaxUint96,
           WithdrawCollateral(account, value)
    PROVE  IInv'
<1> USE DEF WithdrawCollateral, flagVars, historyVars
<1>1. account \in Account /\ value \in Nat
      /\ collateralBalance[account] \in 0..MaxUint96
      /\ tokenHeld \in Nat /\ burned \in Nat /\ TokenSupply \in Nat
  BY Constants, Limits DEF Account, IInv, TypeOK
<1>2. collateralBalance[account] - value \in 0..MaxUint96
  BY <1>1, Constants
<1>3. /\ collateralBalance' \in [Account -> 0..MaxUint96]
      /\ Total(collateralBalance', MaxUint96)
           = Total(collateralBalance, MaxUint96) - value
  BY <1>1, <1>2, AccountFinite, DebitTotal DEF IInv, TypeOK
<1>4. EthEscrow' = EthEscrow /\ CollateralEscrow' = CollateralEscrow
  BY EscrowFrame
<1>5. Total(collateralBalance, MaxUint96) \in Nat
      /\ Total(collateralBalance', MaxUint96) \in Nat
      /\ Total(CollateralEscrow, MaxUint96) \in Nat
  BY <1>3, Constants, AccountFinite, TotalBounds, EscrowType DEF IInv, TypeOK
<1>6. EthSolvency' /\ CollateralSolvency' /\ SupplyInv'
  BY <1>1, <1>3, <1>4, <1>5 DEF IInv, EthSolvency, CollateralSolvency, SupplyInv
<1>7. TypeOK'
  <2>1. tokenHeld' \in Nat /\ tokenHeld' <= tokenHeld
    BY <1>1, <1>3, <1>4, <1>5 DEF IInv, CollateralSolvency
  <2>2. tokenHeld' \in 0..TokenSupply
    BY <1>1, <2>1 DEF IInv, TypeOK
  <2>3. QED BY <1>3, <2>2 DEF IInv, TypeOK
<1>8. ASSUME NEW id \in RequestId PROVE LockInv(id)' /\ ChargeInv(id)'
  BY IdInvFrame DEF IInv
<1>9. QED BY <1>7, <1>6, <1>8 DEF IInv

\* _lockRequest moves the price and the collateral from the accounts into escrow; the
\* lock it writes was never written before, so nothing that is owed is overwritten.
LEMMA LockRequestStep ==
    ASSUME IInv, NEW request \in Request, NEW prover \in Address,
           LockRequest(request, prover)
    PROVE  IInv'
<1> DEFINE id    == IdOf[request]
           offer == OfferOf[request]
           price == PriceAt(offer, now)
           new   == [prover |-> prover, lockDeadline |-> LockDeadline(offer),
                     deadlineDelta |-> Deadline(offer) - LockDeadline(offer),
                     requestLockFlags |-> {}, price |-> price,
                     collateral |-> offer.lockCollateral, requestDigest |-> request]
<1>1. id \in RequestId /\ offer \in OfferType
  BY OfRequest
<1>2. /\ Validate(offer, MaxUint24)
      /\ Lockable(id)
      /\ price <= MaxUint96
      /\ balance[ClientOf(id)] >= price
      /\ collateralBalance[prover] >= offer.lockCollateral
      /\ balance' = Debit(balance, ClientOf(id), price)
      /\ collateralBalance' = Debit(collateralBalance, prover, offer.lockCollateral)
      /\ requestLocks' = [requestLocks EXCEPT ![id] = new]
      /\ lockedFlag' = lockedFlag \cup {SlotOf(id)}
      /\ charged' = Credit(charged, id, price)
      /\ UNCHANGED <<now, fulfilledFlag, ethHeld, tokenHeld, burned, delivered, payments,
                     paidFor>>
  BY DEF LockRequest, Funded, holdingVars
<1>3. price \in 0..MaxUint96
  <2>1. now \in Nat
    BY DEF IInv, TypeOK
  <2>2. price \in Nat
    BY <1>1, <1>2, <2>1, PriceAtNat
  <2>3. QED BY <1>2, <2>2, Constants
<1>4. /\ ClientOf(id) \in Account /\ prover \in Account /\ SlotOf(id) \in Slot
      /\ balance[ClientOf(id)] \in 0..MaxUint96
      /\ collateralBalance[prover] \in 0..MaxUint96
  BY <1>1, IdFacts DEF IInv, TypeOK, Account
<1>5. offer.lockCollateral \in 0..MaxUint96
  BY <1>1, <1>2, <1>4, Constants DEF OfferType
<1>6. new \in RequestLock /\ new.price = price /\ new.collateral = offer.lockCollateral
      /\ new.requestLockFlags = {}
  <2>1. LockDeadline(offer) \in Nat
    BY <1>1 DEF OfferType, LockDeadline
  <2>2. Deadline(offer) - LockDeadline(offer) \in 0..MaxUint24
    BY <1>1, <1>2, Limits DEF OfferType, LockDeadline, Deadline, Validate
  <2>3. QED BY <1>3, <1>5, <2>1, <2>2 DEF RequestLock
<1> HIDE DEF new, price, offer, id
<1>7. /\ requestLocks' \in [RequestId -> RequestLock]
      /\ requestLocks'[id] = new
      /\ \A x \in RequestId \ {id} : requestLocks'[x] = requestLocks[x]
  BY <1>1, <1>2, <1>6 DEF IInv, TypeOK
<1>8. \A x \in RequestId : SlotOf(x) = SlotOf(id) =>
         requestLocks[x] = ZeroLock /\ charged[x] = 0 /\ payments[x] = 0
  BY <1>2 DEF IInv, LockInv, ChargeInv, Lockable, IsLocked, IsFulfilled
<1>9. requestLocks[id] = ZeroLock /\ charged[id] = 0
  BY <1>1, <1>8
<1>10. /\ balance' \in [Account -> 0..MaxUint96]
       /\ Total(balance', MaxUint96) = Total(balance, MaxUint96) - price
  <2>1. balance[ClientOf(id)] - price \in 0..MaxUint96
    BY <1>2, <1>3, <1>4, Constants
  <2>2. QED BY <1>2, <1>3, <1>4, <2>1, AccountFinite, DebitTotal DEF IInv, TypeOK
<1>11. /\ collateralBalance' \in [Account -> 0..MaxUint96]
       /\ Total(collateralBalance', MaxUint96)
            = Total(collateralBalance, MaxUint96) - offer.lockCollateral
  <2>1. collateralBalance[prover] - offer.lockCollateral \in 0..MaxUint96
    BY <1>2, <1>4, <1>5, Constants
  <2>2. QED BY <1>2, <1>4, <1>5, <2>1, AccountFinite, DebitTotal DEF IInv, TypeOK
<1>12. charged' \in [RequestId -> 0..MaxUint96] /\ charged'[id] = price
       /\ \A x \in RequestId \ {id} : charged'[x] = charged[x]
  BY <1>1, <1>2, <1>3, <1>9 DEF IInv, TypeOK, Credit
<1>13. TypeOK'
  BY <1>2, <1>4, <1>7, <1>10, <1>11, <1>12 DEF IInv, TypeOK
<1>14. /\ Total(EthEscrow', MaxUint96) = Total(EthEscrow, MaxUint96) + price
       /\ Total(CollateralEscrow', MaxUint96)
            = Total(CollateralEscrow, MaxUint96) + offer.lockCollateral
  <2>1. /\ EthEscrowOf(ZeroLock) = 0 /\ CollateralEscrowOf(ZeroLock) = 0
        /\ EthEscrowOf(new) = price /\ CollateralEscrowOf(new) = offer.lockCollateral
    BY <1>6 DEF EthEscrowOf, CollateralEscrowOf, ZeroLock
  <2>2. Total(EthEscrow, MaxUint96) \in Nat /\ Total(CollateralEscrow, MaxUint96) \in Nat
    BY EscrowType DEF IInv, TypeOK
  <2>3. /\ Total(EthEscrow', MaxUint96)
             = Total(EthEscrow, MaxUint96) - EthEscrowOf(requestLocks[id])
                 + EthEscrowOf(requestLocks'[id])
        /\ Total(CollateralEscrow', MaxUint96)
             = Total(CollateralEscrow, MaxUint96) - CollateralEscrowOf(requestLocks[id])
                 + CollateralEscrowOf(requestLocks'[id])
    BY <1>1, <1>7, EscrowUpdate DEF IInv, TypeOK
  <2>4. QED BY <1>3, <1>5, <1>7, <1>9, <2>1, <2>2, <2>3
<1>15. EthSolvency' /\ CollateralSolvency' /\ SupplyInv'
  <2>1. /\ Total(EthEscrow, MaxUint96) \in Nat /\ Total(CollateralEscrow, MaxUint96) \in Nat
        /\ Total(balance, MaxUint96) \in Nat /\ Total(collateralBalance, MaxUint96) \in Nat
    BY Constants, AccountFinite, TotalBounds, EscrowType DEF IInv, TypeOK
  <2>2. QED BY <1>2, <1>3, <1>5, <1>10, <1>11, <1>14, <2>1
            DEF IInv, EthSolvency, CollateralSolvency, SupplyInv
<1>16. ASSUME NEW x \in RequestId PROVE LockInv(x)' /\ ChargeInv(x)'
  <2>1. LockInv(x) /\ ChargeInv(x) /\ payments'[x] = payments[x]
    BY <1>2 DEF IInv
  <2>2. CASE x = id
    BY <1>1, <1>2, <1>6, <1>7, <1>8, <1>12, <2>2
       DEF LockInv, ChargeInv, IsLocked, IsFulfilled, IsProverPaid,
           IsProverPaidBeforeLockDeadline, IsProverPaidAfterLockDeadline
  <2>3. CASE x # id /\ SlotOf(x) = SlotOf(id)
    BY <1>2, <1>7, <1>8, <1>12, <2>3
       DEF LockInv, ChargeInv, IsLocked, IsFulfilled, IsProverPaid, ZeroLock,
           IsProverPaidBeforeLockDeadline, IsProverPaidAfterLockDeadline
  <2>4. CASE x # id /\ SlotOf(x) # SlotOf(id)
    BY <1>2, <1>7, <1>12, <2>1, <2>4 DEF LockInv, ChargeInv, IsLocked, IsFulfilled
  <2>5. QED BY <2>2, <2>3, <2>4
<1>17. QED BY <1>13, <1>15, <1>16 DEF IInv

-----------------------------------------------------------------------------
(* Fulfillment                                                             *)

\* The price a fill is charged at fits uint96: priceRequest has cast it, or
\* it is zero because the request was not priced.
LEMMA ContextPrice ==
    ASSUME IInv, NEW request \in Request, NEW priced \in BOOLEAN,
           Authenticated(request, priced)
    PROVE  FulfillmentContext(request, priced).price \in 0..MaxUint96
<1>1. CASE priced
  <2>1. OfferOf[request] \in OfferType /\ now \in Nat
    BY OfRequest DEF IInv, TypeOK
  <2>2. Validate(OfferOf[request], MaxUint24) /\ PriceAt(OfferOf[request], now) <= MaxUint96
    BY <1>1 DEF Authenticated, PriceRequestOk
  <2>3. PriceAt(OfferOf[request], now) \in Nat
    BY <2>1, <2>2, PriceAtNat
  <2>4. FulfillmentContext(request, priced).price = PriceAt(OfferOf[request], now)
    BY <1>1 DEF FulfillmentContext
  <2>5. QED BY <2>2, <2>3, <2>4, Constants
<1>2. CASE ~priced
  BY <1>2, Constants DEF FulfillmentContext
<1>3. QED BY <1>1, <1>2

\* A lock nobody was paid for holds its price and its collateral in escrow;
\* once it is slashed both are zero.
LEMMA UnpaidLock ==
    ASSUME IInv, NEW id \in RequestId, ~IsProverPaid(requestLocks[id])
    PROVE  LET lock == requestLocks[id] IN
           /\ lock \in RequestLock
           /\ lock.requestLockFlags = {} \/ lock.requestLockFlags = {SLASHED}
           /\ EthEscrowOf(lock) = lock.price
           /\ CollateralEscrowOf(lock) = lock.collateral
<1> DEFINE lock == requestLocks[id]
<1>1. lock \in RequestLock /\ LockInv(id)
  BY DEF IInv, TypeOK
<1>2. lock.requestLockFlags \subseteq {DURING, AFTER, SLASHED}
  BY <1>1 DEF RequestLock
<1>3. DURING \notin lock.requestLockFlags /\ AFTER \notin lock.requestLockFlags
  BY DEF IsProverPaid, IsProverPaidBeforeLockDeadline, IsProverPaidAfterLockDeadline
<1>4. lock.requestLockFlags = {} \/ lock.requestLockFlags = {SLASHED}
  BY <1>2, <1>3
<1>5. lock.requestLockFlags = {SLASHED} => lock.price = 0 /\ lock.collateral = 0
  BY <1>1 DEF LockInv
<1>6. AFTER # SLASHED
  BY DEF AFTER, SLASHED
<1>7. QED BY <1>1, <1>4, <1>5, <1>6 DEF EthEscrowOf, CollateralEscrowOf

\* A fill that pays nobody, and at most withdraws the prover's balance.
LEMMA UnpaidStep ==
    ASSUME IInv, NEW prover \in Address, NEW withdraw \in BOOLEAN,
           PayOut(balance, prover, withdraw),
           fulfilledFlag \subseteq fulfilledFlag', fulfilledFlag' \subseteq Slot,
           delivered' \subseteq Request,
           UNCHANGED <<now, collateralBalance, lockedFlag, requestLocks, tokenHeld,
                       burned, charged, payments, paidFor>>
    PROVE  IInv'
<1>1. balance \in [Account -> 0..MaxUint96] /\ ethHeld \in Int
  BY Limits DEF IInv, TypeOK
<1>2. /\ balance' \in [Account -> 0..MaxUint96]
      /\ ethHeld' \in Int /\ ethHeld' <= ethHeld
      /\ ethHeld' - Total(balance', MaxUint96) = ethHeld - Total(balance, MaxUint96)
  BY <1>1, PayOutTotal
<1>3. /\ Total(balance, MaxUint96) \in Nat /\ Total(balance', MaxUint96) \in Nat
      /\ Total(EthEscrow, MaxUint96) \in Nat
  BY <1>1, <1>2, Constants, AccountFinite, TotalBounds, EscrowType DEF IInv, TypeOK
<1>4. EthEscrow' = EthEscrow /\ CollateralEscrow' = CollateralEscrow
  BY EscrowFrame
<1>5. EthSolvency' /\ CollateralSolvency' /\ SupplyInv'
  BY <1>1, <1>2, <1>3, <1>4 DEF IInv, EthSolvency, CollateralSolvency, SupplyInv
<1>6. TypeOK'
  <2>1. ethHeld' \in Nat
    BY <1>2, <1>3, <1>4, <1>5 DEF EthSolvency
  <2>2. ethHeld' \in 0..EthSupply
    BY <1>2, <2>1, Limits DEF IInv, TypeOK
  <2>3. QED BY <1>2, <2>2 DEF IInv, TypeOK
<1>7. ASSUME NEW id \in RequestId PROVE LockInv(id)' /\ ChargeInv(id)'
  BY IdInvFrame DEF IInv
<1>8. QED BY <1>5, <1>6, <1>7 DEF IInv

\* The early return for an expired request pays nobody.
LEMMA FulfillExpiredStep ==
    ASSUME IInv, NEW request \in Request, NEW prover \in Address,
           NEW priced \in BOOLEAN, NEW withdraw \in BOOLEAN,
           FulfillExpired(request, prover, priced, withdraw)
    PROVE  IInv'
<1>1. /\ PayOut(balance, prover, withdraw)
      /\ UNCHANGED <<now, collateralBalance, lockedFlag, fulfilledFlag, requestLocks,
                     tokenHeld, burned, delivered, charged, payments,
                     paidFor>>
  BY DEF FulfillExpired, flagVars, historyVars
<1>2. fulfilledFlag' \subseteq Slot /\ delivered' \subseteq Request
  BY <1>1 DEF IInv, TypeOK
<1>3. QED BY <1>1, <1>2, UnpaidStep

\* An unpaid delivery touches no lock; its slot may become fulfilled.
LEMMA DeliverUnpaidStep ==
    ASSUME IInv, NEW request \in Request, NEW prover \in Address,
           NEW withdraw \in BOOLEAN, DeliverUnpaid(request, prover, withdraw),
           \/ UNCHANGED fulfilledFlag
           \/ SetRequestFulfilled(IdOf[request])
    PROVE  IInv'
<1>1. /\ PayOut(balance, prover, withdraw)
      /\ UNCHANGED <<now, collateralBalance, lockedFlag, requestLocks, tokenHeld,
                     burned, charged, payments, paidFor>>
      /\ delivered' = delivered \cup {request}
  BY DEF DeliverUnpaid
<1>2. SlotOf(IdOf[request]) \in Slot
  BY OfRequest, IdFacts
<1>3. /\ fulfilledFlag \subseteq fulfilledFlag' /\ fulfilledFlag' \subseteq Slot
      /\ delivered' \subseteq Request
  BY <1>1, <1>2 DEF IInv, TypeOK, SetRequestFulfilled
<1>4. QED BY <1>1, <1>3, UnpaidStep

\* A payment out of the escrow, or from account to account, keeps the Ether
\* accounted for.
LEMMA PaidStep ==
    ASSUME IInv, NEW newBalance \in [Account -> 0..MaxUint96], NEW prover \in Address,
           NEW withdraw \in BOOLEAN, PayOut(newBalance, prover, withdraw),
           Total(EthEscrow', MaxUint96) \in Nat,
           Total(newBalance, MaxUint96) + Total(EthEscrow', MaxUint96)
             = Total(balance, MaxUint96) + Total(EthEscrow, MaxUint96)
    PROVE  /\ balance' \in [Account -> 0..MaxUint96]
           /\ ethHeld' \in 0..EthSupply
           /\ EthSolvency'
<1>1. balance \in [Account -> 0..MaxUint96] /\ ethHeld \in Int
  BY Limits DEF IInv, TypeOK
<1>2. /\ balance' \in [Account -> 0..MaxUint96]
      /\ ethHeld' \in Int /\ ethHeld' <= ethHeld
      /\ ethHeld' - Total(balance', MaxUint96) = ethHeld - Total(newBalance, MaxUint96)
  BY <1>1, PayOutTotal
<1>3. /\ Total(balance, MaxUint96) \in Nat /\ Total(balance', MaxUint96) \in Nat
      /\ Total(newBalance, MaxUint96) \in Nat /\ Total(EthEscrow, MaxUint96) \in Nat
  BY <1>1, <1>2, Constants, AccountFinite, TotalBounds, EscrowType DEF IInv, TypeOK
<1>4. ethHeld = Total(balance, MaxUint96) + Total(EthEscrow, MaxUint96)
  BY DEF IInv, EthSolvency
<1>5. ethHeld' = Total(balance', MaxUint96) + Total(EthEscrow', MaxUint96)
  BY <1>1, <1>2, <1>3, <1>4
<1>6. ethHeld' \in 0..EthSupply
  BY <1>2, <1>3, <1>5, Limits DEF IInv, TypeOK
<1>7. QED BY <1>2, <1>5, <1>6 DEF EthSolvency

\* Zeroing slot 1 leaves a lock with the same flags, prover and deadlines.
LEMMA ClearSlot1Type ==
    ASSUME NEW lock \in RequestLock
    PROVE  /\ ClearSlot1(lock) \in RequestLock
           /\ ClearSlot1(lock).requestLockFlags = lock.requestLockFlags
           /\ ClearSlot1(lock).price = 0 /\ ClearSlot1(lock).collateral = 0
           /\ ClearSlot1(lock).prover = lock.prover
           /\ LockedUntil(ClearSlot1(lock)) = LockedUntil(lock)
<1>1. 0 \in 0..MaxUint96
  BY Constants
<1>2. [lock EXCEPT !.price = 0] \in RequestLock
  BY <1>1 DEF RequestLock
<1>3. [[lock EXCEPT !.price = 0] EXCEPT !.collateral = 0] \in RequestLock
  BY <1>1, <1>2 DEF RequestLock
<1>4. ClearSlot1(lock) = [[lock EXCEPT !.price = 0] EXCEPT !.collateral = 0]
  BY DEF ClearSlot1
<1>5. /\ ClearSlot1(lock).requestLockFlags = lock.requestLockFlags
      /\ ClearSlot1(lock).price = 0 /\ ClearSlot1(lock).collateral = 0
      /\ ClearSlot1(lock).prover = lock.prover
      /\ ClearSlot1(lock).lockDeadline = lock.lockDeadline
      /\ ClearSlot1(lock).deadlineDelta = lock.deadlineDelta
  BY DEF ClearSlot1, RequestLock
<1>6. QED BY <1>3, <1>4, <1>5 DEF LockedUntil

\* The locker delivers the request it locked, in time.
LEMMA PayLockedStep ==
    ASSUME IInv, NEW request \in Request, NEW prover \in Address,
           NEW withdraw \in BOOLEAN, NEW id, id = IdOf[request],
           NEW lock, lock = requestLocks[id], IsLocked(id), ~IsProverPaid(lock),
           SetRequestFulfilled(id),
           requestLocks' = [requestLocks EXCEPT ![id] = SetProverPaidBeforeLockDeadline(@)],
           PayOut(Pay(balance, prover, lock.price), prover, withdraw),
           collateralBalance' = Credit(collateralBalance, prover, lock.collateral),
           FitsUint96(collateralBalance'),
           delivered' = delivered \cup {request},
           payments' = Credit(payments, id, 1),
           paidFor' = [paidFor EXCEPT ![id] = request],
           UNCHANGED <<now, lockedFlag, tokenHeld, burned, charged>>
    PROVE  IInv'
<1>1. id \in RequestId /\ prover \in Account
  BY OfRequest DEF Account
<1>2. SlotOf(id) \in Slot
  BY <1>1, IdFacts
<1>3. /\ lock \in RequestLock
      /\ EthEscrowOf(lock) = lock.price
      /\ CollateralEscrowOf(lock) = lock.collateral
  BY <1>1, UnpaidLock
<1>4. lock.price \in 0..MaxUint96 /\ lock.collateral \in 0..MaxUint96
  BY <1>3 DEF RequestLock
<1> DEFINE new == SetProverPaidBeforeLockDeadline(lock)
<1>5. new \in RequestLock /\ new.requestLockFlags = {DURING}
  <2>1. [lock EXCEPT !.requestLockFlags = {DURING}] \in RequestLock
        /\ [lock EXCEPT !.requestLockFlags = {DURING}].requestLockFlags = {DURING}
    BY <1>3 DEF RequestLock
  <2>2. QED BY <2>1, ClearSlot1Type DEF SetProverPaidBeforeLockDeadline
<1>6. EthEscrowOf(new) = 0 /\ CollateralEscrowOf(new) = 0
  <2>1. {DURING} # {} /\ ~({DURING} \subseteq {AFTER})
    BY DEF DURING, AFTER
  <2>2. QED BY <1>5, <2>1 DEF EthEscrowOf, CollateralEscrowOf
<1> HIDE DEF new
<1>7. /\ requestLocks \in [RequestId -> RequestLock]
      /\ requestLocks' \in [RequestId -> RequestLock]
      /\ requestLocks'[id] = new
      /\ \A x \in RequestId \ {id} : requestLocks'[x] = requestLocks[x]
  BY <1>1, <1>5 DEF IInv, TypeOK, new
<1>8. /\ Total(EthEscrow, MaxUint96) \in Nat /\ Total(CollateralEscrow, MaxUint96) \in Nat
      /\ lock.price <= Total(EthEscrow, MaxUint96)
      /\ lock.collateral <= Total(CollateralEscrow, MaxUint96)
  BY <1>1, <1>3, <1>7, EscrowType
<1>9. /\ Total(EthEscrow', MaxUint96) = Total(EthEscrow, MaxUint96) - lock.price
      /\ Total(CollateralEscrow', MaxUint96)
           = Total(CollateralEscrow, MaxUint96) - lock.collateral
  <2>1. /\ Total(EthEscrow', MaxUint96)
             = Total(EthEscrow, MaxUint96) - EthEscrowOf(requestLocks[id])
                 + EthEscrowOf(requestLocks'[id])
        /\ Total(CollateralEscrow', MaxUint96)
             = Total(CollateralEscrow, MaxUint96) - CollateralEscrowOf(requestLocks[id])
                 + CollateralEscrowOf(requestLocks'[id])
    BY <1>1, <1>7, EscrowUpdate
  <2>2. QED BY <1>3, <1>4, <1>6, <1>7, <1>8, <2>1
<1>10. /\ Pay(balance, prover, lock.price) \in [Account -> 0..MaxUint96]
       /\ Total(Pay(balance, prover, lock.price), MaxUint96)
            = Total(balance, MaxUint96) + lock.price
  <2>1. FitsUint96(Pay(balance, prover, lock.price))
    BY DEF PayOut
  <2>2. lock.price \in Nat /\ balance \in [Account -> 0..MaxUint96]
    BY <1>4, Constants DEF IInv, TypeOK
  <2>3. QED BY <2>1, <2>2, PayTotal
<1>11. /\ Total(balance, MaxUint96) \in Nat /\ Total(collateralBalance, MaxUint96) \in Nat
  BY Constants, AccountFinite, TotalBounds DEF IInv, TypeOK
<1>12. /\ balance' \in [Account -> 0..MaxUint96] /\ ethHeld' \in 0..EthSupply
       /\ EthSolvency'
  <2>1. Total(EthEscrow', MaxUint96) \in Nat
    BY <1>4, <1>8, <1>9
  <2>2. Total(Pay(balance, prover, lock.price), MaxUint96) + Total(EthEscrow', MaxUint96)
          = Total(balance, MaxUint96) + Total(EthEscrow, MaxUint96)
    BY <1>4, <1>8, <1>9, <1>10, <1>11
  <2>3. QED BY <1>10, <2>1, <2>2, PaidStep
<1>13. /\ collateralBalance' \in [Account -> 0..MaxUint96]
       /\ Total(collateralBalance', MaxUint96)
            = Total(collateralBalance, MaxUint96) + lock.collateral
  <2>1. collateralBalance[prover] \in 0..MaxUint96
    BY <1>1 DEF IInv, TypeOK
  <2>2. /\ DOMAIN collateralBalance' = Account
        /\ collateralBalance'[prover] = collateralBalance[prover] + lock.collateral
    BY <1>1 DEF Credit, IInv, TypeOK
  <2>3. collateralBalance[prover] + lock.collateral \in 0..MaxUint96
    BY <1>1, <1>4, <2>1, <2>2, Constants DEF FitsUint96
  <2>4. lock.collateral \in Int
    BY <1>4, Constants
  <2>5. QED BY <1>1, <2>3, <2>4, AccountFinite, CreditTotal DEF IInv, TypeOK
<1>14. CollateralSolvency' /\ SupplyInv'
  BY <1>4, <1>8, <1>9, <1>11, <1>13 DEF IInv, CollateralSolvency, SupplyInv
<1>15. /\ payments' \in [RequestId -> Nat]
       /\ paidFor' \in [RequestId -> Request \cup {Zero}]
       /\ \A x \in RequestId \ {id} : payments'[x] = payments[x]
       /\ payments'[id] = payments[id] + 1
  BY <1>1 DEF IInv, TypeOK, Credit
<1>16. TypeOK'
  BY <1>2, <1>7, <1>12, <1>13, <1>15 DEF IInv, TypeOK, SetRequestFulfilled
<1>17. ASSUME NEW x \in RequestId PROVE LockInv(x)' /\ ChargeInv(x)'
  <2>1. LockInv(x) /\ ChargeInv(x) /\ charged'[x] = charged[x]
    BY DEF IInv
  <2>2. fulfilledFlag \subseteq fulfilledFlag'
    BY DEF SetRequestFulfilled
  <2>3. CASE x # id
    BY <1>7, <1>15, <2>1, <2>2, <2>3, IdInvFrame
  <2>4. CASE x = id
    <3>1. payments'[x] = 1
      <4>1. payments[id] = 0
        BY <2>1, <2>4 DEF ChargeInv
      <4>2. QED BY <1>15, <2>4, <4>1
    <3>2. AFTER # DURING /\ SLASHED # DURING
      BY DEF AFTER, SLASHED, DURING
    <3>3. requestLocks'[x].requestLockFlags = {DURING} /\ IsLocked(x)' /\ IsFulfilled(x)'
      BY <1>5, <1>7, <2>4 DEF IsLocked, IsFulfilled, SetRequestFulfilled
    <3>4. IsProverPaid(requestLocks'[x])
      BY <3>3 DEF IsProverPaid, IsProverPaidBeforeLockDeadline
    <3>5. QED BY <3>1, <3>2, <3>3, <3>4 DEF LockInv, ChargeInv
  <2>5. QED BY <2>3, <2>4
<1>18. QED BY <1>12, <1>14, <1>16, <1>17 DEF IInv

\* The three outcomes of _fulfillAndPayLocked.
LEMMA FulfillAndPayLockedStep ==
    ASSUME IInv, NEW request \in Request, NEW prover \in Address,
           NEW priced \in BOOLEAN, NEW withdraw \in BOOLEAN,
           FulfillAndPayLocked(request, prover, priced, withdraw)
    PROVE  IInv'
<1> DEFINE id   == IdOf[request]
           lock == requestLocks[id]
<1>1. CASE /\ DeliverUnpaid(request, prover, withdraw)
           /\ UNCHANGED fulfilledFlag \/ SetRequestFulfilled(id)
  BY <1>1, DeliverUnpaidStep
<1>2. CASE /\ ~IsProverPaid(lock)
           /\ SetRequestFulfilled(id)
           /\ requestLocks' = [requestLocks EXCEPT ![id] =
                                 SetProverPaidBeforeLockDeadline(@)]
           /\ PayOut(Pay(balance, prover, lock.price), prover, withdraw)
           /\ collateralBalance' = Credit(collateralBalance, prover, lock.collateral)
           /\ FitsUint96(collateralBalance')
           /\ delivered' = delivered \cup {request}
           /\ payments' = Credit(payments, id, 1)
           /\ paidFor' = [paidFor EXCEPT ![id] = request]
           /\ UNCHANGED <<now, lockedFlag, tokenHeld, burned, charged>>
  <2>1. IsLocked(id)
    BY DEF FulfillAndPayLocked
  <2> HIDE DEF id, lock
  <2>2. id = IdOf[request] /\ lock = requestLocks[id]
    BY DEF id, lock
  <2>3. QED BY <1>2, <2>1, <2>2, PayLockedStep
<1>3. QED BY <1>1, <1>2 DEF FulfillAndPayLocked

\* What the client owes is at most what it has, and gives back at most the
\* price of the lock; lock price and charge together are at most the price.
LEMMA ClientOwesBounds ==
    ASSUME NEW price \in 0..MaxUint96, NEW lockPrice \in 0..MaxUint96,
           NEW available \in 0..MaxUint96
    PROVE  LET owes == ClientOwes(price, lockPrice, available) IN
           /\ owes \in Int /\ owes <= available
           /\ lockPrice + owes \in 0..MaxUint96
  BY Constants DEF ClientOwes

\* What the late prover is paid, less the fee.
FinalPrice(lockPrice, owes) == lockPrice + owes

\* Anybody delivers after the lock deadline and nobody was paid before.
LEMMA PayWasLockedStep ==
    ASSUME IInv, NEW request \in Request, NEW prover \in Address,
           NEW withdraw \in BOOLEAN, NEW id, id = IdOf[request],
           NEW lock, lock = requestLocks[id], IsLocked(id), ~IsProverPaid(lock),
           NEW price \in 0..MaxUint96,
           NEW owes, owes = ClientOwes(price, lock.price, balance[ClientOf(id)]),
           SetRequestFulfilled(id),
           FitsUint96(Debit(balance, ClientOf(id), owes)),
           PayOut(Pay(Debit(balance, ClientOf(id), owes), prover,
                      FinalPrice(lock.price, owes)), prover, withdraw),
           requestLocks' = [requestLocks EXCEPT ![id] =
                              SetProverPaidAfterLockDeadline(@, prover)],
           delivered' = delivered \cup {request},
           charged' = Credit(charged, id, owes),
           payments' = Credit(payments, id, 1),
           paidFor' = [paidFor EXCEPT ![id] = request],
           UNCHANGED <<now, collateralBalance, lockedFlag, tokenHeld, burned>>
    PROVE  IInv'
<1> DEFINE client == ClientOf(id)
           debited == Debit(balance, client, owes)
           paid == Pay(debited, prover, FinalPrice(lock.price, owes))
           new == SetProverPaidAfterLockDeadline(lock, prover)
<1>1. id \in RequestId /\ prover \in Account
  BY OfRequest DEF Account
<1>2. SlotOf(id) \in Slot /\ client \in Account
  BY <1>1, IdFacts
<1> HIDE DEF client
<1>3. /\ lock \in RequestLock
      /\ lock.requestLockFlags = {} \/ lock.requestLockFlags = {SLASHED}
      /\ EthEscrowOf(lock) = lock.price
      /\ CollateralEscrowOf(lock) = lock.collateral
  BY <1>1, UnpaidLock
<1>4. /\ lock.price \in 0..MaxUint96 /\ lock.collateral \in 0..MaxUint96
      /\ lock.price \in Nat /\ lock.collateral \in Nat
  <2>1. lock.price \in 0..MaxUint96 /\ lock.collateral \in 0..MaxUint96
    BY <1>3 DEF RequestLock
  <2>2. QED BY <2>1, Constants
<1>5. balance \in [Account -> 0..MaxUint96] /\ balance[client] \in 0..MaxUint96
  BY <1>2 DEF IInv, TypeOK
<1>6. /\ owes \in Int /\ owes <= balance[client]
      /\ lock.price + owes \in 0..MaxUint96
      /\ FinalPrice(lock.price, owes) = lock.price + owes
  BY <1>4, <1>5, ClientOwesBounds DEF client, FinalPrice
<1>7. /\ debited \in [Account -> 0..MaxUint96]
      /\ Total(debited, MaxUint96) = Total(balance, MaxUint96) - owes
  <2>1. DOMAIN debited = Account /\ debited[client] = balance[client] - owes
    BY <1>2, <1>5 DEF Debit
  <2>2. debited[client] <= MaxUint96
    BY <1>2, <2>1 DEF FitsUint96, client
  <2>3. balance[client] - owes \in 0..MaxUint96
    BY <1>5, <1>6, <2>1, <2>2, Constants
  <2>4. QED BY <1>2, <1>5, <1>6, <2>3, AccountFinite, DebitTotal
<1> HIDE DEF debited
<1>8. /\ paid \in [Account -> 0..MaxUint96]
      /\ Total(paid, MaxUint96) = Total(debited, MaxUint96) + FinalPrice(lock.price, owes)
  <2>1. FitsUint96(paid)
    BY DEF PayOut, debited, client
  <2>2. FinalPrice(lock.price, owes) \in Nat
    BY <1>6, Constants
  <2>3. QED BY <1>7, <2>1, <2>2, PayTotal
<1>9. PayOut(paid, prover, withdraw)
  BY DEF debited, client
<1> HIDE DEF paid
<1>10. /\ new \in RequestLock /\ new.prover = prover
       /\ new.requestLockFlags = lock.requestLockFlags \cup {AFTER}
       /\ new.price = lock.price /\ new.collateral = lock.collateral
       /\ LockedUntil(new) = LockedUntil(lock)
  <2>1. /\ [lock EXCEPT !.prover = prover] \in RequestLock
        /\ [lock EXCEPT !.prover = prover].requestLockFlags = lock.requestLockFlags
    BY <1>3 DEF RequestLock
  <2>2. new = [[lock EXCEPT !.prover = prover]
                 EXCEPT !.requestLockFlags = lock.requestLockFlags \cup {AFTER}]
    BY <1>3 DEF SetProverPaidAfterLockDeadline, RequestLock
  <2>3. lock.requestLockFlags \cup {AFTER} \in SUBSET {DURING, AFTER, SLASHED}
    BY <1>3
  <2>4. new \in RequestLock
    BY <2>1, <2>2, <2>3 DEF RequestLock
  <2>5. /\ new.prover = prover
        /\ new.requestLockFlags = lock.requestLockFlags \cup {AFTER}
        /\ new.price = lock.price /\ new.collateral = lock.collateral
        /\ new.lockDeadline = lock.lockDeadline /\ new.deadlineDelta = lock.deadlineDelta
    BY <1>3 DEF SetProverPaidAfterLockDeadline, RequestLock
  <2>6. QED BY <2>4, <2>5 DEF LockedUntil
<1>11. lock.requestLockFlags = {SLASHED} => lock.price = 0 /\ lock.collateral = 0
  BY <1>1 DEF IInv, LockInv
<1>12. EthEscrowOf(new) = 0 /\ CollateralEscrowOf(new) = lock.collateral
  <2>1. new.requestLockFlags # {}
    BY <1>10
  <2>2. new.requestLockFlags \subseteq {AFTER} \/ lock.requestLockFlags = {SLASHED}
    BY <1>3, <1>10
  <2>3. QED BY <1>10, <1>11, <2>1, <2>2 DEF EthEscrowOf, CollateralEscrowOf
<1>13. /\ requestLocks \in [RequestId -> RequestLock]
       /\ requestLocks' \in [RequestId -> RequestLock]
       /\ requestLocks'[id] = new
       /\ \A x \in RequestId \ {id} : requestLocks'[x] = requestLocks[x]
  BY <1>1, <1>10 DEF IInv, TypeOK
<1> HIDE DEF new
<1>14. /\ Total(EthEscrow, MaxUint96) \in Nat /\ Total(CollateralEscrow, MaxUint96) \in Nat
       /\ lock.price <= Total(EthEscrow, MaxUint96)
       /\ Total(balance, MaxUint96) \in Nat
  <2>1. /\ Total(EthEscrow, MaxUint96) \in Nat /\ Total(CollateralEscrow, MaxUint96) \in Nat
        /\ lock.price <= Total(EthEscrow, MaxUint96)
    BY <1>1, <1>3, <1>13, EscrowType
  <2>2. Total(balance, MaxUint96) \in Nat
    BY <1>5, Constants, AccountFinite, TotalBounds
  <2>3. QED BY <2>1, <2>2
<1>15. /\ Total(EthEscrow', MaxUint96) = Total(EthEscrow, MaxUint96) - lock.price
       /\ Total(CollateralEscrow', MaxUint96) = Total(CollateralEscrow, MaxUint96)
  <2>1. /\ Total(EthEscrow', MaxUint96)
             = Total(EthEscrow, MaxUint96) - EthEscrowOf(requestLocks[id])
                 + EthEscrowOf(requestLocks'[id])
        /\ Total(CollateralEscrow', MaxUint96)
             = Total(CollateralEscrow, MaxUint96) - CollateralEscrowOf(requestLocks[id])
                 + CollateralEscrowOf(requestLocks'[id])
    BY <1>1, <1>13, EscrowUpdate
  <2>2. lock.price \in Int /\ lock.collateral \in Int
    BY <1>4
  <2>3. /\ EthEscrowOf(requestLocks[id]) = lock.price /\ EthEscrowOf(requestLocks'[id]) = 0
        /\ CollateralEscrowOf(requestLocks[id]) = lock.collateral
        /\ CollateralEscrowOf(requestLocks'[id]) = lock.collateral
    BY <1>3, <1>12, <1>13
  <2>4. QED BY <1>14, <2>1, <2>2, <2>3
<1>16. /\ balance' \in [Account -> 0..MaxUint96] /\ ethHeld' \in 0..EthSupply
       /\ EthSolvency'
  <2>1. Total(EthEscrow', MaxUint96) \in Nat
    BY <1>4, <1>14, <1>15
  <2>2. Total(paid, MaxUint96) + Total(EthEscrow', MaxUint96)
          = Total(balance, MaxUint96) + Total(EthEscrow, MaxUint96)
    <3>1. lock.price \in Int
      BY <1>4
    <3>2. /\ Total(paid, MaxUint96) = Total(balance, MaxUint96) - owes + (lock.price + owes)
          /\ owes \in Int
      BY <1>6, <1>7, <1>8
    <3>3. QED BY <1>14, <1>15, <3>1, <3>2
  <2>3. QED BY <1>8, <1>9, <2>1, <2>2, PaidStep
<1>17. CollateralSolvency' /\ SupplyInv'
  BY <1>15 DEF IInv, CollateralSolvency, SupplyInv
<1>18. charged[id] = lock.price /\ payments[id] = 0
  BY <1>1 DEF IInv, ChargeInv
<1>19. /\ payments' \in [RequestId -> Nat]
       /\ paidFor' \in [RequestId -> Request \cup {Zero}]
       /\ payments'[id] = 1
       /\ \A x \in RequestId \ {id} : payments'[x] = payments[x]
  BY <1>1, <1>18 DEF IInv, TypeOK, Credit
<1>20. /\ charged' \in [RequestId -> 0..MaxUint96]
       /\ \A x \in RequestId \ {id} : charged'[x] = charged[x]
  BY <1>1, <1>6, <1>18 DEF IInv, TypeOK, Credit
<1>21. TypeOK'
  BY <1>2, <1>13, <1>16, <1>19, <1>20 DEF IInv, TypeOK, SetRequestFulfilled
<1>22. ASSUME NEW x \in RequestId PROVE LockInv(x)' /\ ChargeInv(x)'
  <2>1. LockInv(x) /\ ChargeInv(x)
    BY DEF IInv
  <2>2. fulfilledFlag \subseteq fulfilledFlag'
    BY DEF SetRequestFulfilled
  <2>3. CASE x # id
    BY <1>13, <1>19, <1>20, <2>1, <2>2, <2>3, IdInvFrame
  <2>4. CASE x = id
    <3>1. requestLocks'[x] = new /\ IsLocked(x)' /\ IsFulfilled(x)' /\ payments'[x] = 1
      BY <1>13, <1>19, <2>4 DEF IsLocked, IsFulfilled, SetRequestFulfilled
    <3>2. IsProverPaid(new) /\ DURING \notin new.requestLockFlags
      BY <1>3, <1>10 DEF IsProverPaid, IsProverPaidAfterLockDeadline, AFTER, DURING, SLASHED
    <3>3. SLASHED \in new.requestLockFlags =>
             new.price = 0 /\ new.collateral = 0 /\ LockedUntil(new) < now
      <4>1. SLASHED \in new.requestLockFlags => lock.requestLockFlags = {SLASHED}
        BY <1>3, <1>10 DEF SLASHED, AFTER
      <4>2. lock.requestLockFlags = {SLASHED} => LockedUntil(lock) < now
        BY <2>1, <2>4 DEF LockInv
      <4>3. QED BY <1>10, <1>11, <4>1, <4>2
    <3>4. QED BY <1>10, <3>1, <3>2, <3>3 DEF LockInv, ChargeInv
  <2>5. QED BY <2>3, <2>4
<1>23. QED BY <1>16, <1>17, <1>21, <1>22 DEF IInv

\* The two outcomes of _fulfillAndPayWasLocked.
LEMMA FulfillAndPayWasLockedStep ==
    ASSUME IInv, NEW request \in Request, NEW prover \in Address,
           NEW priced \in BOOLEAN, NEW withdraw \in BOOLEAN,
           FulfillAndPayWasLocked(request, prover, priced, withdraw)
    PROVE  IInv'
<1> DEFINE id    == IdOf[request]
           lock  == requestLocks[id]
           price == FulfillmentContext(request, priced).price
           owes  == ClientOwes(price, lock.price, balance[ClientOf(id)])
<1>1. CASE /\ DeliverUnpaid(request, prover, withdraw)
           /\ UNCHANGED fulfilledFlag
  BY <1>1, DeliverUnpaidStep
<1>2. CASE /\ ~IsProverPaid(lock)
           /\ SetRequestFulfilled(id)
           /\ FitsUint96(Debit(balance, ClientOf(id), owes))
           /\ PayOut(Pay(Debit(balance, ClientOf(id), owes), prover, lock.price + owes),
                     prover, withdraw)
           /\ requestLocks' = [requestLocks EXCEPT ![id] =
                                 SetProverPaidAfterLockDeadline(@, prover)]
           /\ delivered' = delivered \cup {request}
           /\ charged' = Credit(charged, id, owes)
           /\ payments' = Credit(payments, id, 1)
           /\ paidFor' = [paidFor EXCEPT ![id] = request]
           /\ UNCHANGED <<now, collateralBalance, lockedFlag, tokenHeld, burned>>
  <2>1. IsLocked(id)
    BY DEF FulfillAndPayWasLocked
  <2>2. price \in 0..MaxUint96
    BY ContextPrice DEF FulfillAndPayWasLocked, Deliverable
  <2> HIDE DEF id, lock, price, owes
  <2>3. /\ id = IdOf[request] /\ lock = requestLocks[id]
        /\ owes = ClientOwes(price, lock.price, balance[ClientOf(id)])
    BY DEF id, lock, owes
  <2>4. QED BY <1>2, <2>1, <2>2, <2>3, PayWasLockedStep DEF FinalPrice
<1>3. QED BY <1>1, <1>2 DEF FulfillAndPayWasLocked

\* The two outcomes of _fulfillAndPayNeverLocked: the payment goes from the client
\* to the prover and no escrow is involved.
LEMMA FulfillAndPayNeverLockedStep ==
    ASSUME IInv, NEW request \in Request, NEW prover \in Address,
           NEW priced \in BOOLEAN, NEW withdraw \in BOOLEAN,
           FulfillAndPayNeverLocked(request, prover, priced, withdraw)
    PROVE  IInv'
<1> DEFINE id     == IdOf[request]
           client == ClientOf(id)
           price  == FulfillmentContext(request, priced).price
           debited == Debit(balance, client, price)
           paid    == Pay(debited, prover, price)
<1>1. CASE DeliverUnpaid(request, prover, withdraw) /\ SetRequestFulfilled(id)
  BY <1>1, DeliverUnpaidStep
<1>2. CASE /\ SetRequestFulfilled(id)
           /\ ~IsFulfilled(id) /\ balance[client] >= price
           /\ PayOut(paid, prover, withdraw)
           /\ delivered' = delivered \cup {request}
           /\ charged' = Credit(charged, id, price)
           /\ payments' = Credit(payments, id, 1)
           /\ paidFor' = [paidFor EXCEPT ![id] = request]
           /\ UNCHANGED <<now, collateralBalance, lockedFlag, requestLocks,
                          tokenHeld, burned>>
  <2>1. ~IsLocked(id) /\ price \in 0..MaxUint96
    BY ContextPrice DEF FulfillAndPayNeverLocked, Deliverable
  <2>2. id \in RequestId
    BY OfRequest
  <2>3. SlotOf(id) \in Slot /\ client \in Account
    BY <2>2, IdFacts
  <2> HIDE DEF id, client, price
  <2>4. balance \in [Account -> 0..MaxUint96] /\ balance[client] \in 0..MaxUint96
    BY <2>3 DEF IInv, TypeOK
  <2>5. /\ debited \in [Account -> 0..MaxUint96]
        /\ Total(debited, MaxUint96) = Total(balance, MaxUint96) - price
    <3>1. balance[client] - price \in 0..MaxUint96 /\ price \in Int
      BY <1>2, <2>1, <2>4, Constants
    <3>2. QED BY <2>3, <2>4, <3>1, AccountFinite, DebitTotal
  <2> HIDE DEF debited
  <2>6. /\ paid \in [Account -> 0..MaxUint96]
        /\ Total(paid, MaxUint96) = Total(debited, MaxUint96) + price
    <3>1. FitsUint96(paid)
      BY <1>2 DEF PayOut
    <3>2. price \in Nat
      BY <2>1, Constants
    <3>3. QED BY <2>5, <3>1, <3>2, PayTotal
  <2> HIDE DEF paid
  <2>7. EthEscrow' = EthEscrow /\ CollateralEscrow' = CollateralEscrow
    BY <1>2, EscrowFrame
  <2>8. Total(EthEscrow, MaxUint96) \in Nat /\ Total(balance, MaxUint96) \in Nat
    BY <2>4, Constants, AccountFinite, TotalBounds, EscrowType DEF IInv, TypeOK
  <2>9. /\ balance' \in [Account -> 0..MaxUint96] /\ ethHeld' \in 0..EthSupply
        /\ EthSolvency'
    <3>1. price \in Int
      BY <2>1, Constants
    <3>2. Total(paid, MaxUint96) = Total(balance, MaxUint96)
      BY <2>5, <2>6, <2>8, <3>1
    <3>3. /\ Total(EthEscrow', MaxUint96) \in Nat
          /\ Total(paid, MaxUint96) + Total(EthEscrow', MaxUint96)
               = Total(balance, MaxUint96) + Total(EthEscrow, MaxUint96)
      BY <2>7, <2>8, <3>2
    <3>4. QED BY <1>2, <2>6, <3>3, PaidStep
  <2>10. CollateralSolvency' /\ SupplyInv'
    BY <1>2, <2>7 DEF IInv, CollateralSolvency, SupplyInv
  <2>11. charged[id] = 0 /\ payments[id] = 0 /\ requestLocks[id] = ZeroLock
    BY <1>2, <2>1, <2>2 DEF IInv, ChargeInv, LockInv
  <2>12. /\ payments' \in [RequestId -> Nat] /\ payments'[id] = 1
         /\ paidFor' \in [RequestId -> Request \cup {Zero}]
         /\ \A x \in RequestId \ {id} : payments'[x] = payments[x]
    BY <1>2, <2>2, <2>11 DEF IInv, TypeOK, Credit
  <2>13. /\ charged' \in [RequestId -> 0..MaxUint96]
         /\ \A x \in RequestId \ {id} : charged'[x] = charged[x]
    BY <1>2, <2>1, <2>2, <2>11 DEF IInv, TypeOK, Credit
  <2>14. TypeOK'
    BY <1>2, <2>3, <2>9, <2>12, <2>13 DEF IInv, TypeOK, SetRequestFulfilled
  <2>15. ASSUME NEW x \in RequestId PROVE LockInv(x)' /\ ChargeInv(x)'
    <3>1. LockInv(x) /\ ChargeInv(x)
      BY DEF IInv
    <3>2. fulfilledFlag \subseteq fulfilledFlag'
      BY <1>2 DEF SetRequestFulfilled
    <3>3. CASE x # id
      BY <1>2, <2>12, <2>13, <3>1, <3>2, <3>3, IdInvFrame
    <3>4. CASE x = id
      <4>1. ~IsLocked(x)' /\ IsFulfilled(x)' /\ requestLocks'[x] = ZeroLock
            /\ payments'[x] = 1
        BY <1>2, <2>1, <2>11, <2>12, <3>4 DEF IsLocked, IsFulfilled, SetRequestFulfilled
      <4>2. QED BY <4>1 DEF LockInv, ChargeInv, ZeroLock, IsProverPaid,
               IsProverPaidBeforeLockDeadline, IsProverPaidAfterLockDeadline
    <3>5. QED BY <3>3, <3>4
  <2>16. QED BY <2>9, <2>10, <2>14, <2>15 DEF IInv
<1>3. QED BY <1>1, <1>2 DEF FulfillAndPayNeverLocked

-----------------------------------------------------------------------------
(* Slashing                                                                *)

\* slash empties both escrows of the lock: the price goes back to the client unless it
\* was spent on a late delivery, the collateral is burned and transferred.
LEMMA SlashStep ==
    ASSUME IInv, NEW id \in RequestId, Slash(id)
    PROVE  IInv'
<1> DEFINE lock == requestLocks[id]
           burn == BurnValue(lock.collateral)
           transfer == lock.collateral - burn
           recipient == IF IsProverPaidAfterLockDeadline(lock) THEN lock.prover ELSE Market
           refund == SlashRefund(lock)
           new == SetSlashed(lock)
<1>1. /\ Slashable(id)
      /\ requestLocks' = [requestLocks EXCEPT ![id] = SetSlashed(@)]
      /\ collateralBalance' = Credit(collateralBalance, recipient, transfer)
      /\ FitsUint96(collateralBalance')
      /\ balance' = Credit(balance, ClientOf(id), refund)
      /\ FitsUint96(balance')
      /\ tokenHeld' = tokenHeld - burn
      /\ burned' = burned + burn
      /\ charged' = Debit(charged, id, refund)
      /\ UNCHANGED <<now, lockedFlag, fulfilledFlag, ethHeld, delivered, payments, paidFor>>
  BY DEF Slash, flagVars
<1>2. /\ lock \in RequestLock /\ LockInv(id) /\ ChargeInv(id)
      /\ requestLocks \in [RequestId -> RequestLock]
  BY DEF IInv, TypeOK
<1>3. lock.price \in 0..MaxUint96 /\ lock.collateral \in 0..MaxUint96
      /\ lock.requestLockFlags \subseteq {DURING, AFTER, SLASHED}
  BY <1>2 DEF RequestLock
<1>4. lock.requestLockFlags = {} \/ lock.requestLockFlags = {AFTER}
  BY <1>1, <1>3 DEF Slashable, IsSlashed, IsProverPaidBeforeLockDeadline
<1>5. IsLocked(id) /\ LockedUntil(lock) < now
  <2>1. LockedUntil(lock) \in Nat /\ now \in Nat
    BY <1>2, Limits DEF LockedUntil, RequestLock, IInv, TypeOK
  <2>2. QED BY <1>1, <2>1 DEF Slashable
<1>6. /\ EthEscrowOf(lock) = refund /\ refund \in 0..MaxUint96
      /\ CollateralEscrowOf(lock) = lock.collateral
  BY <1>3, <1>4, Constants
     DEF EthEscrowOf, CollateralEscrowOf, SlashRefund, IsProverPaidAfterLockDeadline
<1>7. burn \in 0..lock.collateral
  <2>1. lock.collateral \in Nat
    BY <1>3, Constants
  <2>2. QED BY <2>1, BurnValueBounds
<1>8. /\ new \in RequestLock /\ new.requestLockFlags = lock.requestLockFlags \cup {SLASHED}
      /\ new.price = 0 /\ new.collateral = 0 /\ new.prover = lock.prover
      /\ LockedUntil(new) = LockedUntil(lock)
  <2> DEFINE flagged == [lock EXCEPT !.requestLockFlags = @ \cup {SLASHED}]
  <2>1. /\ flagged \in RequestLock /\ flagged.prover = lock.prover
        /\ flagged.requestLockFlags = lock.requestLockFlags \cup {SLASHED}
        /\ flagged.lockDeadline = lock.lockDeadline
        /\ flagged.deadlineDelta = lock.deadlineDelta
    BY <1>2 DEF RequestLock
  <2>2. LockedUntil(flagged) = LockedUntil(lock)
    BY <2>1 DEF LockedUntil
  <2>3. new = ClearSlot1(flagged)
    BY DEF SetSlashed
  <2> HIDE DEF flagged
  <2>4. QED BY <2>1, <2>2, <2>3, ClearSlot1Type
<1>9. /\ requestLocks' \in [RequestId -> RequestLock]
      /\ requestLocks'[id] = new
      /\ \A x \in RequestId \ {id} : requestLocks'[x] = requestLocks[x]
  BY <1>1, <1>2, <1>8
<1>10. EthEscrowOf(new) = 0 /\ CollateralEscrowOf(new) = 0
  BY <1>8 DEF EthEscrowOf, CollateralEscrowOf
<1>11. recipient \in Account /\ ClientOf(id) \in Account
  BY <1>2, IdFacts DEF LockInv, IsProverPaidAfterLockDeadline, Account
<1>12. charged[id] - refund \in 0..MaxUint96
       /\ (~IsProverPaidAfterLockDeadline(lock) => charged[id] - refund = 0)
  <2>1. charged[id] \in 0..MaxUint96
    BY DEF IInv, TypeOK
  <2>2. CASE IsProverPaidAfterLockDeadline(lock)
    BY <2>1, <2>2, Constants DEF SlashRefund
  <2>3. CASE ~IsProverPaidAfterLockDeadline(lock)
    <3>1. charged[id] = lock.price
      BY <1>1, <1>2, <1>5, <2>3 DEF ChargeInv, IsProverPaid, Slashable
    <3>2. refund = lock.price
      BY <2>3 DEF SlashRefund
    <3>3. QED BY <2>1, <3>1, <3>2, Constants
  <2>4. QED BY <2>2, <2>3
<1> HIDE DEF new, lock, burn, transfer, recipient, refund
<1>13. /\ charged' \in [RequestId -> 0..MaxUint96]
       /\ charged'[id] = charged[id] - refund
       /\ \A x \in RequestId \ {id} : charged'[x] = charged[x]
  BY <1>1, <1>12 DEF IInv, TypeOK, Debit
<1>14. /\ Total(EthEscrow, MaxUint96) \in Nat /\ Total(CollateralEscrow, MaxUint96) \in Nat
       /\ refund <= Total(EthEscrow, MaxUint96)
       /\ lock.collateral <= Total(CollateralEscrow, MaxUint96)
       /\ Total(balance, MaxUint96) \in Nat /\ Total(collateralBalance, MaxUint96) \in Nat
  <2>1. /\ Total(EthEscrow, MaxUint96) \in Nat /\ Total(CollateralEscrow, MaxUint96) \in Nat
        /\ EthEscrowOf(lock) <= Total(EthEscrow, MaxUint96)
        /\ CollateralEscrowOf(lock) <= Total(CollateralEscrow, MaxUint96)
    BY <1>2, EscrowType DEF lock
  <2>2. Total(balance, MaxUint96) \in Nat /\ Total(collateralBalance, MaxUint96) \in Nat
    BY Constants, AccountFinite, TotalBounds DEF IInv, TypeOK
  <2>3. QED BY <1>6, <2>1, <2>2
<1>15. /\ Total(EthEscrow', MaxUint96) = Total(EthEscrow, MaxUint96) - refund
       /\ Total(CollateralEscrow', MaxUint96)
            = Total(CollateralEscrow, MaxUint96) - lock.collateral
  <2>1. /\ Total(EthEscrow', MaxUint96)
             = Total(EthEscrow, MaxUint96) - EthEscrowOf(requestLocks[id])
                 + EthEscrowOf(requestLocks'[id])
        /\ Total(CollateralEscrow', MaxUint96)
             = Total(CollateralEscrow, MaxUint96) - CollateralEscrowOf(requestLocks[id])
                 + CollateralEscrowOf(requestLocks'[id])
    BY <1>2, <1>9, EscrowUpdate
  <2>2. /\ EthEscrowOf(requestLocks[id]) = refund /\ EthEscrowOf(requestLocks'[id]) = 0
        /\ CollateralEscrowOf(requestLocks[id]) = lock.collateral
        /\ CollateralEscrowOf(requestLocks'[id]) = 0
    BY <1>6, <1>9, <1>10 DEF lock
  <2>3. refund \in Int /\ lock.collateral \in Int
    BY <1>3, <1>6, Constants
  <2>4. QED BY <1>14, <2>1, <2>2, <2>3
<1>16. /\ balance' \in [Account -> 0..MaxUint96]
       /\ Total(balance', MaxUint96) = Total(balance, MaxUint96) + refund
  <2>1. /\ balance \in [Account -> 0..MaxUint96]
        /\ balance[ClientOf(id)] \in 0..MaxUint96
    BY <1>11 DEF IInv, TypeOK
  <2>2. DOMAIN balance' = Account /\ balance'[ClientOf(id)] = balance[ClientOf(id)] + refund
    BY <1>1, <1>11, <2>1 DEF Credit
  <2>3. balance[ClientOf(id)] + refund \in 0..MaxUint96 /\ refund \in Int
    BY <1>1, <1>6, <1>11, <2>1, <2>2, Constants DEF FitsUint96
  <2>4. QED BY <1>1, <1>11, <2>1, <2>3, AccountFinite, CreditTotal
<1>17. /\ collateralBalance' \in [Account -> 0..MaxUint96]
       /\ Total(collateralBalance', MaxUint96)
            = Total(collateralBalance, MaxUint96) + transfer
       /\ transfer = lock.collateral - burn
  <2>1. /\ collateralBalance \in [Account -> 0..MaxUint96]
        /\ collateralBalance[recipient] \in 0..MaxUint96
    BY <1>11 DEF IInv, TypeOK
  <2>2. /\ DOMAIN collateralBalance' = Account
        /\ collateralBalance'[recipient] = collateralBalance[recipient] + transfer
    BY <1>1, <1>11, <2>1 DEF Credit
  <2>3. transfer \in Nat /\ transfer = lock.collateral - burn
    BY <1>3, <1>7, Constants DEF transfer
  <2>4. collateralBalance[recipient] + transfer \in 0..MaxUint96
    BY <1>1, <1>11, <2>1, <2>2, <2>3, Constants DEF FitsUint96
  <2>5. transfer \in Int
    BY <2>3
  <2>6. QED BY <1>1, <1>11, <2>1, <2>3, <2>4, <2>5, AccountFinite, CreditTotal
<1>18. EthSolvency' /\ CollateralSolvency' /\ SupplyInv'
  <2>1. /\ refund \in Int /\ lock.collateral \in Int /\ burn \in Int
        /\ tokenHeld \in Int /\ burned \in Int /\ TokenSupply \in Int
    BY <1>3, <1>6, <1>7, Constants, Limits DEF IInv, TypeOK
  <2>2. QED BY <1>1, <1>14, <1>15, <1>16, <1>17, <2>1
            DEF IInv, EthSolvency, CollateralSolvency, SupplyInv
<1>19. TypeOK'
  <2>1. /\ burn \in Nat /\ burn <= lock.collateral /\ lock.collateral \in Nat
        /\ tokenHeld \in Nat /\ burned \in Nat /\ TokenSupply \in Nat
    BY <1>3, <1>7, Constants, Limits DEF IInv, TypeOK
  <2>2. tokenHeld' \in 0..TokenSupply /\ burned' \in 0..TokenSupply
    BY <1>1, <1>14, <2>1 DEF IInv, CollateralSolvency, SupplyInv
  <2>3. QED BY <1>1, <1>9, <1>13, <1>16, <1>17, <2>2 DEF IInv, TypeOK
<1>20. ASSUME NEW x \in RequestId PROVE LockInv(x)' /\ ChargeInv(x)'
  <2>1. LockInv(x) /\ ChargeInv(x)
    BY DEF IInv
  <2>2. CASE x # id
    BY <1>1, <1>9, <1>13, <2>1, <2>2, IdInvFrame
  <2>3. CASE x = id
    <3>1. /\ requestLocks'[x] = new /\ IsLocked(x)' /\ payments'[x] = payments[id]
          /\ IsFulfilled(x)' = IsFulfilled(id) /\ now' = now
          /\ charged'[x] = charged[id] - refund
      BY <1>1, <1>5, <1>9, <1>13, <2>3 DEF IsLocked, IsFulfilled
    <3>2. /\ DURING \notin new.requestLockFlags
          /\ AFTER \in new.requestLockFlags <=> AFTER \in lock.requestLockFlags
      BY <1>4, <1>8 DEF DURING, AFTER, SLASHED
    <3>3. IsProverPaid(new) <=> IsProverPaidAfterLockDeadline(lock)
      BY <3>2 DEF IsProverPaid, IsProverPaidBeforeLockDeadline, IsProverPaidAfterLockDeadline
    <3>4. IsProverPaid(lock) <=> IsProverPaidAfterLockDeadline(lock)
      BY <1>4 DEF IsProverPaid, IsProverPaidBeforeLockDeadline,
                  IsProverPaidAfterLockDeadline, DURING, AFTER
    <3>5. LockInv(x)'
      <4>1. IsProverPaid(lock) => IsFulfilled(id)
        BY <1>2 DEF LockInv, lock
      <4>2. AFTER \in lock.requestLockFlags => lock.prover \in Address
        BY <1>2 DEF LockInv, lock
      <4>3. QED BY <1>5, <1>8, <3>1, <3>2, <3>3, <3>4, <4>1, <4>2 DEF LockInv
    <3>6. ChargeInv(x)'
      <4>1. /\ IsProverPaid(lock) => payments[id] = 1
            /\ ~IsProverPaid(lock) => payments[id] = 0
        BY <1>2, <1>5 DEF ChargeInv, lock
      <4>2. QED BY <1>8, <1>12, <3>1, <3>3, <3>4, <4>1 DEF ChargeInv
    <3>7. QED BY <3>5, <3>6
  <2>4. QED BY <2>2, <2>3
<1>21. QED BY <1>18, <1>19, <1>20 DEF IInv

-----------------------------------------------------------------------------
(* The theorems                                                            *)

\* Every transaction of the market preserves the inductive invariant.
LEMMA NextInv == IInv /\ [Next]_vars => IInv'
<1> SUFFICES ASSUME IInv, [Next]_vars PROVE IInv'
  OBVIOUS
<1>1. CASE Tick
  BY <1>1, TickStep
<1>2. ASSUME NEW to \in Account, NEW value \in 1..MaxUint96, Deposit(to, value)
      PROVE  IInv'
  BY <1>2, DepositStep
<1>3. ASSUME NEW a \in Address, NEW value \in 1..MaxUint96,
             \/ Withdraw(a, value)
             \/ DepositCollateral(a, value) \/ WithdrawCollateral(a, value)
      PROVE  IInv'
  BY <1>3, WithdrawStep, DepositCollateralStep, WithdrawCollateralStep
<1>4. ASSUME NEW request \in Request, NEW prover \in Address, LockRequest(request, prover)
      PROVE  IInv'
  BY <1>4, LockRequestStep
<1>5. ASSUME NEW request \in Request, NEW prover \in Address,
             NEW priced \in BOOLEAN, NEW withdraw \in BOOLEAN,
             Fulfill(request, prover, priced, withdraw)
      PROVE  IInv'
  BY <1>5, FulfillExpiredStep, FulfillAndPayLockedStep, FulfillAndPayWasLockedStep,
     FulfillAndPayNeverLockedStep DEF Fulfill
<1>6. ASSUME NEW id \in RequestId, Slash(id) PROVE IInv'
  BY <1>6, SlashStep
<1>7. CASE UNCHANGED vars
  <2> USE <1>7 DEF vars, accountVars, flagVars, holdingVars, historyVars
  <2>1. TypeOK'
    BY DEF IInv, TypeOK
  <2>2. EthEscrow' = EthEscrow /\ CollateralEscrow' = CollateralEscrow
    BY EscrowFrame
  <2>3. EthSolvency' /\ CollateralSolvency' /\ SupplyInv'
    BY <2>2 DEF IInv, EthSolvency, CollateralSolvency, SupplyInv
  <2>4. ASSUME NEW id \in RequestId PROVE LockInv(id)' /\ ChargeInv(id)'
    BY IdInvFrame DEF IInv
  <2>5. QED BY <2>1, <2>3, <2>4 DEF IInv
<1>8. QED BY <1>1, <1>2, <1>3, <1>4, <1>5, <1>6, <1>7 DEF Next

\* The inductive invariant holds in every reachable state.
LEMMA Invariance == Spec => []IInv
  BY InitInv, NextInv, PTL DEF Spec

\* Balances, flags, locks and holdings keep their types and widths: no uint96
\* of an account or a lock is exceeded by any sequence of transactions.
THEOREM TypeCorrect == Spec => []TypeOK
<1>1. IInv => TypeOK
  BY DEF IInv
<1>2. QED BY <1>1, Invariance, PTL

\* The contract always holds exactly the Ether it owes to the accounts and to
\* the locks nobody was paid for.
THEOREM EthIsConserved == Spec => []EthSolvency
<1>1. IInv => EthSolvency
  BY DEF IInv
<1>2. QED BY <1>1, Invariance, PTL

\* And exactly the collateral tokens, across burns, rewards and the treasury.
THEOREM CollateralIsConserved == Spec => []CollateralSolvency
<1>1. IInv => CollateralSolvency
  BY DEF IInv
<1>2. QED BY <1>1, Invariance, PTL

\* A paid lock has its fulfilled flag set, and a lock with flags is locked.
THEOREM PaymentFollowsDelivery == Spec => []PaidImpliesFulfilled
<1>1. IInv => PaidImpliesFulfilled
  <2> SUFFICES ASSUME IInv, NEW id \in RequestId
               PROVE  /\ IsProverPaid(requestLocks[id]) => IsFulfilled(id)
                      /\ requestLocks[id].requestLockFlags # {} => IsLocked(id)
    BY DEF PaidImpliesFulfilled
  <2>1. QED BY DEF IInv, LockInv, ZeroLock
<1>2. QED BY <1>1, Invariance, PTL

\* Payment in time excludes a late payment and a slashing for ever.
THEOREM InTimePaymentIsFinal == Spec => []PaidInTimeIsFinal
<1>1. IInv => PaidInTimeIsFinal
  BY DEF IInv, LockInv, PaidInTimeIsFinal, IsProverPaidBeforeLockDeadline
<1>2. QED BY <1>1, Invariance, PTL

\* At most one payment is transferred for a request id, by whatever mixture of
\* lock, fulfillment, re-pricing and slashing.
THEOREM NoDoublePayment == Spec => []AtMostOnePayment
<1>1. IInv => AtMostOnePayment
  BY DEF IInv, ChargeInv, AtMostOnePayment
<1>2. QED BY <1>1, Invariance, PTL

\* A client stays charged only for a price in escrow or paid to a prover.
THEOREM ChargesArePaidFor == Spec => []ChargedOnlyForPayment
<1>1. IInv => ChargedOnlyForPayment
  <2> SUFFICES ASSUME IInv, NEW id \in RequestId, charged[id] > 0
               PROVE  \/ payments[id] = 1
                      \/ IsLocked(id) /\ requestLocks[id].requestLockFlags = {}
    BY DEF ChargedOnlyForPayment
  <2>1. ChargeInv(id) /\ LockInv(id)
    BY DEF IInv
  <2>2. CASE ~IsLocked(id) \/ IsProverPaid(requestLocks[id])
    BY <2>1, <2>2 DEF ChargeInv
  <2>3. CASE IsLocked(id) /\ ~IsProverPaid(requestLocks[id])
    <3>1. charged[id] = requestLocks[id].price
      BY <2>1, <2>3 DEF ChargeInv
    <3>2. requestLocks[id].requestLockFlags = {SLASHED} => requestLocks[id].price = 0
      BY <2>1 DEF LockInv
    <3>3. requestLocks[id].requestLockFlags = {} \/ requestLocks[id].requestLockFlags = {SLASHED}
      BY <2>3, UnpaidLock
    <3>4. QED BY <2>3, <3>1, <3>2, <3>3
  <2>4. QED BY <2>2, <2>3
<1>2. QED BY <1>1, Invariance, PTL

\* One transaction never takes a flag off a lock: it is locked once only, and
\* the assignment in setProverPaidBeforeLockDeadline meets no slashed lock,
\* because slash waits for the deadline that payment in time must precede.
LEMMA FlagsStep ==
    ASSUME IInv, [Next]_vars, NEW id \in RequestId
    PROVE  requestLocks[id].requestLockFlags \subseteq requestLocks'[id].requestLockFlags
<1> DEFINE Grows == requestLocks[id].requestLockFlags \subseteq requestLocks'[id].requestLockFlags
<1>1. CASE requestLocks' = requestLocks
  BY <1>1
<1>2. ASSUME NEW request \in Request, NEW prover \in Address, LockRequest(request, prover)
      PROVE  Grows
  <2>1. CASE id = IdOf[request]
    <3>1. requestLocks[id] = ZeroLock
      BY <1>2, <2>1 DEF LockRequest, Lockable, IInv, LockInv
    <3>2. requestLocks[id].requestLockFlags = {}
      BY <3>1 DEF ZeroLock
    <3>3. QED BY <3>2
  <2>2. CASE id # IdOf[request]
    BY <1>2, <2>2 DEF LockRequest, IInv, TypeOK
  <2>3. QED BY <2>1, <2>2
<1>3. ASSUME NEW request \in Request, NEW prover \in Address, NEW priced \in BOOLEAN,
             NEW withdraw \in BOOLEAN, Fulfill(request, prover, priced, withdraw)
      PROVE  Grows
  <2> DEFINE lock == requestLocks[IdOf[request]]
  <2>1. /\ requestLocks \in [RequestId -> RequestLock] /\ IdOf[request] \in RequestId
        /\ lock \in RequestLock /\ now \in Nat
    BY OfRequest DEF IInv, TypeOK
  <2>2. CASE /\ requestLocks' = [requestLocks EXCEPT ![IdOf[request]] =
                                   SetProverPaidBeforeLockDeadline(@)]
             /\ ~IsProverPaid(lock) /\ lock.lockDeadline >= now
    <3>1. lock.lockDeadline \in Nat /\ lock.deadlineDelta \in Nat
      BY <2>1, Limits DEF RequestLock
    <3>2. ~(LockedUntil(lock) < now)
      BY <2>1, <2>2, <3>1 DEF LockedUntil
    <3>3. SLASHED \notin lock.requestLockFlags
      BY <2>1, <3>2 DEF IInv, LockInv
    <3>4. lock.requestLockFlags = {}
      BY <2>1, <2>2, <3>3, UnpaidLock
    <3>5. QED BY <2>1, <2>2, <3>4
  <2>3. CASE requestLocks' = [requestLocks EXCEPT ![IdOf[request]] =
                                SetProverPaidAfterLockDeadline(@, prover)]
    <3>1. SetProverPaidAfterLockDeadline(lock, prover).requestLockFlags
             = lock.requestLockFlags \cup {AFTER}
      BY <2>1 DEF SetProverPaidAfterLockDeadline, RequestLock
    <3>2. QED BY <2>1, <2>3, <3>1
  <2>4. CASE requestLocks' = requestLocks
    BY <2>4
  <2>5. QED BY <1>3, <2>2, <2>3, <2>4
            DEF Fulfill, FulfillExpired, FulfillAndPayLocked, FulfillAndPayWasLocked,
                FulfillAndPayNeverLocked, DeliverUnpaid
<1>4. ASSUME NEW x \in RequestId, Slash(x) PROVE Grows
  <2>1. /\ requestLocks \in [RequestId -> RequestLock]
        /\ requestLocks' = [requestLocks EXCEPT ![x] = SetSlashed(@)]
    BY <1>4 DEF Slash, IInv, TypeOK
  <2>2. SetSlashed(requestLocks[x]).requestLockFlags
           = requestLocks[x].requestLockFlags \cup {SLASHED}
    <3>1. [requestLocks[x] EXCEPT !.requestLockFlags = @ \cup {SLASHED}] \in RequestLock
          /\ [requestLocks[x] EXCEPT !.requestLockFlags = @ \cup {SLASHED}].requestLockFlags
               = requestLocks[x].requestLockFlags \cup {SLASHED}
      BY <2>1 DEF RequestLock
    <3>2. QED BY <3>1, ClearSlot1Type DEF SetSlashed
  <2>3. QED BY <2>1, <2>2
<1>5. QED BY <1>1, <1>2, <1>3, <1>4
          DEF Next, Tick, Deposit, Withdraw, DepositCollateral, WithdrawCollateral, vars

\* No payment and no slashing is ever forgotten.
THEOREM FlagsAreMonotone == Spec => LockFlagsGrow
<1>1. IInv /\ [Next]_vars =>
        [\A id \in RequestId :
           requestLocks[id].requestLockFlags \subseteq requestLocks'[id].requestLockFlags]_vars
  BY FlagsStep
<1>2. QED BY <1>1, Invariance, PTL DEF Spec, LockFlagsGrow

=============================================================================
