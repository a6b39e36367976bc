--------------------------- MODULE SlasherProofs ---------------------------
(***************************************************************************)
(* Safety of the slasher beside any market: any number of requests, locks, *)
(* blocks, faults and other slashers, and any deployment of the service.   *)
(*                                                                         *)
(* The service reads the chain in chunks and keeps its own copy of it, so  *)
(* the invariant says what the copy knows.  An id of the table orders or   *)
(* of an answer of get_expired_orders has a lock, and its row is what the  *)
(* lock says, because a lock once made keeps its request and its deadlines *)
(* (Kept, Made).  SeenUpTo(b): the locks of the blocks up to b are in the  *)
(* table or need no slashing.  It holds for the last block of the          *)
(* database, for the blocks before the chunk, and, once the locked events  *)
(* are processed, for the chunk itself; all of these are sealed, so that   *)
(* no later event falls into them.                                         *)
(***************************************************************************)
EXTENDS Slasher, MarketPromiseProofs

HasLock(id) == requestLocks[id].requestDigest # Zero

LogInv(e) ==
    /\ e.type = LOCKED => HasLock(e.id)
    /\ e.type = PSLASHED => IsSlashed(requestLocks[e.id])

OrdersMatch == \A id \in DOMAIN orders : HasLock(id) /\ orders[id] = OrderOf(id)

ExpiredLocks == \A id \in expired : HasLock(id) /\ now > LockedUntil(requestLocks[id])

\* Nothing is left to slash, or the service does not mean to.
Cleared(id) == Settled(id) \/ DeliveredUnpaidInTime(id)

SeenUpTo(b) == \A id \in RequestId : LockSeen(id, b) => id \in DOMAIN orders \/ Cleared(id)

\* The blocks up to b are sealed, or before those the service ever reads.
Sealed(b) == b \in Int /\ (b <= Head \/ b < StartingBlock)

Processing == {"fulfilled", "slashed", "expired", "slash"}

SInv ==
    /\ DInv
    /\ SlasherTypeOK
    /\ \A e \in logs : LogInv(e)
    /\ OrdersMatch
    /\ ExpiredLocks
    /\ Sealed(fromBlock - 1)
    /\ SeenUpTo(lastBlock)
    /\ pc # "down" => SeenUpTo(fromBlock - 1)
    /\ pc \in Processing => SeenUpTo(toBlock)

-----------------------------------------------------------------------------
(* What a step of the market does to locks and events                      *)

LEMMA SlasherConstants ==
    /\ MaxBlockRange \in Nat \ {0} /\ Retries \in Nat /\ StartingBlock \in Nat \ {0}
    /\ MaxFaults \in Nat
BY SlasherAssumption

\* Time does not go back.
LEMMA TimeStep ==
    ASSUME DInv, [Next]_vars
    PROVE  now \in Nat /\ now' \in Nat /\ now <= now'
<1>1. now \in Nat
  BY DEF DInv, IInv, TypeOK
<1>2. now' = now \/ now' = now + 1
  <2>1. ASSUME NEW request \in Request, NEW prover \in Address, NEW priced \in BOOLEAN,
               NEW withdraw \in BOOLEAN, Fulfill(request, prover, priced, withdraw)
        PROVE  now' = now
    BY <2>1 DEF Fulfill, FulfillExpired, FulfillAndPayLocked, FulfillAndPayWasLocked,
                FulfillAndPayNeverLocked, DeliverUnpaid
  <2>2. ASSUME NEW request \in Request, NEW prover \in Address, LockRequest(request, prover)
        PROVE  now' = now
    BY <2>2 DEF LockRequest
  <2>3. ASSUME NEW id \in RequestId, Slash(id) PROVE now' = now
    BY <2>3 DEF Slash
  <2>4. QED
    BY <2>1, <2>2, <2>3
    DEF Next, Tick, Deposit, Withdraw, DepositCollateral, WithdrawCollateral, vars
<1>3. QED BY <1>1, <1>2

\* A lock keeps its request and its deadlines, and its flags only grow.
LEMMA LockStep ==
    ASSUME DInv, [Next]_vars, NEW id \in RequestId
    PROVE  /\ HasLock(id) =>
                /\ requestLocks'[id].requestDigest = requestLocks[id].requestDigest
                /\ requestLocks'[id].lockDeadline = requestLocks[id].lockDeadline
                /\ LockedUntil(requestLocks'[id]) = LockedUntil(requestLocks[id])
           /\ ~HasLock(id)' => ~HasLock(id)
           /\ requestLocks[id].requestLockFlags \subseteq requestLocks'[id].requestLockFlags
           /\ requestLocks'[id].requestDigest # requestLocks[id].requestDigest => HasLock(id)'
<1>1. IInv
  BY DEF DInv
<1>2. requestLocks[id].requestLockFlags \subseteq requestLocks'[id].requestLockFlags
  BY <1>1, FlagsStep
<1>3. CASE Kept(id)
  BY <1>2, <1>3 DEF Kept, HasLock
<1>4. CASE Made(id)
  <2>1. PICK request \in Request, prover \in Address :
          /\ LockRequest(request, prover) /\ IdOf[request] = id
          /\ requestLocks'[id].requestDigest = request
    BY <1>4 DEF Made
  <2>2. ~HasLock(id)
    BY <1>1, <2>1 DEF LockRequest, Lockable, IInv, LockInv, ZeroLock, HasLock
  <2>3. request # Zero
    BY OfferFields
  <2>4. QED BY <1>2, <2>1, <2>2, <2>3 DEF HasLock
<1>5. QED
  BY <1>1, <1>3, <1>4, LockChange

EmittedOrNot == logs' = logs \/ logs' = logs \cup Emitted

LogType(t) == [type : {LOCKED, FULFILLED, PSLASHED}, id : RequestId,
               prover : Account \cup {Zero}, block : 1..t]

LEMMA EmittedLogs ==
    ASSUME DInv, [Next]_vars, now >= 1, NEW e \in Emitted
    PROVE  e \in LogType(now) /\ e.block = now /\ LogInv(e)'
<1>0. DInv' /\ now \in Nat
  BY DInvNext, TimeStep
<1>1. CASE \E id \in RequestId : /\ e = Log(LOCKED, id, requestLocks'[id].prover)
                                 /\ requestLocks[id].requestDigest # requestLocks'[id].requestDigest
  <2>1. PICK id \in RequestId :
          /\ e = Log(LOCKED, id, requestLocks'[id].prover)
          /\ requestLocks[id].requestDigest # requestLocks'[id].requestDigest
    BY <1>1
  <2>2. requestLocks'[id].prover \in Account \cup {Zero}
    BY <1>0 DEF DInv, IInv, TypeOK, RequestLock, Account
  <2>3. HasLock(id)'
    BY <2>1, LockStep
  <2>4. QED BY <1>0, <2>1, <2>2, <2>3 DEF Log, LogType, LogInv, LOCKED, PSLASHED, FULFILLED
<1>2. CASE \E r \in delivered' : e = Log(FULFILLED, IdOf[r], Zero)
  <2>1. PICK r \in Request : e = Log(FULFILLED, IdOf[r], Zero)
    BY <1>0, <1>2 DEF DInv, IInv, TypeOK
  <2>2. IdOf[r] \in RequestId
    BY OfferFields
  <2>3. QED BY <1>0, <2>1, <2>2 DEF Log, LogType, LogInv, LOCKED, PSLASHED, FULFILLED
<1>3. CASE \E id \in RequestId : e = Log(PSLASHED, id, Zero) /\ IsSlashed(requestLocks'[id])
  BY <1>0, <1>3 DEF Log, LogType, LogInv, LOCKED, PSLASHED, FULFILLED, IsSlashed
<1>4. QED BY <1>1, <1>2, <1>3 DEF Emitted

LEMMA LogsStep ==
    ASSUME SInv, [Next]_vars, EmittedOrNot
    PROVE  /\ logs \subseteq logs' /\ logs' \subseteq LogType(now')
           /\ \A e \in logs' : LogInv(e)'
           /\ \A e \in logs' \ logs : e.block = now
<1>0. DInv /\ now \in Nat /\ now' \in Nat /\ now <= now' /\ now >= 1
  <2>1. DInv /\ now \in Nat /\ now' \in Nat /\ now <= now'
    BY TimeStep DEF SInv
  <2>2. lastBlock \in 0..(now - 1)
    BY DEF SInv, SlasherTypeOK, Head
  <2>3. QED BY <2>1, <2>2
<1>1. ASSUME NEW e \in logs PROVE e \in LogType(now') /\ LogInv(e)'
  <2>1. e \in LogType(now) /\ e.id \in RequestId /\ LogInv(e)
    BY <1>1 DEF SInv, SlasherTypeOK, LogType
  <2>2. e \in LogType(now')
    BY <1>0, <2>1 DEF LogType
  <2>3. LogInv(e)'
    BY <1>0, <2>1, LockStep DEF LogInv, IsSlashed
  <2>4. QED BY <2>2, <2>3
<1>2. ASSUME NEW e \in Emitted PROVE e \in LogType(now') /\ LogInv(e)' /\ e.block = now
  <2>1. e \in LogType(now) /\ e.block = now /\ LogInv(e)'
    BY <1>0, EmittedLogs
  <2>2. QED BY <1>0, <2>1 DEF LogType
<1>3. QED BY <1>1, <1>2 DEF EmittedOrNot

\* An id that needs no slashing never needs it again.
LEMMA ClearedStays ==
    ASSUME SInv, [Next]_vars, EmittedOrNot, NEW id \in RequestId, HasLock(id), Cleared(id)
    PROVE  Cleared(id)'
<1>1. /\ requestLocks'[id].lockDeadline = requestLocks[id].lockDeadline
      /\ requestLocks[id].requestLockFlags \subseteq requestLocks'[id].requestLockFlags
      /\ logs \subseteq logs'
  BY LockStep, LogsStep DEF SInv
<1>2. QED BY <1>1 DEF Cleared, Settled, DeliveredUnpaidInTime

LEMMA LaterHead ==
    ASSUME NEW b \in Int, NEW m \in Nat, NEW n \in Nat, m <= n, b <= m - 1
    PROVE  b <= n - 1
OBVIOUS

LEMMA LaterInterval ==
    ASSUME NEW m \in Nat, NEW n \in Nat, m <= n, NEW b \in 0..(m - 1)
    PROVE  b \in 0..(n - 1)
OBVIOUS

\* No event is added to a sealed block.
LEMMA SeenStays ==
    ASSUME SInv, [Next]_vars, EmittedOrNot, NEW b, Sealed(b), SeenUpTo(b),
           \A id \in DOMAIN orders \ DOMAIN orders' : Cleared(id)'
    PROVE  Sealed(b)' /\ SeenUpTo(b)'
<1>0. now \in Nat /\ now' \in Nat /\ now <= now' /\ StartingBlock \in Nat
  BY TimeStep, SlasherConstants DEF SInv
<1>1. Sealed(b)'
  <2>1. b \in Int /\ (b <= now - 1 \/ b < StartingBlock)
    BY DEF Sealed, Head
  <2>2. b <= now - 1 => b <= now' - 1
    BY <1>0, <2>1, LaterHead
  <2>3. QED BY <2>1, <2>2 DEF Sealed, Head
<1>2. ASSUME NEW id \in RequestId, LockSeen(id, b)'
      PROVE  HasLock(id) /\ LockSeen(id, b)
  <2>1. PICK e \in logs' : /\ e.type = LOCKED /\ e.id = id /\ e.prover \notin SkipAddresses
                           /\ e.block \in StartingBlock..b
    BY <1>2 DEF LockSeen
  <2>2. e.block # now
    BY <1>0, <2>1 DEF Sealed, Head
  <2>3. e \in logs
    BY <2>2, LogsStep
  <2>4. QED BY <2>1, <2>3 DEF LockSeen, SInv, LogInv
<1>3. ASSUME NEW id \in RequestId, LockSeen(id, b)'
      PROVE  id \in DOMAIN orders' \/ Cleared(id)'
  <2>1. id \in DOMAIN orders \/ Cleared(id)
    BY <1>2, <1>3 DEF SeenUpTo
  <2>2. Cleared(id) => Cleared(id)'
    BY <1>2, <1>3, ClearedStays
  <2>3. QED BY <2>1, <2>2
<1>4. QED BY <1>1, <1>3 DEF SeenUpTo

-----------------------------------------------------------------------------
(* What the service keeps                                                  *)

OrderRow == [expiresAt : Nat, lockExpiresAt : Nat]

LEMMA OrderIsRow ==
    ASSUME DInv, NEW id \in RequestId, HasLock(id)
    PROVE  /\ OrderOf(id) \in OrderRow
           /\ OrderOf(id).expiresAt = LockedUntil(requestLocks[id])
           /\ OrderOf(id).lockExpiresAt = requestLocks[id].lockDeadline
<1>1. /\ requestLocks[id].requestDigest \in Request
      /\ requestLocks[id].lockDeadline = LockDeadline(OfferOf[requestLocks[id].requestDigest])
      /\ LockedUntil(requestLocks[id]) = Deadline(OfferOf[requestLocks[id].requestDigest])
  BY DEF DInv, DigestInv, HasLock
<1>2. QED BY <1>1, OfferFields DEF OrderOf, OrderRow

\* The table after a step: rows of locks, as the chain shows them.
Stored ==
    /\ DOMAIN orders' \subseteq RequestId
    /\ orders' = [id \in DOMAIN orders' |-> orders'[id]]
    /\ \A id \in DOMAIN orders' : HasLock(id) /\ orders'[id] = OrderOf(id)

LEMMA StoredMatches ==
    ASSUME SInv, [Next]_vars, Stored
    PROVE  OrdersMatch' /\ orders' \in [DOMAIN orders' -> OrderRow]
<1>1. ASSUME NEW id \in DOMAIN orders'
      PROVE  HasLock(id)' /\ orders'[id] = OrderOf(id)' /\ orders'[id] \in OrderRow
  <2>1. id \in RequestId /\ HasLock(id) /\ orders'[id] = OrderOf(id) /\ DInv
    BY DEF Stored, SInv
  <2>2. HasLock(id)' /\ OrderOf(id)' = OrderOf(id)
    BY <2>1, LockStep DEF OrderOf
  <2>3. QED BY <2>1, <2>2, OrderIsRow
<1>2. QED BY <1>1 DEF OrdersMatch, Stored

LEMMA OrdersKept == SInv /\ orders' = orders => Stored
BY DEF SInv, SlasherTypeOK, OrdersMatch, Stored

LEMMA OrdersRemoved ==
    ASSUME SInv, NEW ids, RemoveOrders(ids)
    PROVE  Stored /\ DOMAIN orders \ DOMAIN orders' \subseteq ids
BY DEF SInv, SlasherTypeOK, OrdersMatch, Stored, RemoveOrders

LEMMA OrdersAdded ==
    ASSUME SInv, NEW ids \in SUBSET RequestId, \A id \in ids : HasLock(id), AddOrders(ids)
    PROVE  Stored /\ DOMAIN orders' = DOMAIN orders \cup ids
BY DEF SInv, SlasherTypeOK, OrdersMatch, Stored, AddOrders

LEMMA ExpiredStays ==
    ASSUME SInv, [Next]_vars, expired' \subseteq expired
    PROVE  ExpiredLocks'
<1> SUFFICES ASSUME NEW id \in expired PROVE (HasLock(id) /\ now > LockedUntil(requestLocks[id]))'
  BY DEF ExpiredLocks
<1>1. /\ id \in RequestId /\ HasLock(id) /\ now > LockedUntil(requestLocks[id])
      /\ LockedUntil(requestLocks[id]) \in Nat /\ DInv
  <2>1. id \in RequestId /\ HasLock(id) /\ now > LockedUntil(requestLocks[id]) /\ DInv
    BY DEF SInv, SlasherTypeOK, ExpiredLocks
  <2>2. requestLocks[id] \in RequestLock
    BY <2>1 DEF DInv, IInv, TypeOK
  <2>3. QED BY <2>1, <2>2, Limits DEF RequestLock, LockedUntil
<1>2. HasLock(id)' /\ LockedUntil(requestLocks'[id]) = LockedUntil(requestLocks[id])
  BY <1>1, LockStep
<1>3. QED BY <1>1, <1>2, TimeStep

\* What remains to be shown of a step: its program counter and its chunk.
LEMMA ServiceFrame ==
    ASSUME SInv, [Next]_vars, EmittedOrNot, Stored, ExpiredLocks',
           \A id \in DOMAIN orders \ DOMAIN orders' : Cleared(id)',
           lastBlock' \in 0..Head', toBlock' \in 0..Head', fromBlock' \in Nat,
           pc' \in {"down", "idle", "locked", "fulfilled", "slashed", "expired", "slash"},
           expired' \subseteq RequestId, attempt' \in 0..Retries, faults' \in 0..MaxFaults,
           Sealed(fromBlock - 1)', SeenUpTo(lastBlock)',
           pc' # "down" => SeenUpTo(fromBlock - 1)',
           pc' \in Processing => SeenUpTo(toBlock)'
    PROVE  SInv'
<1>1. DInv' /\ OrdersMatch' /\ orders' \in [DOMAIN orders' -> OrderRow]
  BY DInvNext, StoredMatches DEF SInv
<1>2. logs' \subseteq LogType(now') /\ \A e \in logs' : LogInv(e)'
  BY LogsStep
<1>3. SlasherTypeOK'
  BY <1>1, <1>2 DEF SlasherTypeOK, DInv, IInv, Stored, LogType, OrderRow
<1>4. QED BY <1>1, <1>2, <1>3 DEF SInv

\* The blocks the service knows of, when the step does not move them.
LEMMA BlocksKept ==
    ASSUME SInv, [Next]_vars, EmittedOrNot,
           \A id \in DOMAIN orders \ DOMAIN orders' : Cleared(id)'
    PROVE  /\ lastBlock' = lastBlock => lastBlock' \in 0..Head' /\ SeenUpTo(lastBlock)'
           /\ fromBlock' = fromBlock =>
                /\ Sealed(fromBlock - 1)'
                /\ SeenUpTo(fromBlock - 1) => SeenUpTo(fromBlock - 1)'
           /\ toBlock' = toBlock =>
                /\ toBlock' \in 0..Head'
                /\ SeenUpTo(toBlock) => SeenUpTo(toBlock)'
<1>0. /\ now \in Nat /\ now' \in Nat /\ now <= now'
      /\ lastBlock \in 0..(now - 1) /\ toBlock \in 0..(now - 1) /\ fromBlock \in Nat
  BY TimeStep DEF SInv, SlasherTypeOK, Head
<1>1. Sealed(lastBlock) /\ Sealed(toBlock) /\ Sealed(fromBlock - 1) /\ SeenUpTo(lastBlock)
  BY <1>0 DEF SInv, Sealed, Head
<1>2. \A b : Sealed(b) /\ SeenUpTo(b) => Sealed(b)' /\ SeenUpTo(b)'
  BY SeenStays
<1>3. ASSUME lastBlock' = lastBlock PROVE lastBlock' \in 0..Head' /\ SeenUpTo(lastBlock)'
  <2>1. PICK b : b = lastBlock
    OBVIOUS
  <2>2. SeenUpTo(b)'
    BY <1>1, <1>2, <2>1
  <2>3. lastBlock' \in 0..Head'
    BY <1>0, <1>3, LaterInterval DEF Head
  <2>4. QED BY <1>3, <2>1, <2>2, <2>3
<1>4. ASSUME toBlock' = toBlock
      PROVE  toBlock' \in 0..Head' /\ (SeenUpTo(toBlock) => SeenUpTo(toBlock)')
  <2>1. PICK b : b = toBlock
    OBVIOUS
  <2>2. SeenUpTo(b) => SeenUpTo(b)'
    BY <1>1, <1>2, <2>1
  <2>3. toBlock' \in 0..Head'
    BY <1>0, <1>4, LaterInterval DEF Head
  <2>4. QED BY <1>4, <2>1, <2>2, <2>3
<1>5. ASSUME fromBlock' = fromBlock
      PROVE  Sealed(fromBlock - 1)' /\ (SeenUpTo(fromBlock - 1) => SeenUpTo(fromBlock - 1)')
  <2>1. PICK b : b = fromBlock - 1
    OBVIOUS
  <2>2. Sealed(b)'
    <3>1. b \in Int /\ (b <= now - 1 \/ b < StartingBlock)
      BY <1>1, <2>1 DEF Sealed, Head
    <3>2. b <= now - 1 => b <= now' - 1
      BY <1>0, <3>1, LaterHead
    <3>3. QED BY <3>1, <3>2 DEF Sealed, Head
  <2>3. SeenUpTo(b) => SeenUpTo(b)'
    BY <1>1, <1>2, <2>1
  <2>4. QED BY <1>5, <2>1, <2>2, <2>3
<1>6. QED BY <1>3, <1>4, <1>5

-----------------------------------------------------------------------------
(* One lemma per action                                                    *)

LEMMA MarketStepInv == SInv /\ MarketStep => SInv'
<1> SUFFICES ASSUME SInv, MarketStep PROVE SInv'
  OBVIOUS
<1>1. [Next]_vars /\ EmittedOrNot /\ UNCHANGED slasherVars
  BY DEF MarketStep, EmittedOrNot
<1>2. Stored /\ ExpiredLocks'
  BY <1>1, OrdersKept, ExpiredStays DEF slasherVars
<1>3. QED
  BY <1>1, <1>2, BlocksKept, ServiceFrame DEF slasherVars, SInv, SlasherTypeOK

\* Steps of the service that send no transaction.
LEMMA Unsent ==
    UNCHANGED <<vars, logs>> => [Next]_vars /\ EmittedOrNot
BY DEF EmittedOrNot

LEMMA FaultSteps ==
    ASSUME SInv, Fault
    PROVE  pc' \in {"down", "idle"} /\ attempt' \in 0..Retries /\ faults' \in 0..MaxFaults
<1>1. attempt \in 0..Retries /\ faults \in 0..MaxFaults /\ Retries \in Nat /\ MaxFaults \in Nat
  BY SlasherConstants DEF SInv, SlasherTypeOK
<1>2. QED BY <1>1 DEF Fault, Exit, Retry

LEMMA FailsInv == SInv /\ Fails => SInv'
<1> SUFFICES ASSUME SInv, Fails PROVE SInv'
  OBVIOUS
<1>1. /\ [Next]_vars /\ EmittedOrNot /\ pc # "down"
      /\ UNCHANGED <<orders, lastBlock, fromBlock, toBlock, expired>>
  BY Unsent DEF Fails, dbVars
<1>2. pc' \in {"down", "idle"} /\ attempt' \in 0..Retries /\ faults' \in 0..MaxFaults
  BY FaultSteps DEF Fails
<1>3. Stored /\ ExpiredLocks'
  BY <1>1, OrdersKept, ExpiredStays
<1>4. QED
  BY <1>1, <1>2, <1>3, BlocksKept, ServiceFrame DEF SInv, SlasherTypeOK, Processing

\* The service starts at the last block of its database, which it has
\* processed, or at the starting block, before which it knows of no lock.
LEMMA StartInv == SInv /\ Start => SInv'
<1> SUFFICES ASSUME SInv, Start PROVE SInv'
  OBVIOUS
<1>1. /\ [Next]_vars /\ EmittedOrNot /\ pc' = "idle" /\ fromBlock' = StartBlock
      /\ attempt' = 0 /\ UNCHANGED <<vars, logs, orders, lastBlock, toBlock, expired, faults>>
  BY Unsent DEF Start, dbVars
<1>2. Stored /\ ExpiredLocks'
  BY <1>1, OrdersKept, ExpiredStays
<1>3. now \in Nat /\ lastBlock \in 0..(now - 1) /\ StartingBlock \in Nat /\ Retries \in Nat
  BY SlasherConstants, TimeStep, <1>1 DEF SInv, SlasherTypeOK, Head
<1>4. fromBlock' \in Nat /\ (fromBlock' = lastBlock \/ fromBlock' = StartingBlock)
  BY <1>1, <1>3, SlasherConstants DEF StartBlock
<1>5. Sealed(fromBlock - 1)'
  BY <1>1, <1>3, <1>4 DEF Sealed, Head, vars
<1>6. SeenUpTo(fromBlock - 1)'
  <2> SUFFICES ASSUME NEW id \in RequestId, LockSeen(id, fromBlock - 1)'
               PROVE  id \in DOMAIN orders' \/ Cleared(id)'
    BY DEF SeenUpTo
  <2>1. PICK e \in logs : /\ e.type = LOCKED /\ e.id = id /\ e.prover \notin SkipAddresses
                          /\ e.block \in StartingBlock..(fromBlock' - 1)
    BY <1>1 DEF LockSeen
  <2>2. e.block \in StartingBlock..lastBlock
    BY <1>3, <1>4, <2>1
  <2>3. LockSeen(id, lastBlock)
    BY <2>1, <2>2 DEF LockSeen
  <2>4. QED
    BY <1>1, <2>3
    DEF SInv, SeenUpTo, Cleared, Settled, DeliveredUnpaidInTime, vars
<1>7. QED
  BY <1>1, <1>2, <1>3, <1>4, <1>5, <1>6, BlocksKept, ServiceFrame
  DEF SInv, SlasherTypeOK, Processing

LEMMA PollInv == SInv /\ Poll => SInv'
<1> SUFFICES ASSUME SInv, Poll PROVE SInv'
  OBVIOUS
<1>1. /\ [Next]_vars /\ EmittedOrNot /\ pc = "idle" /\ pc' = "locked" /\ Head >= fromBlock
      /\ toBlock' = ChunkTo(fromBlock)
      /\ UNCHANGED <<vars, orders, lastBlock, fromBlock, expired, attempt, faults>>
  BY Unsent DEF Poll, dbVars
<1>2. Stored /\ ExpiredLocks'
  BY <1>1, OrdersKept, ExpiredStays
<1>3. now \in Nat /\ now' = now /\ fromBlock \in Nat /\ MaxBlockRange \in Nat \ {0}
  BY <1>1, SlasherConstants, TimeStep DEF SInv, SlasherTypeOK, vars
<1>4. toBlock' \in 0..Head'
  BY <1>1, <1>3 DEF ChunkTo, Head
<1>5. QED
  BY <1>1, <1>2, <1>4, BlocksKept, ServiceFrame DEF SInv, SlasherTypeOK, Processing

\* A stage of process_blocks, whether it ends or fails on the way.
LEMMA StageSteps ==
    ASSUME SInv, NEW at, NEW next, NEW todo, NEW done, Stage(at, next, todo, done)
    PROVE  /\ [Next]_vars /\ EmittedOrNot /\ pc = at
           /\ UNCHANGED <<vars, logs, lastBlock, fromBlock, toBlock, expired>>
           /\ attempt' \in 0..Retries /\ faults' \in 0..MaxFaults
           /\ (pc' = next /\ done = todo) \/ pc' \in {"down", "idle"}
<1>1. UNCHANGED <<vars, logs, lastBlock, fromBlock, toBlock, expired>> /\ pc = at
  BY DEF Stage
<1>2. CASE done = todo /\ pc' = next /\ UNCHANGED <<attempt, faults>>
  BY <1>1, <1>2, Unsent DEF SInv, SlasherTypeOK
<1>3. CASE Fault
  BY <1>1, <1>3, Unsent, FaultSteps
<1>4. QED BY <1>2, <1>3 DEF Stage

LEMMA ProcessLockedInv == SInv /\ ProcessLockedEvents => SInv'
<1> SUFFICES ASSUME SInv, ProcessLockedEvents PROVE SInv'
  OBVIOUS
<1>1. PICK todo, done :
        /\ todo = {e.id : e \in {l \in Logs(LOCKED) : l.prover \notin SkipAddresses}}
        /\ done \in SUBSET todo
        /\ Stage("locked", "fulfilled", todo, done) /\ AddOrders(done)
  BY DEF ProcessLockedEvents
<1>2. /\ [Next]_vars /\ EmittedOrNot /\ pc = "locked"
      /\ UNCHANGED <<vars, logs, lastBlock, fromBlock, toBlock, expired>>
      /\ attempt' \in 0..Retries /\ faults' \in 0..MaxFaults
      /\ (pc' = "fulfilled" /\ done = todo) \/ pc' \in {"down", "idle"}
  BY <1>1, StageSteps
<1>3. done \subseteq RequestId /\ \A id \in done : HasLock(id)
  <2> SUFFICES ASSUME NEW id \in todo PROVE id \in RequestId /\ HasLock(id)
    BY <1>1
  <2>1. PICK e \in logs : e.type = LOCKED /\ e.id = id
    BY <1>1 DEF Logs
  <2>2. QED BY <2>1 DEF SInv, SlasherTypeOK, LogInv
<1>4. Stored /\ DOMAIN orders' = DOMAIN orders \cup done
  BY <1>1, <1>3, OrdersAdded
<1>5. ExpiredLocks'
  BY <1>2, ExpiredStays
<1>6. pc' = "fulfilled" => SeenUpTo(toBlock)'
  <2> SUFFICES ASSUME pc' = "fulfilled", NEW id \in RequestId, LockSeen(id, toBlock)
               PROVE  id \in DOMAIN orders' \/ Cleared(id)
    BY <1>2 DEF SeenUpTo, LockSeen, Cleared, Settled, DeliveredUnpaidInTime, vars
  <2>1. PICK e \in logs : /\ e.type = LOCKED /\ e.id = id /\ e.prover \notin SkipAddresses
                          /\ e.block \in StartingBlock..toBlock
    BY DEF LockSeen
  <2>2. fromBlock \in Nat /\ toBlock \in Int /\ StartingBlock \in Nat /\ e.block \in Int
    <3>1. toBlock \in 0..(now - 1) /\ fromBlock \in Nat
      BY DEF SInv, SlasherTypeOK, Head
    <3>2. QED BY <2>1, <3>1, SlasherConstants
  <2>3. CASE e.block >= fromBlock
    <3>1. e \in Logs(LOCKED)
      BY <2>1, <2>2, <2>3 DEF Logs
    <3>2. id \in todo
      BY <1>1, <2>1, <3>1
    <3>3. QED BY <1>2, <1>4, <3>2
  <2>4. CASE e.block < fromBlock
    <3>1. e.block \in StartingBlock..(fromBlock - 1)
      BY <2>1, <2>2, <2>4
    <3>2. LockSeen(id, fromBlock - 1)
      BY <2>1, <3>1 DEF LockSeen
    <3>3. QED BY <1>2, <1>4, <3>2 DEF SInv, SeenUpTo
  <2>5. QED BY <2>2, <2>3, <2>4
<1>7. QED
  BY <1>2, <1>4, <1>5, <1>6, BlocksKept, ServiceFrame DEF SInv, SlasherTypeOK, Processing

\* The two stages that remove orders.
LEMMA RemovalInv ==
    ASSUME SInv, NEW at, NEW next, NEW todo, NEW done, done \subseteq todo,
           Stage(at, next, todo, done), RemoveOrders(done),
           <<at, next>> \in {<<"fulfilled", "slashed">>, <<"slashed", "expired">>},
           \A id \in todo \cap DOMAIN orders : Cleared(id)
    PROVE  SInv'
<1>1. /\ [Next]_vars /\ EmittedOrNot /\ pc = at
      /\ UNCHANGED <<vars, logs, lastBlock, fromBlock, toBlock, expired>>
      /\ attempt' \in 0..Retries /\ faults' \in 0..MaxFaults
      /\ pc' = next \/ pc' \in {"down", "idle"}
  BY StageSteps
<1>2. Stored /\ DOMAIN orders \ DOMAIN orders' \subseteq done
  BY OrdersRemoved
<1>3. \A id \in DOMAIN orders \ DOMAIN orders' : Cleared(id)'
  BY <1>1, <1>2 DEF Cleared, Settled, DeliveredUnpaidInTime, vars
<1>4. ExpiredLocks'
  BY <1>1, ExpiredStays
<1>5. pc \in Processing /\ pc # "down"
  BY <1>1 DEF Processing
<1>6. SeenUpTo(fromBlock - 1) /\ SeenUpTo(toBlock)
  BY <1>5 DEF SInv
<1>7. pc' \in {"down", "idle", "locked", "fulfilled", "slashed", "expired", "slash"}
  BY <1>1
<1>8. fromBlock' \in Nat /\ expired' \subseteq RequestId
  BY <1>1 DEF SInv, SlasherTypeOK
<1>9. /\ lastBlock' \in 0..Head' /\ SeenUpTo(lastBlock)' /\ toBlock' \in 0..Head'
      /\ Sealed(fromBlock - 1)' /\ SeenUpTo(fromBlock - 1)' /\ SeenUpTo(toBlock)'
  BY <1>1, <1>3, <1>6, BlocksKept
<1>10. QED
  BY <1>1, <1>2, <1>3, <1>4, <1>7, <1>8, <1>9, ServiceFrame

LEMMA ProcessFulfilledInv == SInv /\ ProcessFulfilledEvents => SInv'
<1> SUFFICES ASSUME SInv, ProcessFulfilledEvents PROVE SInv'
  OBVIOUS
<1>1. PICK todo, done :
        /\ todo = {e.id : e \in {l \in Logs(FULFILLED) : DeliveredInTime(l)}}
        /\ done \in SUBSET todo
        /\ Stage("fulfilled", "slashed", todo, done) /\ RemoveOrders(done)
  BY DEF ProcessFulfilledEvents
<1>2. ASSUME NEW id \in todo PROVE Cleared(id)
  <2>1. PICK e \in logs : /\ e.type = FULFILLED /\ e.id = id
                          /\ id \in DOMAIN orders /\ e.block <= orders[id].lockExpiresAt
    BY <1>1, <1>2 DEF Logs, DeliveredInTime
  <2>2. id \in RequestId /\ HasLock(id) /\ orders[id] = OrderOf(id) /\ DInv
    BY <2>1 DEF SInv, SlasherTypeOK, OrdersMatch
  <2>3. e.block <= requestLocks[id].lockDeadline
    BY <2>1, <2>2, OrderIsRow
  <2>4. QED BY <2>1, <2>3 DEF Cleared, Settled, DeliveredUnpaidInTime
<1>3. QED BY <1>1, <1>2, RemovalInv

LEMMA ProcessSlashedInv == SInv /\ ProcessSlashedEvents => SInv'
<1> SUFFICES ASSUME SInv, ProcessSlashedEvents PROVE SInv'
  OBVIOUS
<1>1. PICK todo, done :
        /\ todo = {e.id : e \in Logs(PSLASHED)} /\ done \in SUBSET todo
        /\ Stage("slashed", "expired", todo, done) /\ RemoveOrders(done)
  BY DEF ProcessSlashedEvents
<1>2. ASSUME NEW id \in todo PROVE Cleared(id)
  <2>1. PICK e \in logs : e.type = PSLASHED /\ e.id = id
    BY <1>1, <1>2 DEF Logs
  <2>2. SLASHED \in requestLocks[id].requestLockFlags
    BY <2>1 DEF SInv, LogInv, IsSlashed
  <2>3. QED BY <2>2 DEF Cleared, Settled
<1>3. QED BY <1>1, <1>2, RemovalInv

\* The rows of the answer have expired on the chain: the block that was
\* compared is behind the one in which a transaction is executed.
LEMMA ProcessExpiredInv == SInv /\ ProcessExpiredRequests => SInv'
<1> SUFFICES ASSUME SInv, ProcessExpiredRequests PROVE SInv'
  OBVIOUS
<1>1. /\ [Next]_vars /\ EmittedOrNot /\ pc = "expired" /\ pc' = "slash"
      /\ expired' = GetExpiredOrders
      /\ UNCHANGED <<vars, orders, lastBlock, fromBlock, toBlock, attempt, faults>>
  BY Unsent DEF ProcessExpiredRequests, dbVars
<1>2. Stored
  BY <1>1, OrdersKept
<1>3. ASSUME NEW id \in expired'
      PROVE  id \in RequestId /\ HasLock(id) /\ now > LockedUntil(requestLocks[id])
  <2>1. id \in DOMAIN orders /\ toBlock > orders[id].expiresAt
    BY <1>1 DEF GetExpiredOrders
  <2>2. id \in RequestId /\ HasLock(id) /\ orders[id] = OrderOf(id) /\ DInv
    BY <2>1 DEF SInv, SlasherTypeOK, OrdersMatch
  <2>3. /\ OrderOf(id).expiresAt = LockedUntil(requestLocks[id])
        /\ OrderOf(id).expiresAt \in Nat
    BY <2>2, OrderIsRow DEF OrderRow
  <2>4. now \in Nat /\ toBlock \in 0..(now - 1)
    BY <1>1, TimeStep DEF SInv, SlasherTypeOK, Head
  <2>5. QED BY <2>1, <2>2, <2>3, <2>4
<1>4. ExpiredLocks' /\ expired' \subseteq RequestId
  BY <1>1, <1>3 DEF ExpiredLocks, HasLock, vars
<1>5. SeenUpTo(fromBlock - 1) /\ SeenUpTo(toBlock)
  BY <1>1 DEF SInv, Processing
<1>6. QED
  BY <1>1, <1>2, <1>4, <1>5, BlocksKept, ServiceFrame DEF SInv, SlasherTypeOK

LEMMA RetrySteps ==
    ASSUME SInv, Exit \/ Retry
    PROVE  pc' \in {"down", "idle"} /\ attempt' \in 0..Retries
<1>1. attempt \in 0..Retries /\ Retries \in Nat
  BY SlasherConstants DEF SInv, SlasherTypeOK
<1>2. QED BY <1>1 DEF Exit, Retry

LEMMA SlashRequestInv == SInv /\ SlashRequest => SInv'
<1> SUFFICES ASSUME SInv, SlashRequest PROVE SInv'
  OBVIOUS
<1>1. PICK id \in expired :
        /\ \/ Slash(id) /\ logs' = logs \cup Emitted
           \/ ~Slashable(id) /\ UNCHANGED <<vars, logs>>
        /\ \/ /\ Slashable(id) \/ SlashRejected(id)
              /\ RemoveOrders({id}) /\ UNCHANGED <<pc, attempt>>
           \/ UNCHANGED orders /\ (Exit \/ Retry)
        /\ expired' = expired \ {id}
  BY DEF SlashRequest
<1>2. pc = "slash" /\ UNCHANGED <<lastBlock, fromBlock, toBlock, faults>>
  BY DEF SlashRequest
<1>3. id \in RequestId /\ HasLock(id) /\ DInv
  BY DEF SInv, SlasherTypeOK, ExpiredLocks
<1>4. [Next]_vars /\ EmittedOrNot
  BY <1>1, <1>3 DEF Next, EmittedOrNot
<1>5. /\ pc' \in {"down", "idle", "slash"} /\ attempt' \in 0..Retries
      /\ Stored /\ DOMAIN orders \ DOMAIN orders' \subseteq {id}
  <2>1. CASE RemoveOrders({id}) /\ UNCHANGED <<pc, attempt>>
    BY <1>2, <2>1, OrdersRemoved DEF SInv, SlasherTypeOK
  <2>2. CASE UNCHANGED orders /\ (Exit \/ Retry)
    BY <2>2, RetrySteps, OrdersKept
  <2>3. QED BY <1>1, <2>1, <2>2
<1>6. Slashable(id) \/ SlashRejected(id) => Cleared(id)'
  <2>1. ASSUME Slash(id) PROVE SLASHED \in requestLocks'[id].requestLockFlags
    <3>1. requestLocks \in [RequestId -> RequestLock] /\ requestLocks[id] \in RequestLock
      BY <1>3 DEF DInv, IInv, TypeOK
    <3>2. requestLocks'[id] = SetSlashed(requestLocks[id])
      BY <1>3, <2>1, <3>1 DEF Slash
    <3>3. QED BY <3>1, <3>2 DEF SetSlashed, ClearSlot1, RequestLock
  <2>2. ASSUME SlashRejected(id) PROVE Settled(id)
    <3>1. IsLocked(id)
      BY <1>3 DEF DInv, IInv, LockInv, ZeroLock, HasLock
    <3>2. QED
      BY <2>2, <3>1 DEF SlashRejected, Settled, IsSlashed, IsProverPaidBeforeLockDeadline
  <2>3. Settled(id) => Cleared(id)'
    BY <1>3, <1>4, ClearedStays DEF Cleared
  <2>4. Slash(id) => Cleared(id)'
    BY <2>1 DEF Cleared, Settled
  <2>5. QED BY <1>1, <2>2, <2>3, <2>4
<1>7. \A x \in DOMAIN orders \ DOMAIN orders' : Cleared(x)'
  <2>1. CASE Slashable(id) \/ SlashRejected(id)
    BY <1>5, <1>6, <2>1
  <2>2. CASE UNCHANGED orders
    BY <2>2
  <2>3. QED BY <1>1, <2>1, <2>2
<1>8. ExpiredLocks' /\ expired' \subseteq RequestId
  BY <1>1, <1>4, ExpiredStays DEF SInv, SlasherTypeOK
<1>9. SeenUpTo(fromBlock - 1) /\ SeenUpTo(toBlock)
  BY <1>2 DEF SInv, Processing
<1>10. /\ lastBlock' \in 0..Head' /\ SeenUpTo(lastBlock)' /\ toBlock' \in 0..Head'
       /\ Sealed(fromBlock - 1)' /\ SeenUpTo(fromBlock - 1)' /\ SeenUpTo(toBlock)'
  BY <1>2, <1>4, <1>7, <1>9, BlocksKept
<1>11. fromBlock' \in Nat /\ faults' \in 0..MaxFaults
  BY <1>2 DEF SInv, SlasherTypeOK
<1>12. QED
  BY <1>4, <1>5, <1>7, <1>8, <1>10, <1>11, ServiceFrame

LEMMA UpdateLastInv == SInv /\ UpdateLastProcessedBlock => SInv'
<1> SUFFICES ASSUME SInv, UpdateLastProcessedBlock PROVE SInv'
  OBVIOUS
<1>1. /\ [Next]_vars /\ EmittedOrNot /\ pc = "slash" /\ pc' = "idle"
      /\ lastBlock' = toBlock /\ fromBlock' = toBlock + 1 /\ attempt' = 0
      /\ UNCHANGED <<vars, logs, orders, toBlock, expired, faults>>
  BY Unsent DEF UpdateLastProcessedBlock
<1>2. Stored /\ ExpiredLocks'
  BY <1>1, OrdersKept, ExpiredStays
<1>3. /\ now \in Nat /\ now' = now /\ toBlock \in 0..(now - 1) /\ Retries \in Nat
  BY <1>1, TimeStep, SlasherConstants DEF SInv, SlasherTypeOK, Head, vars
<1>4. /\ lastBlock' \in 0..Head' /\ toBlock' \in 0..Head' /\ fromBlock' \in Nat
      /\ fromBlock' - 1 = toBlock /\ attempt' \in 0..Retries
  BY <1>1, <1>3 DEF Head
<1>5. Sealed(fromBlock - 1)'
  <2>1. toBlock \in Int /\ toBlock <= now' - 1
    BY <1>3
  <2>2. QED BY <1>4, <2>1 DEF Sealed, Head
<1>6. SeenUpTo(toBlock)'
  BY <1>1, BlocksKept DEF SInv, Processing
<1>7. SeenUpTo(lastBlock)' /\ SeenUpTo(fromBlock - 1)'
  BY <1>1, <1>4, <1>6
<1>8. QED
  BY <1>1, <1>2, <1>4, <1>5, <1>7, ServiceFrame DEF SInv, SlasherTypeOK, Processing

-----------------------------------------------------------------------------
(* The theorems                                                            *)

LEMMA SlasherInitInv == SlasherInit => SInv
<1> SUFFICES ASSUME SlasherInit PROVE SInv
  OBVIOUS
<1>1. DInv /\ now = 1 /\ logs = {}
  BY DInvInit DEF SlasherInit, Init
<1>2. DOMAIN orders = {} /\ orders \in [{} -> OrderRow]
  <2>1. orders = << >>
    BY DEF SlasherInit
  <2>2. QED BY <2>1
<1>3. SlasherTypeOK
  BY <1>1, <1>2, SlasherConstants
  DEF SlasherInit, SlasherTypeOK, DInv, IInv, Head, OrderRow
<1>4. Sealed(fromBlock - 1)
  BY <1>1 DEF SlasherInit, Sealed, Head
<1>5. \A b : SeenUpTo(b)
  BY <1>1 DEF SeenUpTo, LockSeen
<1>6. QED
  BY <1>1, <1>2, <1>3, <1>4, <1>5 DEF SInv, SlasherInit, OrdersMatch, ExpiredLocks

LEMMA SlasherNextInv == SInv /\ [SlasherNext]_allVars => SInv'
<1> SUFFICES ASSUME SInv, [SlasherNext]_allVars PROVE SInv'
  OBVIOUS
<1>1. CASE UNCHANGED allVars
  <2>1. [Next]_vars /\ EmittedOrNot /\ UNCHANGED slasherVars
    BY <1>1, Unsent DEF allVars
  <2>2. Stored /\ ExpiredLocks'
    BY <2>1, OrdersKept, ExpiredStays DEF slasherVars
  <2>3. QED
    BY <2>1, <2>2, BlocksKept, ServiceFrame DEF slasherVars, SInv, SlasherTypeOK
<1>2. QED
  BY <1>1, MarketStepInv, FailsInv, StartInv, PollInv, ProcessLockedInv, ProcessFulfilledInv,
     ProcessSlashedInv, ProcessExpiredInv, SlashRequestInv, UpdateLastInv
  DEF SlasherNext, ServiceStep

LEMMA AlwaysSInv == SlasherSpec => []SInv
BY SlasherInitInv, SlasherNextInv, PTL DEF SlasherSpec

\* The rows of the service's database are well formed, its blocks are sealed
\* ones, and beside it the market keeps its own types.
THEOREM SlasherTypeCorrect == SlasherSpec => []SlasherTypeOK
<1>1. SInv => SlasherTypeOK
  BY DEF SInv
<1>2. QED BY <1>1, AlwaysSInv, PTL

\* No lock is lost between the chunks of blocks the service processes: not by
\* a crash inside process_blocks, a stage that handled part of its events, a
\* retried chunk, a restart or a replay from the starting block.
THEOREM LocksAreNotForgotten == SlasherSpec => []NoLockForgotten
<1>1. SInv => NoLockForgotten
  BY DEF SInv, SeenUpTo, NoLockForgotten, Cleared
<1>2. QED BY <1>1, AlwaysSInv, PTL

\* The service never sends a slash that the contract rejects with
\* RequestIsNotExpired, the error that would stop it.
THEOREM SlashesAreNotEarly == SlasherSpec => []SlashNeverEarly
<1>1. SInv => SlashNeverEarly
  BY DEF SInv, ExpiredLocks, SlashNeverEarly
<1>2. QED BY <1>1, AlwaysSInv, PTL

=============================================================================
