------------------------------ MODULE Slasher ------------------------------
(***************************************************************************)
(* The slasher service (crates/slasher) composed with the market contract. *)
(* The service learns of locks from events, in chunks of sealed blocks,    *)
(* keeps them in its database and calls slash once a request has expired.  *)
(*                                                                         *)
(* One block per tick: block number and timestamp are both `now'.  Block   *)
(* `now' is being built, so the node's head is now - 1, and a transaction  *)
(* of the service is executed in block `now'.                              *)
(***************************************************************************)
EXTENDS BoundlessMarket

CONSTANTS
    SkipAddresses,      \* config.skip_addresses: provers never slashed
    MaxBlockRange,      \* config.max_block_range
    Retries,            \* config.retries
    StartingBlock,      \* starting_block, which a deployment gives
    IgnoreLastProcessedBlock,
    MaxFaults           \* bound on RPC errors, database errors and crashes

ASSUME SlasherAssumption ==
    /\ SkipAddresses \subseteq Address
    /\ MaxBlockRange \in Nat \ {0}
    /\ Retries \in Nat
    /\ StartingBlock \in Nat \ {0}
    /\ IgnoreLastProcessedBlock \in BOOLEAN
    /\ MaxFaults \in Nat

VARIABLES
    logs,               \* the events of the contract, with their block
    orders,             \* table orders: id -> deadlines, for the ids it has
    lastBlock,          \* table last_block; 0 when it is empty
    pc,                 \* where the service is; "down" when it exited
    fromBlock, toBlock, \* the chunk in process
    expired,            \* what is left of get_expired_orders' answer
    attempt,            \* consecutive failed attempts
    faults

dbVars      == <<orders, lastBlock>>
slasherVars == <<orders, lastBlock, pc, fromBlock, toBlock, expired, attempt, faults>>
allVars     == <<vars, logs, slasherVars>>

Head == now - 1

SlasherInit ==
    /\ Init
    /\ logs = {}
    /\ orders = << >>
    /\ lastBlock = 0
    /\ pc = "down"
    /\ fromBlock = 0
    /\ toBlock = 0
    /\ expired = {}
    /\ attempt = 0
    /\ faults = 0

-----------------------------------------------------------------------------
(* The market's events                                                     *)

LOCKED    == "RequestLocked"
FULFILLED == "RequestFulfilled"
PSLASHED  == "ProverSlashed"

Log(type, id, prover) == [type |-> type, id |-> id, prover |-> prover, block |-> now]

\* What a market step emits: RequestLocked with a new lock, RequestFulfilled
\* where a path sets the fulfilled bit, ProverSlashed in slash.
Emitted ==
    {Log(LOCKED, id, requestLocks'[id].prover) : id \in
        {i \in RequestId : requestLocks[i].requestDigest # requestLocks'[i].requestDigest}}
    \cup
    {Log(FULFILLED, IdOf[r], Zero) : r \in
        {q \in delivered' : SlotOf(IdOf[q]) \in fulfilledFlag' \ fulfilledFlag}}
    \cup
    {Log(PSLASHED, id, Zero) : id \in
        {i \in RequestId : IsSlashed(requestLocks'[i]) /\ ~IsSlashed(requestLocks[i])}}

\* Anybody's transaction, or time: clients, provers, and other slashers too.
MarketStep ==
    /\ Next
    /\ logs' = logs \cup Emitted
    /\ UNCHANGED slasherVars

-----------------------------------------------------------------------------
(* Start, errors and crashes                                               *)

Exit == /\ pc' = "down"
        /\ UNCHANGED attempt

\* A recoverable error: the chunk is processed again, until the attempts are
\* used up and the service exits.
Retry ==
    \/ attempt + 1 > Retries /\ Exit
    \/ attempt + 1 <= Retries /\ attempt' = attempt + 1 /\ pc' = "idle"

\* Database errors are irrecoverable, RPC errors are not; the process may be
\* killed anywhere.  The service manager starts it again.
Fault == /\ faults < MaxFaults
         /\ faults' = faults + 1
         /\ Exit \/ Retry

\* current_block, a query, a transaction that is not confirmed in time (if it
\* is mined after all, that is a slash of MarketStep), or a kill.
Fails ==
    /\ pc # "down"
    /\ Fault
    /\ UNCHANGED <<vars, logs, dbVars, fromBlock, toBlock, expired>>

StartBlockMutant == IF lastBlock # 0 THEN now ELSE StartingBlock
StartBlock ==
    IF lastBlock # 0 /\ ~IgnoreLastProcessedBlock THEN lastBlock ELSE StartingBlock

Start ==
    /\ pc = "down"
    /\ pc' = "idle"
    /\ fromBlock' = StartBlock
    /\ attempt' = 0
    /\ UNCHANGED <<vars, logs, dbVars, toBlock, expired, faults>>

\* The end of a chunk that starts at block `from'.
ChunkToMutant(from) == from + MaxBlockRange - 1
ChunkTo(from) ==
    IF from + MaxBlockRange - 1 < Head THEN from + MaxBlockRange - 1 ELSE Head

Poll ==
    /\ pc = "idle"
    /\ Head >= fromBlock
    /\ toBlock' = ChunkTo(fromBlock)
    /\ pc' = "locked"
    /\ UNCHANGED <<vars, logs, dbVars, fromBlock, expired, attempt, faults>>

-----------------------------------------------------------------------------
(* process_blocks: a stage that fails may have handled some of its events  *)

Logs(type) == {e \in logs : e.type = type /\ e.block \in fromBlock..toBlock}

Stage(at, next, todo, done) ==
    /\ pc = at
    /\ \/ /\ done = todo
          /\ pc' = next
          /\ UNCHANGED <<attempt, faults>>
       \/ Fault
    /\ UNCHANGED <<vars, logs, lastBlock, fromBlock, toBlock, expired>>

\* The deadlines of the locked request, taken from the event.
OrderOf(id) ==
    LET offer == OfferOf[requestLocks[id].requestDigest]
    IN  [expiresAt |-> Deadline(offer), lockExpiresAt |-> LockDeadline(offer)]

\* add_order, ON CONFLICT DO NOTHING.
AddOrders(ids) ==
    orders' = [id \in DOMAIN orders \cup ids |->
                 IF id \in DOMAIN orders THEN orders[id] ELSE OrderOf(id)]

RemoveOrders(ids) == orders' = [id \in DOMAIN orders \ ids |-> orders[id]]

ProcessLockedEvents ==
    LET todo == {e.id : e \in {l \in Logs(LOCKED) : l.prover \notin SkipAddresses}}
    IN  \E done \in SUBSET todo :
           /\ Stage("locked", "fulfilled", todo, done)
           /\ AddOrders(done)

\* Delivered while the lock was valid: nothing to slash, says the service.
DeliveredInTimeMutant(e) == e.id \in DOMAIN orders
DeliveredInTime(e) ==
    /\ e.id \in DOMAIN orders
    /\ e.block <= orders[e.id].lockExpiresAt

ProcessFulfilledEvents ==
    LET todo == {e.id : e \in {l \in Logs(FULFILLED) : DeliveredInTime(l)}}
    IN  \E done \in SUBSET todo :
           /\ Stage("fulfilled", "slashed", todo, done)
           /\ RemoveOrders(done)

ProcessSlashedEvents ==
    LET todo == {e.id : e \in Logs(PSLASHED)}
    IN  \E done \in SUBSET todo :
           /\ Stage("slashed", "expired", todo, done)
           /\ RemoveOrders(done)

GetExpiredOrdersMutant == {id \in DOMAIN orders : toBlock > orders[id].lockExpiresAt}
GetExpiredOrders == {id \in DOMAIN orders : toBlock > orders[id].expiresAt}

ProcessExpiredRequests ==
    /\ pc = "expired"
    /\ expired' = GetExpiredOrders
    /\ pc' = "slash"
    /\ UNCHANGED <<vars, logs, dbVars, fromBlock, toBlock, attempt, faults>>

-----------------------------------------------------------------------------
(* slash, one request at a time                                            *)

\* The errors after which the order is dropped: is_slashed before the call or
\* after a revert, RequestIsFulfilled, RequestIsNotLocked.
SlashRejectedMutant(id) ==
    \/ IsProverPaidBeforeLockDeadline(requestLocks[id])
    \/ ~IsLocked(id)
SlashRejected(id) ==
    \/ IsSlashed(requestLocks[id])
    \/ IsProverPaidBeforeLockDeadline(requestLocks[id])
    \/ ~IsLocked(id)

\* Any other error keeps the order: RequestIsNotExpired is irrecoverable, the
\* rest is tried again.
SlashRequest ==
    /\ pc = "slash"
    /\ \E id \in expired :
          /\ \/ Slash(id) /\ logs' = logs \cup Emitted
             \/ ~Slashable(id) /\ UNCHANGED <<vars, logs>>
          /\ IF Slashable(id) \/ SlashRejected(id)
             THEN RemoveOrders({id}) /\ UNCHANGED <<pc, attempt>>
             ELSE /\ UNCHANGED orders
                  /\ IF now <= LockedUntil(requestLocks[id]) THEN Exit ELSE Retry
          /\ expired' = expired \ {id}
    /\ UNCHANGED <<lastBlock, fromBlock, toBlock, faults>>

UpdateLastProcessedBlock ==
    /\ pc = "slash"
    /\ expired = {}
    /\ lastBlock' = toBlock
    /\ fromBlock' = toBlock + 1
    /\ attempt' = 0
    /\ pc' = "idle"
    /\ UNCHANGED <<vars, logs, orders, toBlock, expired, faults>>

-----------------------------------------------------------------------------
(* The specification                                                       *)

ServiceStep ==
    \/ Fails \/ Start \/ Poll
    \/ ProcessLockedEvents \/ ProcessFulfilledEvents \/ ProcessSlashedEvents
    \/ ProcessExpiredRequests
    \/ SlashRequest \/ UpdateLastProcessedBlock

SlasherNext == MarketStep \/ ServiceStep

SlasherSpec == SlasherInit /\ [][SlasherNext]_allVars

\* Blocks keep coming and the service keeps running: its loop ticks, and its
\* manager starts it again.  Nobody else has to act, or to call slash.
SlasherFairSpec ==
    /\ SlasherSpec
    /\ WF_allVars(Tick /\ UNCHANGED <<logs, slasherVars>>)
    /\ WF_allVars(ServiceStep)

-----------------------------------------------------------------------------
(* Properties                                                              *)

SlasherTypeOK ==
    /\ TypeOK
    /\ logs \subseteq [type : {LOCKED, FULFILLED, PSLASHED}, id : RequestId,
                       prover : Account \cup {Zero}, block : 1..now]
    /\ DOMAIN orders \subseteq RequestId
    /\ orders \in [DOMAIN orders -> [expiresAt : Nat, lockExpiresAt : Nat]]
    /\ lastBlock \in 0..Head
    /\ pc \in {"down", "idle", "locked", "fulfilled", "slashed", "expired", "slash"}
    /\ fromBlock \in Nat
    /\ toBlock \in 0..Head
    /\ expired \subseteq RequestId
    /\ attempt \in 0..Retries
    /\ faults \in 0..MaxFaults

\* A prover the service does not skip has locked id, since it was deployed.
LockSeen(id, block) ==
    \E e \in logs : /\ e.type = LOCKED /\ e.id = id
                    /\ e.prover \notin SkipAddresses
                    /\ e.block \in StartingBlock..block

\* Somebody's delivery before the lock deadline left the locker unpaid.
DeliveredUnpaidInTime(id) ==
    /\ DURING \notin requestLocks[id].requestLockFlags
    /\ \E e \in logs : /\ e.type = FULFILLED /\ e.id = id
                       /\ e.block <= requestLocks[id].lockDeadline

Settled(id) == requestLocks[id].requestLockFlags \cap {DURING, SLASHED} # {}

\* Through crashes, partial batches, retries and replayed blocks, a lock in a
\* processed block is either settled or still in the table orders: no lock is
\* lost (the stages of process_blocks, their order, and the start block).
\* The exception is what process_fulfilled_events takes for the locker's own
\* delivery.
NoLockForgotten ==
    \A id \in RequestId :
        LockSeen(id, lastBlock) =>
            id \in DOMAIN orders \/ Settled(id) \/ DeliveredUnpaidInTime(id)

\* RequestIsNotExpired, which "should not happen" (lib.rs) and stops the
\* service for good, does not happen: what get_expired_orders answered is
\* past the contract's own deadline, or no longer slashable for another reason.
SlashNeverEarly ==
    pc = "slash" =>
        \A id \in expired : now > LockedUntil(requestLocks[id]) \/ SlashRejected(id)

\* No order stays in the table for ever, whoever settled it and however often
\* its blocks are replayed: a stale one would stop the service with SlashRevert
\* or be tried again for ever.
OrdersDrain == <>[](DOMAIN orders = {})

\* The collateral of a locker that is not skipped is returned or slashed.
LockEventuallySettled ==
    \A id \in RequestId : LockSeen(id, now) ~> Settled(id)

\* The same, but for deliveries by others before the lock deadline.
UndeliveredLockSettled ==
    \A id \in RequestId :
        LockSeen(id, now) ~> Settled(id) \/ DeliveredUnpaidInTime(id)

=============================================================================
