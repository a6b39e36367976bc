------------------------------- MODULE Broker -------------------------------
(***************************************************************************)
(* The broker (crates/broker): the life of an order from pricing to its    *)
(* delivery, as the services of the broker drive it through one SQLite     *)
(* database.  The services run concurrently and share nothing else; a      *)
(* statement of the database is a step, and so is a transaction.  Two runs *)
(* of statements are one step each: Collect (two queries, and a failure    *)
(* per expired order) and FindAndMonitorProofs (a query, and a failure per *)
(* order without a proof).  What another service does in between to an     *)
(* order they read it can also do right after them, before the aggregator  *)
(* or the monitor acts on that order.                                      *)
(*                                                                         *)
(* What a service has read and not yet acted on is its local state, which  *)
(* a crash of the process loses.                                           *)
(*                                                                         *)
(* The chain is reduced to who locked a request and whether a proof for it *)
(* was delivered (BoundlessMarket has the rest), the prover to a task that *)
(* succeeds or fails.                                                      *)
(***************************************************************************)
EXTENDS Integers, FiniteSets

CONSTANTS
    Request,
    Order,                  \* orders.id: a request and a fulfillment type
    RequestOf,              \* order -> request
    LockOrders,             \* orders of type LockAndFulfill; the others are
                            \* FulfillAfterLockExpire
    Groth16Orders,          \* orders whose proof is compressed, not aggregated
    LockExpiresAt,          \* request -> lock_expires_at()
    ExpiresAt,              \* request -> expires_at()
    MaxConcurrentProofs, MinBatchSize, DeadlineBuffer, GracePeriod,
    MaxSubmissionAttempts,
    Reverts,                \* whether a fulfillment transaction may revert: a
                            \* subset of BOOLEAN
    MaxBatches,             \* bound on the batches created
    MaxTime,                \* bound on the clock
    MaxFaults               \* bound on crashes, restarts, timeouts and calls
                            \* that fail

Batch == 1..MaxBatches

ASSUME BrokerAssumption ==
    /\ IsFiniteSet(Order)
    /\ RequestOf \in [Order -> Request]
    /\ LockOrders \subseteq Order
    /\ Groth16Orders \subseteq Order
    /\ Reverts \subseteq BOOLEAN
    /\ LockExpiresAt \in [Request -> Nat]
    /\ ExpiresAt \in [Request -> Nat]
    /\ {MaxConcurrentProofs, MinBatchSize, DeadlineBuffer, GracePeriod,
        MaxSubmissionAttempts, MaxBatches, MaxTime, MaxFaults} \subseteq Nat

VARIABLES
    now,
    locker,             \* chain: request -> "none", "us" or "other"
    delivered,          \* chain: requests marked fulfilled
    lockTxs,            \* our lock transactions that are not mined yet; live if
                        \* a lock job waits for the receipt
    fulfillTxs,         \* our fulfillment transactions that are not mined yet
    status,             \* orders.status, "absent" without a row
    proofId,            \* orders with a proof_id
    batches,            \* batch -> [status, orders]
    lockedRequests,     \* table locked_requests: request -> prover
    fulfilledRequests   \* table fulfilled_requests

\* Lost in a crash.
VARIABLES
    seen,               \* the picker's order_cache
    cache,              \* the order monitor's two caches
    job,                \* order -> the step its lock job is at
    sessions,           \* proving tasks that have no proof id yet
    monitors,           \* order -> number of tasks that monitor its proof
    agg,                \* the aggregator's step, batch and proofs
    sub,                \* the submitter's step, batch, orders and attempt
    reaping             \* what is left of the reaper's list

\* History, read by no guard.
VARIABLES
    mined,              \* orders in a fulfillment transaction that was mined
    revived,            \* orders that were done or failed and are worked on again
    restarted,          \* the proving service was restarted
    abandoned,          \* orders whose lock job had sent its transaction and
                        \* ended without the outcome, or without recording it
    stranded,           \* batches the submitter dropped before it had written
                        \* what became of them
    faults

chainVars   == <<now, locker, delivered, lockTxs, fulfillTxs>>
dbVars      == <<status, proofId, batches, lockedRequests, fulfilledRequests>>
monitorVars == <<seen, cache, job>>
provingVars == <<sessions, monitors>>
localVars   == <<monitorVars, provingVars, agg, sub, reaping>>
historyVars == <<mined, revived, restarted, abandoned, stranded, faults>>
vars == <<chainVars, dbVars, localVars, historyVars>>

-----------------------------------------------------------------------------

Committed == {"PendingProving", "Proving", "PendingAgg", "Aggregating",
              "SkipAggregation", "PendingSubmission"}
Expirable == Committed \ {"Aggregating"}
OrderStatus == Committed \cup {"absent", "Done", "Failed", "Skipped"}
BatchStatus == {"absent", "Aggregating", "PendingCompression", "Complete",
                "PendingSubmission", "Submitted", "Failed"}

IsLate(o) == o \notin LockOrders
ExpireTimestamp(o) ==
    IF IsLate(o) THEN ExpiresAt[RequestOf[o]] ELSE LockExpiresAt[RequestOf[o]]
LockedBy(o)     == lockedRequests[RequestOf[o]]
HasFulfilled(o) == RequestOf[o] \in fulfilledRequests
IsFulfilled(o)  == RequestOf[o] \in delivered

With(f, S, v) == [x \in DOMAIN f |-> IF x \in S THEN v ELSE f[x]]
InsertSkipped(S) ==
    status' = With(status, {o \in S : status[o] = "absent"}, "Skipped")
InsertAccepted(o) ==
    status' = With(status, {x \in {o} : status[x] \in {"absent", "Skipped"}}, "PendingProving")

Idle == [pc |-> "idle"]
NoBatch == [status |-> "absent", orders |-> {}]

Init ==
    /\ now = 0
    /\ locker = [r \in Request |-> "none"]
    /\ delivered = {}
    /\ lockTxs = {}
    /\ fulfillTxs = {}
    /\ status = [o \in Order |-> "absent"]
    /\ proofId = {}
    /\ batches = [b \in Batch |-> NoBatch]
    /\ lockedRequests = [r \in Request |-> "none"]
    /\ fulfilledRequests = {}
    /\ seen = {} /\ cache = {}
    /\ job = [o \in Order |-> "none"]
    /\ sessions = {}
    /\ monitors = [o \in Order |-> 0]
    /\ agg = Idle /\ sub = Idle
    /\ reaping = {}
    /\ mined = {} /\ revived = {}
    /\ restarted = FALSE /\ abandoned = {} /\ stranded = {}
    /\ faults = 0

Fault == /\ faults < MaxFaults
         /\ faults' = faults + 1

-----------------------------------------------------------------------------
(* The chain                                                               *)

Tick ==
    /\ now < MaxTime
    /\ now' = now + 1
    /\ UNCHANGED <<locker, delivered, lockTxs, fulfillTxs, dbVars, localVars, historyVars>>

Lockable(r) ==
    locker[r] = "none" /\ r \notin delivered /\ now <= LockExpiresAt[r]

OtherLocks(r) ==
    /\ Lockable(r)
    /\ locker' = [locker EXCEPT ![r] = "other"]
    /\ UNCHANGED <<now, delivered, lockTxs, fulfillTxs, dbVars, localVars, historyVars>>

OtherFulfills(r) ==
    /\ r \notin delivered /\ now <= ExpiresAt[r]
    /\ delivered' = delivered \cup {r}
    /\ UNCHANGED <<now, locker, lockTxs, fulfillTxs, dbVars, localVars, historyVars>>

\* Our lock transaction is executed, or reverts.
MineLock(tx) ==
    LET r == RequestOf[tx.order]
    IN
    /\ lockTxs' = lockTxs \ {tx}
    /\ locker' = IF Lockable(r) THEN [locker EXCEPT ![r] = "us"] ELSE locker
    /\ job' = IF ~tx.live THEN job
              ELSE [job EXCEPT ![tx.order] = IF Lockable(r) THEN "locked" ELSE "reverted"]
    /\ UNCHANGED <<now, delivered, fulfillTxs, dbVars, seen, cache, provingVars,
                   agg, sub, reaping, historyVars>>

\* A fulfillment transaction is executed, or reverts as a whole.  A fill of an
\* expired request is skipped without reverting.
MineFulfill(tx, reverted) ==
    /\ tx \in fulfillTxs
    /\ fulfillTxs' = fulfillTxs \ {tx}
    /\ delivered' =
         delivered \cup
         {r \in {RequestOf[o] : o \in tx.orders} : ~reverted /\ now <= ExpiresAt[r]}
    /\ mined' = mined \cup tx.orders
    /\ UNCHANGED <<now, locker, lockTxs, dbVars, localVars, revived, restarted,
                   abandoned, stranded, faults>>

-----------------------------------------------------------------------------
(* Market monitor and order picker                                         *)

LockedEvent(r) ==
    /\ locker[r] # lockedRequests[r]
    /\ lockedRequests' = [lockedRequests EXCEPT ![r] = locker[r]]
    /\ UNCHANGED <<chainVars, status, proofId, batches, fulfilledRequests,
                   localVars, historyVars>>

FulfilledEvent(r) ==
    /\ r \in delivered \ fulfilledRequests
    /\ fulfilledRequests' = fulfilledRequests \cup {r}
    /\ UNCHANGED <<chainVars, status, proofId, batches, lockedRequests,
                   localVars, historyVars>>

\* A late order exists once the lock of another prover was seen.
Discovered(o) == IsLate(o) => LockedBy(o) = "other"

Price(o) ==
    /\ o \notin seen /\ Discovered(o)
    /\ seen' = seen \cup {o}
    /\ \/ InsertSkipped({o}) /\ UNCHANGED cache
       \/ /\ IF IsLate(o) THEN ~HasFulfilled(o) ELSE LockedBy(o) = "none"
          /\ cache' = cache \cup {o}
          /\ UNCHANGED status
    /\ UNCHANGED <<chainVars, proofId, batches, lockedRequests, fulfilledRequests,
                   job, provingVars, agg, sub, reaping, historyVars>>

-----------------------------------------------------------------------------
(* Order monitor                                                           *)

\* get_valid_orders: the orders to skip, and the candidates among the others.
Invalid(o) ==
    IF IsLate(o)
    THEN \/ HasFulfilled(o) \/ ExpireTimestamp(o) < now
         \/ now >= LockExpiresAt[RequestOf[o]] /\ IsFulfilled(o)
    ELSE ExpireTimestamp(o) < now \/ LockedBy(o) = "other"

Candidate(o) ==
    ~Invalid(o) /\ (IsLate(o) => now >= LockExpiresAt[RequestOf[o]])

CapacityMutant ==
    MaxConcurrentProofs - Cardinality({o \in Order : status[o] \in {"PendingProving", "Proving"}})
Capacity == MaxConcurrentProofs - Cardinality({o \in Order : status[o] \in Committed})

\* One block: invalid orders are skipped, and so are those that are too close to
\* their deadline or that there is no gas for; of the other candidates as many
\* as there is capacity for are taken.  The next block waits for their jobs.
MonitorBlock(dropped, chosen) ==
    /\ \A o \in Order : job[o] = "none"
    /\ dropped \cup chosen # {}
    /\ dropped \subseteq cache /\ chosen \subseteq cache \ dropped
    /\ \A o \in cache : Invalid(o) => o \in dropped
    /\ \A o \in chosen : Candidate(o)
    /\ chosen # {} => Cardinality(chosen) <= Capacity
    /\ InsertSkipped(dropped)
    /\ cache' = cache \ dropped
    /\ job' = [o \in Order |-> IF o \notin chosen THEN "none"
                               ELSE IF IsLate(o) THEN "accept" ELSE "lock"]
    /\ UNCHANGED <<chainVars, proofId, batches, lockedRequests, fulfilledRequests,
                   seen, provingVars, agg, sub, reaping, historyVars>>

\* The caches forget an order when it expires.
Evict(o) ==
    /\ o \in cache /\ ExpireTimestamp(o) <= now
    /\ cache' = cache \ {o}
    /\ UNCHANGED <<chainVars, dbVars, seen, job, provingVars, agg, sub, reaping, historyVars>>

EndJob(o) ==
    /\ job' = [job EXCEPT ![o] = "none"]
    /\ cache' = cache \ {o}
    /\ UNCHANGED <<proofId, batches, lockedRequests, fulfilledRequests,
                   seen, provingVars, agg, sub, reaping>>

AcceptLate(o) ==
    /\ job[o] = "accept"
    /\ InsertAccepted(o)
    /\ EndJob(o)
    /\ UNCHANGED <<chainVars, historyVars>>

\* lock_order up to the transaction.  It gives up on an order that is not open,
\* when there is not enough collateral left and when a query fails.
AlreadyLocked(o) ==
    \/ locker[RequestOf[o]] # "none" \/ IsFulfilled(o) \/ now > ExpiresAt[RequestOf[o]]
    \/ LockedBy(o) # "none"

LockOrder(o) ==
    /\ job[o] = "lock"
    /\ \/ /\ InsertSkipped({o})
          /\ EndJob(o)
          /\ UNCHANGED lockTxs
       \/ /\ ~AlreadyLocked(o)
          /\ lockTxs' = lockTxs \cup {[order |-> o, live |-> TRUE]}
          /\ job' = [job EXCEPT ![o] = "sent"]
          /\ UNCHANGED <<dbVars, seen, cache, provingVars, agg, sub, reaping>>
    /\ UNCHANGED <<now, locker, delivered, fulfillTxs, historyVars>>

\* The receipt: its status is checked.
LockSucceededMutant(o) == TRUE
LockSucceededStaleMutant(o) == LockedBy(o) = "us"
LockSucceeded(o) == job[o] = "locked"

LockConfirmed(o) ==
    /\ job[o] \in {"locked", "reverted"}
    /\ IF LockSucceeded(o) THEN InsertAccepted(o) ELSE InsertSkipped({o})
    /\ EndJob(o)
    /\ UNCHANGED <<chainVars, historyVars>>

\* LockTxNotConfirmed, or a query after the receipt that fails (the collateral
\* balance, the block of the lock).  The transaction may have been mined, or may
\* still be.
Abandoned(S) ==
    {[tx EXCEPT !.live = @ /\ tx.order \notin S] : tx \in lockTxs}

LockUnconfirmed(o) ==
    /\ job[o] \in {"sent", "locked"}
    /\ Fault
    /\ InsertSkipped({o})
    /\ EndJob(o)
    /\ lockTxs' = Abandoned({o})
    /\ abandoned' = abandoned \cup {o}
    /\ UNCHANGED <<now, locker, delivered, fulfillTxs, mined, revived, restarted, stranded>>

\* insert_accepted_request fails, which is only logged ("FATAL STAKE AT RISK").
AcceptFails(o) ==
    /\ job[o] \in {"accept", "locked"}
    /\ Fault
    /\ EndJob(o)
    /\ abandoned' = IF job[o] = "locked" THEN abandoned \cup {o} ELSE abandoned
    /\ UNCHANGED <<chainVars, status, mined, revived, restarted, stranded>>

-----------------------------------------------------------------------------
(* Proving service                                                         *)

Fail(S)     == status' = With(status, S, "Failed")
OrderDbRest == <<batches, lockedRequests, fulfilledRequests>>

GetProvingOrderMutant(o) ==
    /\ status[o] \in {"PendingProving", "Proving"}
    /\ status' = [status EXCEPT ![o] = "Proving"]
    /\ sessions' = sessions \cup {o}
    /\ UNCHANGED <<chainVars, proofId, OrderDbRest, monitorVars, monitors, agg,
                   sub, reaping, historyVars>>
GetProvingOrder(o) ==
    /\ status[o] = "PendingProving"
    /\ status' = [status EXCEPT ![o] = "Proving"]
    /\ sessions' = sessions \cup {o}
    /\ UNCHANGED <<chainVars, proofId, OrderDbRest, monitorVars, monitors, agg,
                   sub, reaping, historyVars>>

CreateSession(o) ==
    /\ o \in sessions
    /\ sessions' = sessions \ {o}
    /\ \/ /\ proofId' = proofId \cup {o}
          /\ monitors' = [monitors EXCEPT ![o] = @ + 1]
          /\ UNCHANGED status
       \/ Fail({o}) /\ UNCHANGED <<proofId, monitors>>
    /\ UNCHANGED <<chainVars, OrderDbRest, monitorVars, agg, sub, reaping, historyVars>>

\* The proof is there or has failed, or the order is given up because it expired
\* or somebody else delivered it: timer and notification race the proof.  The
\* new status overwrites whatever is there, unless the statement fails, which is
\* only logged.  When the last look at the chain fails, the request counts as
\* not fulfilled.
Revive(S) == revived' = revived \cup {o \in S : status[o] \notin Committed}

MonitorEnds(o) ==
    /\ monitors[o] > 0
    /\ monitors' = [monitors EXCEPT ![o] = @ - 1]
    /\ \/ Fail({o}) /\ UNCHANGED <<revived, faults>>
       \/ Fault /\ UNCHANGED <<status, revived>>
       \/ /\ IF IsLate(o) /\ IsFulfilled(o) THEN Fault ELSE UNCHANGED faults
          /\ status' = [status EXCEPT ![o] =
                IF o \in Groth16Orders THEN "SkipAggregation" ELSE "PendingAgg"]
          /\ Revive({o})
    /\ UNCHANGED <<chainVars, proofId, OrderDbRest, monitorVars, sessions, agg,
                   sub, reaping, mined, restarted, abandoned, stranded>>

\* find_and_monitor_proofs, when the service starts.
DanglingMutant == {o \in Order : status[o] \in Committed}
Dangling == {o \in Order : status[o] = "Proving"}
FindAndMonitorProofs(running) ==
    /\ Fail(Dangling \ proofId)
    /\ monitors' = [o \in Order |-> IF o \in Dangling \cap proofId
                                    THEN running[o] + 1 ELSE running[o]]

\* A database error restarts the service; the tasks it spawned live on.
ProvingRestart ==
    /\ Fault
    /\ restarted' = TRUE
    /\ FindAndMonitorProofs(monitors)
    /\ UNCHANGED <<chainVars, proofId, OrderDbRest, monitorVars, sessions, agg,
                   sub, reaping, mined, revived, abandoned, stranded>>

-----------------------------------------------------------------------------
(* Aggregator                                                              *)

\* get_current_batch: the open batch, else a new one (none: the bound is hit).
Open(b) == batches[b].status \in {"Aggregating", "PendingCompression"}
CurrentBatch ==
    LET open == {b \in Batch : Open(b)}
        free == {b \in Batch : batches[b].status = "absent"}
    IN  IF open # {} THEN open ELSE {b \in free : \A c \in free : b <= c}

Pending == {o \in Order : status[o] \in {"PendingAgg", "Aggregating"}}
PendingGroth16 == {o \in Order : status[o] = "SkipAggregation"}

DeadlineNear(S) == \E o \in S : ExpireTimestamp(o) - now <= DeadlineBuffer

BatchSize ==
    IF MinBatchSize > MaxConcurrentProofs THEN MaxConcurrentProofs ELSE MinBatchSize

\* check_finalize: size and deadline decide; journal size, fees and age may.
MayFinalize(S, finalize) ==
    IF S = {} THEN ~finalize
    ELSE finalize \/ ~(Cardinality(S) >= BatchSize \/ DeadlineNear(S))

Collect(b, finalize) ==
    LET found == Pending \cup PendingGroth16
        valid == {o \in found : ExpireTimestamp(o) >= now}
    IN
    /\ agg.pc = "idle"
    /\ b \in CurrentBatch /\ batches[b].status # "PendingCompression"
    /\ MayFinalize(batches[b].orders \cup valid, finalize)
    /\ status' = [o \in Order |->
         IF o \in found \ valid THEN "Failed"
         ELSE IF o \in Pending THEN "Aggregating" ELSE status[o]]
    /\ agg' = IF ~finalize /\ valid \cap Pending = {} THEN agg
              ELSE [pc |-> "prove", batch |-> b, orders |-> valid, finalize |-> finalize]
    /\ UNCHANGED <<chainVars, proofId, OrderDbRest, monitorVars, provingVars, sub,
                   reaping, historyVars>>

UpdateBatch(b, orders, finalize) ==
    batches' = [batches EXCEPT
        ![b].orders = @ \cup orders,
        ![b].status = IF finalize THEN "PendingCompression" ELSE "Aggregating"]

\* The assessor and the set builder, and the transaction of update_batch.
AggregateProofs ==
    /\ agg.pc = "prove"
    /\ UpdateBatch(agg.batch, agg.orders, agg.finalize)
    /\ status' = With(status, agg.orders, "PendingSubmission")
    /\ Revive(agg.orders)
    /\ agg' = Idle
    /\ UNCHANGED <<chainVars, proofId, lockedRequests, fulfilledRequests,
                   monitorVars, provingVars, sub, reaping, mined, restarted,
                   abandoned, stranded, faults>>

AggregateFails ==
    /\ agg.pc = "prove"
    /\ agg' = Idle
    /\ UNCHANGED <<chainVars, dbVars, monitorVars, provingVars, sub, reaping, historyVars>>

\* Compression of a finalized batch, also after a restart.
CompressBatch(b) ==
    /\ agg.pc = "idle"
    /\ batches[b].status = "PendingCompression"
    /\ \E s \in {"Complete", "Failed"} : batches' = [batches EXCEPT ![b].status = s]
    /\ UNCHANGED <<chainVars, status, proofId, lockedRequests, fulfilledRequests,
                   localVars, historyVars>>

-----------------------------------------------------------------------------
(* Submitter                                                               *)

SubmitterRest == <<proofId, lockedRequests, fulfilledRequests, monitorVars,
                   provingVars, agg, reaping, revived, restarted, abandoned>>

\* The submitter loops over the attempts, each with all orders of the batch.
GetCompleteBatch(b) ==
    /\ sub.pc = "idle"
    /\ batches[b].status = "Complete"
    /\ sub' = [pc |-> "submit", batch |-> b, orders |-> batches[b].orders, attempt |-> 1]
    /\ batches' = [batches EXCEPT ![b].status = "PendingSubmission"]
    /\ UNCHANGED <<chainVars, status, SubmitterRest, mined, stranded, faults>>

Attempting == sub.pc = "submit" /\ sub.attempt <= MaxSubmissionAttempts
GivingUp   == sub.pc = "submit" /\ sub.attempt > MaxSubmissionAttempts

\* The end of an attempt that failed.
NextAttemptMutant ==
    sub' = IF sub.attempt < MaxSubmissionAttempts
           THEN [sub EXCEPT !.pc = "submit", !.orders = batches[sub.batch].orders,
                            !.attempt = @ + 1]
           ELSE Idle
NextAttempt ==
    sub' = [sub EXCEPT !.pc = "submit", !.orders = batches[sub.batch].orders,
                       !.attempt = @ + 1]

SetBatchFailure ==
    /\ GivingUp
    /\ batches' = [batches EXCEPT ![sub.batch].status = "Failed"]
    /\ sub' = Idle
    /\ UNCHANGED <<chainVars, status, SubmitterRest, mined, stranded, faults>>

AllExpired(S) == \A o \in S : ExpireTimestamp(o) < now

\* Everything expired, or preparing, estimating or sending the transaction
\* fails: none of the orders or all of them are marked failed.
SubmitFails(S) ==
    /\ Attempting
    /\ S \in {{}, sub.orders}
    /\ AllExpired(sub.orders) => S = sub.orders
    /\ Fail(S)
    /\ NextAttempt
    /\ UNCHANGED <<chainVars, batches, SubmitterRest, mined, stranded, faults>>

\* An order whose proof cannot be fetched or encoded is failed and left out.
Submit(left) ==
    /\ Attempting
    /\ ~AllExpired(sub.orders)
    /\ left \subseteq sub.orders
    /\ IF left = {} THEN UNCHANGED faults ELSE Fault
    /\ Fail(left)
    /\ fulfillTxs' = fulfillTxs \cup
         {[batch |-> sub.batch, attempt |-> sub.attempt, orders |-> sub.orders \ left]}
    /\ sub' = [sub EXCEPT !.pc = "sent", !.orders = @ \ left]
    /\ UNCHANGED <<now, locker, delivered, lockTxs, batches, SubmitterRest, mined,
                   stranded>>

TxPending == \E tx \in fulfillTxs : tx.batch = sub.batch /\ tx.attempt = sub.attempt

\* TxnConfirmationError: the transaction may have been mined, or may still be.
SubmitUnconfirmed ==
    /\ sub.pc = "sent"
    /\ Fault
    /\ Fail(sub.orders)
    /\ NextAttempt
    /\ UNCHANGED <<chainVars, batches, SubmitterRest, mined, stranded>>

\* With a receipt, whatever it says, the orders are completed one by one.
ReceiptSeenMutant == TRUE
ReceiptSeen == ~TxPending

Completing == sub.pc \in {"sent", "completing"} /\ ReceiptSeen

SetOrderComplete(o) ==
    /\ Completing
    /\ o \in sub.orders
    /\ status' = [status EXCEPT ![o] = "Done"]
    /\ sub' = [sub EXCEPT !.pc = "completing", !.orders = @ \ {o}]
    /\ UNCHANGED <<chainVars, batches, SubmitterRest, mined, stranded, faults>>

\* The RPC call after a completion fails, and with it the attempt.
CompletionFails ==
    /\ sub.pc = "completing"
    /\ Fault
    /\ NextAttempt
    /\ UNCHANGED <<chainVars, status, batches, SubmitterRest, mined, stranded>>

SetBatchSubmitted ==
    /\ Completing /\ sub.orders = {}
    /\ batches' = [batches EXCEPT ![sub.batch].status = "Submitted"]
    /\ sub' = Idle
    /\ UNCHANGED <<chainVars, status, SubmitterRest, mined, stranded, faults>>

\* Reading the configuration once the batch is taken, set_batch_submitted or
\* set_batch_failure fails: the error ends the service, which is started again
\* and looks for complete batches only.
SubmitterRestarts ==
    /\ \/ sub.pc = "submit" /\ sub.attempt = 1
       \/ Completing /\ sub.orders = {}
       \/ GivingUp
    /\ Fault
    /\ stranded' = stranded \cup {sub.batch}
    /\ sub' = Idle
    /\ UNCHANGED <<chainVars, status, batches, SubmitterRest, mined>>

-----------------------------------------------------------------------------
(* Reaper, and the crash of the process                                    *)

GetExpiredMutant ==
    {o \in Order : /\ status[o] \in Expirable \ {"PendingSubmission"}
                   /\ ExpireTimestamp(o) + GracePeriod < now}
GetExpired ==
    {o \in Order : status[o] \in Expirable /\ ExpireTimestamp(o) + GracePeriod < now}

CheckExpiredOrders ==
    /\ reaping = {}
    /\ GetExpired # {}
    /\ reaping' = GetExpired
    /\ UNCHANGED <<chainVars, dbVars, monitorVars, provingVars, agg, sub, historyVars>>

ReapOrder(o) ==
    /\ o \in reaping
    /\ reaping' = reaping \ {o}
    /\ Fail({o})
    /\ UNCHANGED <<chainVars, proofId, OrderDbRest, monitorVars, provingVars, agg,
                   sub, historyVars>>

\* The process dies and is started again.
Crash ==
    /\ Fault
    /\ lockTxs' = Abandoned(Order)
    /\ abandoned' = abandoned \cup {o \in Order : job[o] \in {"sent", "locked"}}
    /\ stranded' = IF sub.pc = "idle" THEN stranded ELSE stranded \cup {sub.batch}
    /\ seen' = {} /\ cache' = {}
    /\ job' = [o \in Order |-> "none"]
    /\ sessions' = {}
    /\ FindAndMonitorProofs([o \in Order |-> 0])
    /\ agg' = Idle /\ sub' = Idle
    /\ reaping' = {}
    /\ UNCHANGED <<now, locker, delivered, fulfillTxs, proofId, OrderDbRest, mined,
                   revived, restarted>>

-----------------------------------------------------------------------------
(* The specification                                                       *)

OrderMonitor(o) == AcceptLate(o) \/ LockOrder(o) \/ LockConfirmed(o)
Proving(o) == GetProvingOrder(o) \/ CreateSession(o) \/ MonitorEnds(o)
Aggregator ==
    \/ \E b \in Batch : CompressBatch(b) \/ \E finalize \in BOOLEAN : Collect(b, finalize)
    \/ AggregateProofs \/ AggregateFails
Submitter ==
    \/ \E b \in Batch : GetCompleteBatch(b)
    \/ \E S \in SUBSET Order : SubmitFails(S) \/ Submit(S)
    \/ SetBatchSubmitted \/ SetBatchFailure
    \/ \E o \in Order : SetOrderComplete(o)
Reaper == CheckExpiredOrders \/ \E o \in Order : ReapOrder(o)
Chain ==
    \/ \E tx \in lockTxs : MineLock(tx)
    \/ \E tx \in fulfillTxs, reverted \in Reverts : MineFulfill(tx, reverted)

Next ==
    \/ Tick \/ Chain
    \/ \E r \in Request : OtherLocks(r) \/ OtherFulfills(r) \/ LockedEvent(r) \/ FulfilledEvent(r)
    \/ \E o \in Order : Price(o) \/ Evict(o) \/ OrderMonitor(o) \/ Proving(o)
    \/ \E dropped, chosen \in SUBSET Order : MonitorBlock(dropped, chosen)
    \/ Aggregator \/ Submitter \/ Reaper
    \/ \E o \in Order : LockUnconfirmed(o) \/ AcceptFails(o)
    \/ ProvingRestart \/ SubmitUnconfirmed \/ CompletionFails \/ SubmitterRestarts
    \/ Crash

Spec == Init /\ [][Next]_vars

\* Time passes, transactions are mined, and the services' loops turn.
FairSpec ==
    /\ Spec
    /\ WF_vars(Tick) /\ WF_vars(Chain)
    /\ \A o \in Order : WF_vars(OrderMonitor(o)) /\ WF_vars(Proving(o))
    /\ WF_vars(Aggregator) /\ WF_vars(Submitter) /\ WF_vars(Reaper)

-----------------------------------------------------------------------------
(* Properties                                                              *)

BrokerTypeOK ==
    /\ now \in 0..MaxTime
    /\ locker \in [Request -> {"none", "us", "other"}]
    /\ delivered \subseteq Request
    /\ lockTxs \subseteq [order : Order, live : BOOLEAN]
    /\ \A tx \in fulfillTxs :
          tx.batch \in Batch /\ tx.attempt \in 1..MaxSubmissionAttempts /\ tx.orders \subseteq Order
    /\ status \in [Order -> OrderStatus]
    /\ proofId \subseteq Order
    /\ batches \in [Batch -> [status : BatchStatus, orders : SUBSET Order]]
    /\ lockedRequests \in [Request -> {"none", "us", "other"}]
    /\ fulfilledRequests \subseteq delivered
    /\ seen \subseteq Order /\ cache \subseteq Order /\ sessions \subseteq Order
    /\ job \in [Order -> {"none", "accept", "lock", "sent", "locked", "reverted"}]
    /\ monitors \in [Order -> 0..(1 + MaxFaults)]
    /\ agg.pc \in {"idle", "prove"}
    /\ sub.pc \in {"idle", "submit", "sent", "completing"}
    /\ reaping \subseteq Order
    /\ mined \subseteq Order /\ revived \subseteq Order /\ abandoned \subseteq Order
    /\ stranded \subseteq Batch

\* The collateral of an order is never missing: an order of ours that has to be
\* locked is worked on, or was, only if the chain has our lock (lock_order
\* returns Ok only for a lock transaction that succeeded).
CommittedHasOurLock ==
    \A o \in LockOrders :
        status[o] \notin {"absent", "Skipped"} => locker[RequestOf[o]] = "us"

\* And no collateral is forgotten that a lock job has seen through: a request we
\* locked is one that a job is about to accept or has accepted, whatever the
\* market monitor learnt of it and whatever was restarted meanwhile.  The
\* exception is a job that gave up waiting, could not record the lock, or died,
\* after it had sent the transaction.
OurLockIsKnown ==
    \A r \in Request : locker[r] = "us" =>
        \E o \in LockOrders :
            /\ RequestOf[o] = r
            /\ job[o] = "locked" \/ status[o] \notin {"absent", "Skipped"} \/ o \in abandoned

\* The order monitor never takes on more than max_concurrent_proofs orders, the
\* jobs it has running included.  Only an order that was failed or done and whose
\* proof comes all the same, to a task that still watches it, may come on top.
CapacityKept ==
    Cardinality({o \in Order \ revived : status[o] \in Committed \/ job[o] # "none"})
        <= MaxConcurrentProofs

\* An order is done only after a transaction with its fulfillment was mined,
\* through timeouts, retries and batches that are submitted more than once.
DoneWasMined == \A o \in Order : status[o] = "Done" => o \in mined

\* Unless the proving service was restarted, when a second task may watch the
\* same proof, no order is put into two batches, although the reaper, the
\* aggregator and the submitter overwrite each other's status.
InOneBatch ==
    restarted \/ \A b, c \in Batch :
        b # c => batches[b].orders \cap batches[c].orders = {}

\* Every order the broker has committed to is at last done, failed or skipped,
\* and with it the capacity it takes: also after a crash at any point.
OrdersFinish == <>[](\A o \in Order : status[o] \notin Committed)

\* A complete batch is submitted or given up, through failed and unconfirmed
\* attempts and through restarts.  The exception is the batch that the submitter
\* holds when the process dies, or when it cannot read the configuration or write
\* the outcome: such a batch is never taken up again (get_complete_batch).
BatchesFinish ==
    \A b \in Batch :
        batches[b].status = "Complete" ~>
            (batches[b].status \in {"Submitted", "Failed"} \/ b \in stranded)

\* What OrderStatus::Done says: "Order has been completed".  (Does not hold.)
DoneIsDelivered ==
    \A o \in Order : status[o] = "Done" => RequestOf[o] \in delivered

=============================================================================
