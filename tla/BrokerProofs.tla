---------------------------- MODULE BrokerProofs ----------------------------
(***************************************************************************)
(* What the broker keeps, for any number of orders, batches, crashes,      *)
(* restarts and timeouts: it works only on orders it holds the lock of; it *)
(* forgets no lock but those whose job ended without learning or recording *)
(* the outcome of its transaction; it calls an order done only after its   *)
(* fulfillment was mined; it does not take on more than it has capacity    *)
(* for, orders that come back apart; and it puts no order into two         *)
(* batches, unless the proving service was restarted.                      *)
(*                                                                         *)
(* The services overwrite the status of an order without looking at it, so *)
(* the argument is about what they hold: every order in the hands of a     *)
(* service, or in a batch, was accepted before (BInv), an accepted order   *)
(* is never unknown again, and only one service has it (PlaceInv).         *)
(***************************************************************************)
EXTENDS Broker, FiniteSetTheorems, TLAPS

Known == {o \in Order : status[o] \notin {"absent", "Skipped"}}

Submitting ==
    [pc : {"submit", "sent", "completing"}, batch : Batch, orders : SUBSET Order,
     attempt : Nat \ {0}]

Types ==
    /\ status \in [Order -> OrderStatus]
    /\ locker \in [Request -> {"none", "us", "other"}]
    /\ batches \in [Batch -> [status : BatchStatus, orders : SUBSET Order]]
    /\ DOMAIN job = Order
    /\ monitors \in [Order -> Nat]
    /\ agg.pc = "prove" => agg.batch \in Batch
    /\ sub.pc # "idle" => sub \in Submitting

\* What a lock job knows.
Jobs ==
    \A o \in LockOrders :
        /\ job[o] # "accept"
        /\ job[o] = "locked" => locker[RequestOf[o]] = "us"

\* What the services hold.
Held ==
    /\ sessions \subseteq Known
    /\ \A o \in Order : monitors[o] > 0 => o \in Known
    /\ agg.pc = "prove" => agg.orders \subseteq Known
    /\ \A b \in Batch : batches[b].orders \subseteq Known
    /\ sub.pc # "idle" => sub.orders \subseteq Known
    /\ reaping \subseteq Known

\* The transaction that the submitter waits for is pending, with the orders it
\* is about to complete, or it was mined.
Receipt ==
    sub.pc \in {"sent", "completing"} =>
        \/ sub.orders \subseteq mined
        \/ \E tx \in fulfillTxs :
              tx.batch = sub.batch /\ tx.attempt = sub.attempt /\ sub.orders \subseteq tx.orders

BInv ==
    /\ Types
    /\ CommittedHasOurLock
    /\ Jobs
    /\ Held
    /\ DoneWasMined
    /\ Receipt

-----------------------------------------------------------------------------
(* How the status of an order changes                                      *)

\* Not at all; overwritten, if it was known; skipped, if there was no row; or
\* accepted, by its job.  Done is written by SetOrderComplete only.
Moves(o) ==
    \/ status'[o] = status[o]
    \/ o \in Known /\ status'[o] \in OrderStatus \ {"absent", "Skipped", "PendingProving", "Done"}
    \/ status[o] = "absent" /\ status'[o] = "Skipped"
    \/ /\ o \notin Known /\ status'[o] = "PendingProving"
       /\ job[o] \in {"accept", "locked"}

StatusMoves ==
    /\ status' \in [Order -> OrderStatus]
    /\ \A o \in Order : Moves(o)

\* The statements of the database that write a status.
LEMMA StatementMoves ==
    ASSUME BInv
    PROVE  /\ status' = status => StatusMoves
           /\ \A S : InsertSkipped(S) => StatusMoves
           /\ \A o \in Order : InsertAccepted(o) /\ job[o] \in {"accept", "locked"} => StatusMoves
           /\ \A S : S \subseteq Known /\ Fail(S) => StatusMoves
           /\ \A S : S \subseteq Known /\ status' = With(status, S, "PendingSubmission") => StatusMoves
           /\ \A o \in Known :
                 \A v \in {"Proving", "SkipAggregation", "PendingAgg"} :
                    status' = [status EXCEPT ![o] = v] => StatusMoves
<1>1. status \in [Order -> OrderStatus]
  BY DEF BInv, Types
<1>2. Known \subseteq Order
  BY DEF Known
<1>3. {"PendingProving", "Proving", "PendingAgg", "SkipAggregation", "PendingSubmission",
       "Failed", "Skipped"} \subseteq OrderStatus
  BY DEF OrderStatus, Committed
<1>4. status' = status => StatusMoves
  BY <1>1 DEF StatusMoves, Moves
<1>5. \A S : InsertSkipped(S) => StatusMoves
  BY <1>1, <1>3 DEF StatusMoves, Moves, InsertSkipped, With
<1>6. ASSUME NEW o \in Order, InsertAccepted(o), job[o] \in {"accept", "locked"}
      PROVE  StatusMoves
  BY <1>1, <1>3, <1>6 DEF StatusMoves, Moves, InsertAccepted, With, Known
<1>7. \A S : S \subseteq Known /\ Fail(S) => StatusMoves
  BY <1>1, <1>3 DEF StatusMoves, Moves, Fail, With
<1>8. \A S : S \subseteq Known /\ status' = With(status, S, "PendingSubmission") => StatusMoves
  BY <1>1, <1>3 DEF StatusMoves, Moves, With
<1>9. ASSUME NEW o \in Known, NEW v \in {"Proving", "SkipAggregation", "PendingAgg"},
             status' = [status EXCEPT ![o] = v]
      PROVE  StatusMoves
  BY <1>1, <1>2, <1>3, <1>9 DEF StatusMoves, Moves
<1> QED
  BY <1>4, <1>5, <1>6, <1>7, <1>8, <1>9

\* What follows: a known order stays known, one that becomes known is locked by
\* us, and no order is done that was not.
LEMMA Moved ==
    ASSUME BInv, StatusMoves
    PROVE  /\ Known \subseteq Known'
           /\ \A o \in LockOrders : o \in Known' => locker[RequestOf[o]] = "us"
           /\ \A o \in Order : status'[o] = "Done" => o \in mined
<1>1. Known' = {o \in Order : status'[o] \notin {"absent", "Skipped"}}
  BY DEF Known
<1>2. \A o \in Order : Moves(o)
  BY DEF StatusMoves
<1>3. Known \subseteq Known'
  BY <1>1, <1>2 DEF Moves, Known
<1>4. ASSUME NEW o \in LockOrders, o \in Known' PROVE locker[RequestOf[o]] = "us"
  <2>1. o \in Order /\ Moves(o) /\ status'[o] \notin {"absent", "Skipped"}
    BY <1>1, <1>2, <1>4, BrokerAssumption
  <2>2. o \in Known => locker[RequestOf[o]] = "us"
    BY DEF BInv, CommittedHasOurLock, Known
  <2>3. status[o] = status'[o] => o \in Known
    BY <2>1 DEF Known
  <2>4. job[o] \in {"accept", "locked"} => locker[RequestOf[o]] = "us"
    BY DEF BInv, Jobs
  <2> QED
    BY <2>1, <2>2, <2>3, <2>4 DEF Moves
<1>5. \A o \in Order : status'[o] = "Done" => o \in mined
  BY <1>2 DEF Moves, BInv, DoneWasMined
<1> QED
  BY <1>3, <1>4, <1>5

\* The two promises follow for a step that takes no lock of ours away.
LEMMA Promises ==
    ASSUME BInv, StatusMoves, mined \subseteq mined',
           \A r \in Request : locker[r] = "us" => locker'[r] = "us"
    PROVE  CommittedHasOurLock' /\ DoneWasMined'
<1>1. CommittedHasOurLock'
  <2> SUFFICES ASSUME NEW o \in LockOrders, status'[o] \notin {"absent", "Skipped"}
               PROVE  locker'[RequestOf[o]] = "us"
    BY DEF CommittedHasOurLock
  <2>1. o \in Order /\ RequestOf[o] \in Request
    BY BrokerAssumption
  <2>2. o \in Known'
    BY <2>1 DEF Known
  <2> QED
    BY <2>1, <2>2, Moved
<1>2. DoneWasMined'
  BY Moved DEF DoneWasMined
<1> QED
  BY <1>1, <1>2

\* What the services hold stays known if they take nothing new.
LEMMA HeldKept ==
    ASSUME BInv, StatusMoves, UNCHANGED <<batches, sessions, monitors, agg, sub, reaping>>
    PROVE  Held'
<1>1. Known \subseteq Known'
  BY Moved
<1> QED
  BY <1>1 DEF BInv, Held

-----------------------------------------------------------------------------
(* One lemma per service                                                   *)

\* The chain: a lock of ours stays ours, and a lock job learns the truth.
LEMMA ChainInv ==
    ASSUME BInv,
           \/ Tick \/ Chain
           \/ \E r \in Request : OtherLocks(r) \/ OtherFulfills(r) \/ LockedEvent(r) \/ FulfilledEvent(r)
    PROVE  BInv' /\ StatusMoves
<1>1. UNCHANGED <<status, batches, sessions, monitors, agg, sub, reaping>>
  BY DEF Tick, Chain, MineLock, MineFulfill, OtherLocks, OtherFulfills, LockedEvent,
         FulfilledEvent, dbVars, localVars, monitorVars, provingVars
<1>2. StatusMoves
  BY <1>1, StatementMoves
<1> DEFINE Goal ==
        /\ mined \subseteq mined'
        /\ locker' \in [Request -> {"none", "us", "other"}]
        /\ \A r \in Request : locker[r] = "us" => locker'[r] = "us"
        /\ DOMAIN job' = Order /\ Jobs'
        /\ Receipt'
<1>3. locker \in [Request -> {"none", "us", "other"}] /\ DOMAIN job = Order /\ Jobs /\ Receipt
  BY DEF BInv, Types
<1>4. ASSUME UNCHANGED <<locker, job, fulfillTxs, mined>> PROVE Goal
  BY <1>1, <1>3, <1>4 DEF Jobs, Receipt
<1>5. ASSUME NEW r \in Request, OtherLocks(r) PROVE Goal
  <2>1. /\ UNCHANGED <<job, fulfillTxs, mined>>
        /\ locker[r] = "none" /\ locker' = [locker EXCEPT ![r] = "other"]
    BY <1>5 DEF OtherLocks, Lockable, localVars, monitorVars, historyVars
  <2>2. \A x \in Request : locker[x] = "us" => locker'[x] = "us"
    BY <1>3, <2>1
  <2>3. Jobs'
    BY <1>3, <2>1, <2>2, BrokerAssumption DEF Jobs
  <2> QED
    BY <1>1, <1>3, <2>1, <2>2, <2>3 DEF Receipt
<1>6. ASSUME NEW tx \in lockTxs, MineLock(tx) PROVE Goal
  <2> DEFINE r == RequestOf[tx.order]
  <2>1. /\ UNCHANGED <<fulfillTxs, mined>>
        /\ locker' = IF Lockable(r) THEN [locker EXCEPT ![r] = "us"] ELSE locker
        /\ job' = IF ~tx.live THEN job
                  ELSE [job EXCEPT ![tx.order] = IF Lockable(r) THEN "locked" ELSE "reverted"]
    BY <1>6 DEF MineLock, historyVars
  <2>2. locker' \in [Request -> {"none", "us", "other"}]
        /\ \A x \in Request : locker[x] = "us" => locker'[x] = "us"
    BY <1>3, <2>1
  <2>3. Jobs'
    <3> SUFFICES ASSUME NEW o \in LockOrders
                 PROVE  job'[o] # "accept" /\ (job'[o] = "locked" => locker'[RequestOf[o]] = "us")
      BY DEF Jobs
    <3>1. o \in Order /\ RequestOf[o] \in Request
      BY BrokerAssumption
    <3>2. job[o] # "accept" /\ (job[o] = "locked" => locker[RequestOf[o]] = "us")
      BY <1>3 DEF Jobs
    <3>3. CASE job'[o] = job[o]
      BY <2>2, <3>1, <3>2, <3>3
    <3>4. CASE job'[o] # job[o]
      <4>1. o = tx.order /\ job'[o] = IF Lockable(r) THEN "locked" ELSE "reverted"
        BY <1>3, <2>1, <3>1, <3>4
      <4> QED
        BY <1>3, <2>1, <3>1, <4>1
    <3> QED
      BY <3>3, <3>4
  <2> QED
    BY <1>1, <1>3, <2>1, <2>2, <2>3 DEF Receipt
<1>7. ASSUME NEW tx \in fulfillTxs, NEW reverted \in Reverts, MineFulfill(tx, reverted)
      PROVE  Goal
  <2>1. /\ UNCHANGED <<locker, job>>
        /\ fulfillTxs' = fulfillTxs \ {tx} /\ mined' = mined \cup tx.orders
    BY <1>7 DEF MineFulfill, localVars, monitorVars
  <2>2. Receipt'
    BY <1>1, <1>3, <2>1 DEF Receipt
  <2> QED
    BY <1>3, <2>1, <2>2 DEF Jobs
<1>8. Goal
  <2>1. Tick \/ (\E r \in Request : OtherFulfills(r) \/ LockedEvent(r) \/ FulfilledEvent(r))
        => UNCHANGED <<locker, job, fulfillTxs, mined>>
    BY DEF Tick, OtherFulfills, LockedEvent, FulfilledEvent, chainVars, localVars,
           monitorVars, historyVars
  <2> QED
    BY <2>1, <1>4, <1>5, <1>6, <1>7 DEF Chain
<1> QED
  BY <1>1, <1>2, <1>3, <1>8, Promises, HeldKept DEF BInv, Types, StatusMoves

\* Picker and order monitor: an order is accepted only by a job that needs no
\* lock, or that has it.
LEMMA OrderMonitorInv ==
    ASSUME BInv,
           \/ \E o \in Order : Price(o) \/ Evict(o) \/ OrderMonitor(o)
           \/ \E o \in Order : LockUnconfirmed(o) \/ AcceptFails(o)
           \/ \E dropped, chosen \in SUBSET Order : MonitorBlock(dropped, chosen)
    PROVE  BInv' /\ StatusMoves
<1>0. /\ locker \in [Request -> {"none", "us", "other"}]
      /\ batches \in [Batch -> [status : BatchStatus, orders : SUBSET Order]]
      /\ DOMAIN job = Order /\ monitors \in [Order -> Nat]
      /\ agg.pc = "prove" => agg.batch \in Batch
      /\ sub.pc # "idle" => sub \in Submitting
      /\ Jobs /\ Receipt
  BY DEF BInv, Types
<1> DEFINE Rest == UNCHANGED <<locker, batches, sessions, monitors, agg, sub, reaping,
                               fulfillTxs, mined>>
           Goal == Rest /\ StatusMoves /\ DOMAIN job' = Order /\ Jobs'
<1>1. ASSUME UNCHANGED <<locker, job>> PROVE DOMAIN job' = Order /\ Jobs'
  BY <1>0, <1>1 DEF Jobs
<1>2. ASSUME NEW o \in Order, NEW v \in {"none", "sent"}, UNCHANGED locker,
             job' = [job EXCEPT ![o] = v]
      PROVE  DOMAIN job' = Order /\ Jobs'
  <2> SUFFICES ASSUME NEW x \in LockOrders
               PROVE  job'[x] # "accept" /\ (job'[x] = "locked" => locker'[RequestOf[x]] = "us")
    BY <1>0, <1>2 DEF Jobs
  <2>1. x \in Order
    BY BrokerAssumption
  <2>2. job'[x] \in {job[x], "none", "sent"}
    BY <1>0, <1>2, <2>1
  <2> QED
    BY <1>0, <1>2, <2>2 DEF Jobs
<1>3. ASSUME NEW o \in Order, Price(o) \/ Evict(o) PROVE Goal
  <2>1. Rest /\ UNCHANGED job
    BY <1>3 DEF Price, Evict, chainVars, dbVars, provingVars, historyVars
  <2>2. (\E S : InsertSkipped(S)) \/ status' = status
    BY <1>3 DEF Price, Evict, dbVars
  <2> QED
    BY <1>1, <2>1, <2>2, StatementMoves
<1>4. ASSUME NEW o \in Order, AcceptLate(o) \/ LockConfirmed(o) PROVE Goal
  <2>1. Rest /\ job' = [job EXCEPT ![o] = "none"]
    BY <1>4 DEF AcceptLate, LockConfirmed, EndJob, chainVars, provingVars, historyVars
  <2>2. (InsertAccepted(o) /\ job[o] \in {"accept", "locked"}) \/ InsertSkipped({o})
    BY <1>4 DEF AcceptLate, LockConfirmed, LockSucceeded
  <2> QED
    BY <1>2, <2>1, <2>2, StatementMoves
<1>5. ASSUME NEW o \in Order, LockOrder(o) \/ LockUnconfirmed(o) \/ AcceptFails(o) PROVE Goal
  <2>1. Rest /\ \E v \in {"none", "sent"} : job' = [job EXCEPT ![o] = v]
    BY <1>5 DEF LockOrder, LockUnconfirmed, AcceptFails, EndJob, chainVars, dbVars, provingVars,
                historyVars
  <2>2. InsertSkipped({o}) \/ status' = status
    BY <1>5 DEF LockOrder, LockUnconfirmed, AcceptFails, dbVars
  <2> QED
    BY <1>2, <2>1, <2>2, StatementMoves
<1>6. ASSUME NEW dropped, NEW chosen, MonitorBlock(dropped, chosen) PROVE Goal
  <2>1. /\ Rest /\ InsertSkipped(dropped)
        /\ job' = [o \in Order |-> IF o \notin chosen THEN "none"
                                   ELSE IF IsLate(o) THEN "accept" ELSE "lock"]
    BY <1>6 DEF MonitorBlock, chainVars, provingVars, historyVars
  <2>2. DOMAIN job' = Order
    BY <2>1
  <2>3. Jobs'
    BY <2>1, BrokerAssumption DEF Jobs, IsLate
  <2> QED
    BY <2>1, <2>2, <2>3, StatementMoves
<1>7. Goal
  BY <1>3, <1>4, <1>5, <1>6 DEF OrderMonitor
<1>8. Types'
  BY <1>0, <1>7 DEF Types, StatusMoves
<1>9. Receipt'
  BY <1>0, <1>7 DEF Receipt
<1>10. CommittedHasOurLock' /\ DoneWasMined'
  BY <1>7, Promises
<1>11. Held'
  BY <1>7, HeldKept
<1> QED
  BY <1>7, <1>8, <1>9, <1>10, <1>11 DEF BInv

\* What the other services leave to show: their own state.
LEMMA ServiceInv ==
    ASSUME BInv, StatusMoves, UNCHANGED <<locker, mined>>,
           \/ UNCHANGED job
           \/ job' = [o \in Order |-> "none"],
           batches' \in [Batch -> [status : BatchStatus, orders : SUBSET Order]],
           monitors' \in [Order -> Nat],
           agg'.pc = "prove" => agg'.batch \in Batch,
           sub'.pc # "idle" => sub' \in Submitting,
           Held', Receipt'
    PROVE  BInv'
<1>1. DOMAIN job' = Order /\ Jobs'
  BY BrokerAssumption DEF BInv, Types, Jobs
<1>2. Types'
  BY <1>1 DEF BInv, Types, StatusMoves
<1>3. CommittedHasOurLock' /\ DoneWasMined'
  BY Promises
<1> QED
  BY <1>1, <1>2, <1>3 DEF BInv

\* The proving service: it takes known orders, and writes only their status.
LEMMA ProvingInv ==
    ASSUME BInv, (\E o \in Order : Proving(o)) \/ ProvingRestart
    PROVE  BInv' /\ StatusMoves
<1>0. /\ batches \in [Batch -> [status : BatchStatus, orders : SUBSET Order]]
      /\ monitors \in [Order -> Nat]
      /\ agg.pc = "prove" => agg.batch \in Batch
      /\ sub.pc # "idle" => sub \in Submitting
      /\ Held /\ Receipt
  BY DEF BInv, Types
<1>1. UNCHANGED <<locker, mined, job, batches, agg, sub, reaping, fulfillTxs>>
  BY DEF Proving, GetProvingOrder, CreateSession, MonitorEnds, ProvingRestart, OrderDbRest,
         chainVars, monitorVars, historyVars
<1>2. Receipt'
  BY <1>0, <1>1 DEF Receipt
<1> DEFINE Goal == /\ StatusMoves
                   /\ monitors' \in [Order -> Nat]
                   /\ sessions' \subseteq Known
                   /\ \A x \in Order : monitors'[x] > 0 => x \in Known
<1>3. ASSUME NEW o \in Order, GetProvingOrder(o) PROVE Goal
  <2>1. o \in Known
    BY <1>3 DEF GetProvingOrder, Known
  <2>2. StatusMoves
    BY <1>3, <2>1, StatementMoves DEF GetProvingOrder
  <2> QED
    BY <1>0, <1>3, <2>1, <2>2 DEF GetProvingOrder, Held
<1>4. ASSUME NEW o \in Order, CreateSession(o) PROVE Goal
  <2>1. o \in Known /\ sessions' \subseteq Known
    BY <1>0, <1>4 DEF CreateSession, Held
  <2>2. StatusMoves
    BY <1>4, <2>1, StatementMoves DEF CreateSession
  <2>3. monitors' = monitors \/ monitors' = [monitors EXCEPT ![o] = @ + 1]
    BY <1>4 DEF CreateSession
  <2> QED
    BY <1>0, <2>1, <2>2, <2>3 DEF Held
<1>5. ASSUME NEW o \in Order, MonitorEnds(o) PROVE Goal
  <2>1. monitors[o] > 0 /\ monitors' = [monitors EXCEPT ![o] = @ - 1] /\ UNCHANGED sessions
    BY <1>5 DEF MonitorEnds
  <2>2. o \in Known
    BY <1>0, <2>1 DEF Held
  <2>3. StatusMoves
    BY <1>5, <2>2, StatementMoves DEF MonitorEnds
  <2>4. monitors' \in [Order -> Nat]
        /\ \A x \in Order : monitors'[x] > 0 => monitors[x] > 0
    BY <1>0, <2>1
  <2> QED
    BY <1>0, <2>1, <2>3, <2>4 DEF Held
<1>6. ASSUME ProvingRestart PROVE Goal
  <2>1. Dangling \subseteq Known
    BY DEF Dangling, Known
  <2>2. UNCHANGED sessions /\ Fail(Dangling \ proofId)
        /\ monitors' = [x \in Order |-> IF x \in Dangling \cap proofId
                                        THEN monitors[x] + 1 ELSE monitors[x]]
    BY <1>6 DEF ProvingRestart, FindAndMonitorProofs
  <2>3. StatusMoves
    BY <2>1, <2>2, StatementMoves
  <2> QED
    BY <1>0, <2>1, <2>2, <2>3 DEF Held
<1>7. Goal
  BY <1>3, <1>4, <1>5, <1>6 DEF Proving
<1>8. Held'
  <2>1. Known \subseteq Known'
    BY <1>7, Moved
  <2> QED
    BY <1>0, <1>1, <1>7, <2>1 DEF Held
<1> QED
  BY <1>0, <1>1, <1>2, <1>7, <1>8, ServiceInv

\* The crash: nothing is held any more, and the proofs that run are watched again.
LEMMA CrashInv ==
    ASSUME BInv, Crash
    PROVE  BInv' /\ StatusMoves
<1>1. /\ UNCHANGED <<locker, mined, batches, fulfillTxs>>
      /\ job' = [o \in Order |-> "none"]
      /\ sessions' = {} /\ reaping' = {} /\ agg'.pc = "idle" /\ sub'.pc = "idle"
      /\ Fail(Dangling \ proofId)
      /\ monitors' = [o \in Order |-> IF o \in Dangling \cap proofId THEN 1 ELSE 0]
  BY DEF Crash, FindAndMonitorProofs, OrderDbRest, Idle
<1>2. Dangling \subseteq Known
  BY DEF Dangling, Known
<1>3. StatusMoves
  BY <1>1, <1>2, StatementMoves
<1>4. Held'
  <2>1. Known \subseteq Known'
    BY <1>3, Moved
  <2> QED
    BY <1>1, <1>2, <2>1 DEF BInv, Held
<1>5. Receipt'
  BY <1>1 DEF Receipt
<1>6. monitors' \in [Order -> Nat]
      /\ batches' \in [Batch -> [status : BatchStatus, orders : SUBSET Order]]
  BY <1>1 DEF BInv, Types
<1> QED
  BY <1>1, <1>3, <1>4, <1>5, <1>6, ServiceInv

\* The reaper's list is of known orders.
LEMMA ReaperInv ==
    ASSUME BInv, Reaper
    PROVE  BInv' /\ StatusMoves
<1>1. UNCHANGED <<locker, mined, job, batches, sessions, monitors, agg, sub, fulfillTxs>>
  BY DEF Reaper, CheckExpiredOrders, ReapOrder, OrderDbRest, chainVars, dbVars, monitorVars,
         provingVars, historyVars
<1>2. GetExpired \subseteq Known
  BY DEF GetExpired, Known, Expirable, Committed
<1>3. StatusMoves /\ reaping' \subseteq Known
  <2>1. CASE CheckExpiredOrders
    BY <1>2, <2>1, StatementMoves DEF CheckExpiredOrders, dbVars
  <2>2. ASSUME NEW o \in Order, ReapOrder(o) PROVE StatusMoves /\ reaping' \subseteq Known
    <3>1. o \in Known /\ reaping' \subseteq Known /\ Fail({o})
      BY <2>2 DEF ReapOrder, BInv, Held
    <3> QED
      BY <3>1, StatementMoves
  <2> QED
    BY <2>1, <2>2 DEF Reaper
<1>4. Held'
  <2>1. Known \subseteq Known'
    BY <1>3, Moved
  <2> QED
    BY <1>1, <1>3, <2>1 DEF BInv, Held
<1>5. Receipt'
  BY <1>1 DEF BInv, Receipt
<1> QED
  BY <1>1, <1>3, <1>4, <1>5, ServiceInv DEF BInv, Types

\* The aggregator: what it collects, and puts into a batch, is known.
LEMMA AggregatorInv ==
    ASSUME BInv, Aggregator
    PROVE  BInv' /\ StatusMoves
<1>0. /\ batches \in [Batch -> [status : BatchStatus, orders : SUBSET Order]]
      /\ monitors \in [Order -> Nat]
      /\ agg.pc = "prove" => agg.batch \in Batch
      /\ sub.pc # "idle" => sub \in Submitting
      /\ status \in [Order -> OrderStatus]
      /\ Held /\ Receipt
  BY DEF BInv, Types
<1>1. UNCHANGED <<locker, mined, job, sessions, monitors, sub, reaping, fulfillTxs>>
  BY DEF Aggregator, Collect, AggregateProofs, AggregateFails, CompressBatch, OrderDbRest,
         chainVars, dbVars, localVars, monitorVars, provingVars, historyVars
<1>2. Receipt'
  BY <1>0, <1>1 DEF Receipt
<1>3. Known \subseteq Order
  BY DEF Known
<1> DEFINE Goal == /\ StatusMoves
                   /\ batches' \in [Batch -> [status : BatchStatus, orders : SUBSET Order]]
                   /\ \A b \in Batch : batches'[b].orders \subseteq Known
                   /\ agg'.pc = "prove" => agg'.batch \in Batch /\ agg'.orders \subseteq Known
<1>4. ASSUME NEW b \in Batch, NEW finalize \in BOOLEAN, Collect(b, finalize) PROVE Goal
  <2> DEFINE found == Pending \cup PendingGroth16
             valid == {o \in found : ExpireTimestamp(o) >= now}
  <2>1. found \subseteq Known
    BY DEF Pending, PendingGroth16, Known
  <2>2. /\ status' = [o \in Order |->
               IF o \in found \ valid THEN "Failed"
               ELSE IF o \in Pending THEN "Aggregating" ELSE status[o]]
        /\ agg' = IF ~finalize /\ valid \cap Pending = {} THEN agg
                  ELSE [pc |-> "prove", batch |-> b, orders |-> valid, finalize |-> finalize]
        /\ UNCHANGED batches
    BY <1>4 DEF Collect, OrderDbRest
  <2>3. {"Failed", "Aggregating"} \subseteq OrderStatus
    BY DEF OrderStatus, Committed
  <2>4. StatusMoves
    <3> SUFFICES ASSUME NEW o \in Order PROVE status'[o] \in OrderStatus /\ Moves(o)
      BY <2>2 DEF StatusMoves
    <3>1. o \in found => o \in Known
      BY <2>1
    <3>2. status'[o] = status[o] \/ (o \in found /\ status'[o] \in {"Failed", "Aggregating"})
      BY <2>2
    <3> QED
      BY <1>0, <2>3, <3>1, <3>2 DEF Moves
  <2>5. agg'.pc = "prove" => agg'.batch \in Batch /\ agg'.orders \subseteq Known
    <3>1. CASE agg' = agg
      BY <1>0, <3>1 DEF Held
    <3>2. CASE agg' = [pc |-> "prove", batch |-> b, orders |-> valid, finalize |-> finalize]
      <4>1. valid \subseteq Known
        BY <2>1
      <4> HIDE DEF valid
      <4> QED
        BY <3>2, <4>1
    <3> QED
      BY <2>2, <3>1, <3>2
  <2> QED
    BY <1>0, <2>2, <2>4, <2>5 DEF Held
<1>5. ASSUME AggregateProofs PROVE Goal
  <2>1. agg.batch \in Batch /\ agg.orders \subseteq Known
    BY <1>0, <1>5 DEF AggregateProofs, Held
  <2>2. /\ batches' = [batches EXCEPT
             ![agg.batch].orders = @ \cup agg.orders,
             ![agg.batch].status = IF agg.finalize THEN "PendingCompression" ELSE "Aggregating"]
        /\ status' = With(status, agg.orders, "PendingSubmission")
        /\ agg'.pc = "idle"
    BY <1>5 DEF AggregateProofs, UpdateBatch, Idle
  <2>3. StatusMoves
    BY <2>1, <2>2, StatementMoves
  <2>4. {"PendingCompression", "Aggregating"} \subseteq BatchStatus
    BY DEF BatchStatus
  <2>5. batches' \in [Batch -> [status : BatchStatus, orders : SUBSET Order]]
    BY <1>0, <1>3, <2>1, <2>2, <2>4
  <2>6. \A b \in Batch : batches'[b].orders \subseteq batches[b].orders \cup agg.orders
    BY <1>0, <2>1, <2>2
  <2> QED
    BY <1>0, <2>1, <2>2, <2>3, <2>5, <2>6 DEF Held
<1>6. ASSUME AggregateFails PROVE Goal
  <2>1. UNCHANGED <<status, batches>> /\ agg'.pc = "idle"
    BY <1>6 DEF AggregateFails, dbVars, Idle
  <2> QED
    BY <1>0, <2>1, StatementMoves DEF Held
<1>7. ASSUME NEW b \in Batch, CompressBatch(b) PROVE Goal
  <2>1. UNCHANGED <<status, agg>>
        /\ \E s \in {"Complete", "Failed"} : batches' = [batches EXCEPT ![b].status = s]
    BY <1>7 DEF CompressBatch, localVars
  <2>2. {"Complete", "Failed"} \subseteq BatchStatus
    BY DEF BatchStatus
  <2>3. /\ batches' \in [Batch -> [status : BatchStatus, orders : SUBSET Order]]
        /\ \A c \in Batch : batches'[c].orders = batches[c].orders
    BY <1>0, <2>1, <2>2
  <2> QED
    BY <1>0, <2>1, <2>3, StatementMoves DEF Held
<1>8. Goal
  BY <1>4, <1>5, <1>6, <1>7 DEF Aggregator
<1>9. Held'
  <2>1. Known \subseteq Known'
    BY <1>8, Moved
  <2> QED
    BY <1>0, <1>1, <1>8, <2>1 DEF Held
<1> QED
  BY <1>0, <1>1, <1>2, <1>8, <1>9, ServiceInv

\* The submitter's own state after a step: a batch of known orders.
SubmitterKeeps ==
    /\ batches' \in [Batch -> [status : BatchStatus, orders : SUBSET Order]]
    /\ \A b \in Batch : batches'[b].orders = batches[b].orders
    /\ sub'.pc # "idle" => sub' \in Submitting /\ sub'.orders \subseteq Known

LEMMA NextAttemptKeeps ==
    ASSUME BInv, sub.pc # "idle", NextAttempt, UNCHANGED batches
    PROVE  SubmitterKeeps /\ sub'.pc = "submit"
<1>1. /\ batches \in [Batch -> [status : BatchStatus, orders : SUBSET Order]]
      /\ sub \in Submitting
      /\ \A b \in Batch : batches[b].orders \subseteq Known
  BY DEF BInv, Types, Held
<1>2. sub.batch \in Batch /\ sub.attempt \in Nat \ {0}
  BY <1>1 DEF Submitting
<1> DEFINE orders == batches[sub.batch].orders
           attempt == sub.attempt + 1
<1>3. orders \in SUBSET Order /\ orders \subseteq Known /\ attempt \in Nat \ {0}
  BY <1>1, <1>2
<1>4. sub' = [sub EXCEPT !.pc = "submit", !.orders = orders, !.attempt = attempt]
  BY <1>1 DEF NextAttempt, Submitting
<1>5. sub' \in Submitting /\ sub'.orders = orders /\ sub'.pc = "submit"
  <2> HIDE DEF orders, attempt
  <2> QED
    BY <1>1, <1>3, <1>4 DEF Submitting
<1> QED
  BY <1>1, <1>3, <1>5 DEF SubmitterKeeps

\* The submitter completes an order only when it finds its transaction mined.
LEMMA SubmitterInv ==
    ASSUME BInv, Submitter \/ SubmitUnconfirmed \/ CompletionFails \/ SubmitterRestarts
    PROVE  BInv' /\ (StatusMoves \/ \E o \in Order : SetOrderComplete(o))
<1>0. /\ batches \in [Batch -> [status : BatchStatus, orders : SUBSET Order]]
      /\ monitors \in [Order -> Nat]
      /\ agg.pc = "prove" => agg.batch \in Batch
      /\ sub.pc # "idle" => sub \in Submitting /\ sub.orders \subseteq Known
      /\ status \in [Order -> OrderStatus]
      /\ \A b \in Batch : batches[b].orders \subseteq Known
      /\ Held /\ Receipt
  BY DEF BInv, Types, Held
<1>1. UNCHANGED <<locker, mined, job, sessions, monitors, agg, reaping>>
  BY DEF Submitter, GetCompleteBatch, SubmitFails, Submit, SetBatchSubmitted, SetBatchFailure,
         SetOrderComplete, SubmitUnconfirmed, CompletionFails, SubmitterRestarts, SubmitterRest,
         chainVars, monitorVars, provingVars
<1>2. Known \subseteq Order
  BY DEF Known
<1> DEFINE Goal == StatusMoves /\ SubmitterKeeps /\ Receipt'
<1>3. ASSUME NEW b \in Batch, GetCompleteBatch(b) PROVE Goal
  <2>1. UNCHANGED status
    BY <1>3 DEF GetCompleteBatch
  <2>2. "PendingSubmission" \in BatchStatus
    BY DEF BatchStatus
  <2>3. /\ batches' = [batches EXCEPT ![b].status = "PendingSubmission"]
        /\ sub' = [pc |-> "submit", batch |-> b, orders |-> batches[b].orders, attempt |-> 1]
    BY <1>3 DEF GetCompleteBatch
  <2>4. sub' \in Submitting /\ sub'.orders = batches[b].orders /\ sub'.pc = "submit"
    BY <1>0, <2>3 DEF Submitting
  <2>5. SubmitterKeeps
    BY <1>0, <2>2, <2>3, <2>4 DEF SubmitterKeeps
  <2> QED
    BY <2>1, <2>4, <2>5, StatementMoves DEF Receipt
<1>4. ASSUME \/ \E S \in SUBSET Order : SubmitFails(S)
             \/ SubmitUnconfirmed
             \/ CompletionFails
      PROVE  Goal
  <2>1. sub.pc # "idle" /\ NextAttempt /\ UNCHANGED batches
    BY <1>4 DEF SubmitFails, SubmitUnconfirmed, CompletionFails, Attempting
  <2>2. UNCHANGED status \/ \E S : S \subseteq Known /\ Fail(S)
    BY <1>0, <1>4 DEF SubmitFails, SubmitUnconfirmed, CompletionFails, Attempting
  <2>3. StatusMoves
    BY <2>2, StatementMoves
  <2> QED
    BY <2>1, <2>3, NextAttemptKeeps DEF Receipt
<1>5. ASSUME NEW left \in SUBSET Order, Submit(left) PROVE Goal
  <2>1. /\ UNCHANGED batches /\ sub.pc = "submit"
        /\ left \subseteq sub.orders /\ Fail(left)
        /\ fulfillTxs' = fulfillTxs \cup
             {[batch |-> sub.batch, attempt |-> sub.attempt, orders |-> sub.orders \ left]}
        /\ sub' = [sub EXCEPT !.pc = "sent", !.orders = @ \ left]
    BY <1>5 DEF Submit, Attempting
  <2>2. sub \in Submitting /\ sub.orders \subseteq Known
    BY <1>0, <2>1
  <2>3. /\ sub' \in Submitting /\ sub'.pc = "sent" /\ sub'.orders = sub.orders \ left
        /\ sub'.batch = sub.batch /\ sub'.attempt = sub.attempt
    BY <2>1, <2>2 DEF Submitting
  <2>4. StatusMoves
    BY <2>1, <2>2, StatementMoves
  <2>5. SubmitterKeeps
    BY <1>0, <2>1, <2>2, <2>3 DEF SubmitterKeeps
  <2>6. Receipt'
    <3> DEFINE tx == [batch |-> sub.batch, attempt |-> sub.attempt, orders |-> sub.orders \ left]
    <3>1. tx \in fulfillTxs' /\ tx.batch = sub'.batch /\ tx.attempt = sub'.attempt
          /\ sub'.orders \subseteq tx.orders
      BY <2>1, <2>3
    <3> QED
      BY <3>1 DEF Receipt
  <2> QED
    BY <2>4, <2>5, <2>6
<1>6. ASSUME SetBatchSubmitted \/ SetBatchFailure \/ SubmitterRestarts PROVE Goal
  <2>1. /\ sub.pc # "idle" /\ UNCHANGED status /\ sub'.pc = "idle"
        /\ \/ UNCHANGED batches
           \/ \E s \in {"Submitted", "Failed"} : batches' = [batches EXCEPT ![sub.batch].status = s]
    BY <1>6 DEF SetBatchSubmitted, SetBatchFailure, SubmitterRestarts, Completing, GivingUp, Idle
  <2>2. sub.batch \in Batch /\ {"Submitted", "Failed"} \subseteq BatchStatus
    BY <1>0, <2>1 DEF Submitting, BatchStatus
  <2>3. SubmitterKeeps
    BY <1>0, <2>1, <2>2 DEF SubmitterKeeps
  <2> QED
    BY <2>1, <2>3, StatementMoves DEF Receipt
<1>7. ASSUME Goal PROVE BInv'
  <2>1. Known \subseteq Known'
    BY <1>7, Moved
  <2>2. Held'
    BY <1>0, <1>1, <1>7, <2>1 DEF Held, SubmitterKeeps
  <2> QED
    BY <1>0, <1>1, <1>7, <2>2, ServiceInv DEF SubmitterKeeps
<1>8. ASSUME NEW o \in Order, SetOrderComplete(o) PROVE BInv'
  <2>1. /\ UNCHANGED <<batches, fulfillTxs>>
        /\ sub.pc \in {"sent", "completing"} /\ ~TxPending /\ o \in sub.orders
        /\ status' = [status EXCEPT ![o] = "Done"]
        /\ sub' = [sub EXCEPT !.pc = "completing", !.orders = @ \ {o}]
    BY <1>8 DEF SetOrderComplete, Completing, ReceiptSeen, chainVars
  <2>2. sub \in Submitting /\ sub.orders \subseteq Known
    BY <1>0, <2>1
  <2>3. /\ sub' \in Submitting /\ sub'.orders = sub.orders \ {o}
    BY <2>1, <2>2 DEF Submitting
  <2>4. sub.orders \subseteq mined
    BY <1>0, <2>1 DEF Receipt, TxPending
  <2>5. o \in Known /\ "Done" \in OrderStatus
    BY <2>1, <2>2 DEF OrderStatus
  <2>6. status' \in [Order -> OrderStatus] /\ Known \subseteq Known' /\ Known' \subseteq Known
    BY <1>0, <1>2, <2>1, <2>5 DEF Known
  <2>7. Types' /\ Jobs'
    BY <1>0, <1>1, <2>1, <2>3, <2>6 DEF BInv, Types, Jobs
  <2>8. CommittedHasOurLock'
    <3> SUFFICES ASSUME NEW x \in LockOrders, status'[x] \notin {"absent", "Skipped"}
                 PROVE  locker'[RequestOf[x]] = "us"
      BY DEF CommittedHasOurLock
    <3>1. x \in Known'
      BY BrokerAssumption DEF Known
    <3>2. x \in Known
      BY <2>6, <3>1
    <3> QED
      BY <1>1, <3>2 DEF BInv, CommittedHasOurLock, Known
  <2>9. DoneWasMined'
    BY <1>0, <1>1, <2>1, <2>4 DEF BInv, DoneWasMined
  <2>10. Held' /\ Receipt'
    BY <1>0, <1>1, <2>1, <2>2, <2>3, <2>4, <2>6 DEF Held, Receipt
  <2> QED
    BY <2>7, <2>8, <2>9, <2>10 DEF BInv
<1> QED
  BY <1>3, <1>4, <1>5, <1>6, <1>7, <1>8 DEF Submitter

-----------------------------------------------------------------------------
(* The theorems                                                            *)

LEMMA InitInv ==
    ASSUME Init
    PROVE  BInv
<1>1. Types
  <2>1. "absent" \in OrderStatus /\ "absent" \in BatchStatus
    BY DEF OrderStatus, BatchStatus
  <2> QED
    BY <2>1 DEF Init, Types, Idle, NoBatch
<1>2. CommittedHasOurLock /\ DoneWasMined /\ Jobs
  BY BrokerAssumption DEF Init, CommittedHasOurLock, DoneWasMined, Jobs
<1>3. Held /\ Receipt
  BY DEF Init, Held, Receipt, Idle, NoBatch
<1> QED
  BY <1>1, <1>2, <1>3 DEF BInv

LEMMA NextInv ==
    ASSUME BInv, [Next]_vars
    PROVE  BInv' /\ (StatusMoves \/ \E o \in Order : SetOrderComplete(o))
<1>1. CASE UNCHANGED vars
  <2>1. BInv'
    BY <1>1 DEF vars, chainVars, dbVars, localVars, monitorVars, provingVars, historyVars, BInv,
       Types, CommittedHasOurLock, Jobs, Held, DoneWasMined, Receipt, Known
  <2>2. StatusMoves
    BY <1>1, StatementMoves DEF vars, dbVars
  <2> QED
    BY <2>1, <2>2
<1>2. CASE Next
  BY <1>2, ChainInv, OrderMonitorInv, ProvingInv, AggregatorInv, SubmitterInv, ReaperInv,
     CrashInv DEF Next
<1> QED
  BY <1>1, <1>2

\* The broker works, and has worked, only on orders to lock of which the chain
\* has its lock (lock_order, insert_accepted_order), whatever is overwritten,
\* lost or repeated later.
THEOREM OrdersAreLocked == Spec => []CommittedHasOurLock
<1>1. BInv => CommittedHasOurLock
  BY DEF BInv
<1> QED
  BY InitInv, NextInv, <1>1, PTL DEF Spec

\* An order that set_order_complete marked Done was in a fulfillment transaction
\* that was mined.
THEOREM DoneIsAfterMined == Spec => []DoneWasMined
<1>1. BInv => DoneWasMined
  BY DEF BInv
<1> QED
  BY InitInv, NextInv, <1>1, PTL DEF Spec

-----------------------------------------------------------------------------
(* Types, and how many tasks watch a proof                                 *)

JobStep == {"none", "accept", "lock", "sent", "locked", "reverted"}

ChainTypes ==
    /\ now \in 0..MaxTime
    /\ delivered \subseteq Request
    /\ lockTxs \subseteq [order : LockOrders, live : BOOLEAN]
    /\ \A tx \in fulfillTxs :
          tx.batch \in Batch /\ tx.attempt \in 1..MaxSubmissionAttempts /\ tx.orders \subseteq Order
    /\ lockedRequests \in [Request -> {"none", "us", "other"}]
    /\ fulfilledRequests \subseteq delivered
    /\ mined \subseteq Order
    /\ faults \in 0..MaxFaults

LocalTypes ==
    /\ proofId \subseteq Order
    /\ seen \subseteq Order /\ cache \subseteq Order
    /\ job \in [Order -> JobStep]
    /\ \A o \in Order \ LockOrders : job[o] \in {"none", "accept"}
    /\ agg.pc \in {"idle", "prove"}
    /\ revived \subseteq Order

\* Orders that no proving task was started for.
Fresh == {o \in Order : status[o] \in {"absent", "Skipped", "PendingProving"}}

\* An order has no proof, and no task that watches one, before its session was
\* created, which happens once: no order is fresh a second time.
Watched ==
    /\ \A o \in Order : monitors[o] <= 1 + faults
    /\ \A o \in sessions \cup Fresh : monitors[o] = 0 /\ o \notin proofId
    /\ sessions \cap Fresh = {}

HistoryTypes == abandoned \subseteq Order /\ stranded \subseteq Batch

TypeInv == ChainTypes /\ LocalTypes /\ HistoryTypes /\ Watched

LEMMA AbandonedType ==
    ASSUME ChainTypes
    PROVE  \A S : Abandoned(S) \subseteq [order : LockOrders, live : BOOLEAN]
<1>1. ASSUME NEW S, NEW tx \in [order : LockOrders, live : BOOLEAN]
      PROVE  [tx EXCEPT !.live = @ /\ tx.order \notin S] \in [order : LockOrders, live : BOOLEAN]
  OBVIOUS
<1> QED
  BY <1>1 DEF ChainTypes, Abandoned

\* The chain's and the tables' types.
LEMMA ChainTypesKept ==
    ASSUME BInv, ChainTypes, LocalTypes, [Next]_vars
    PROVE  ChainTypes'
<1>0. /\ locker \in [Request -> {"none", "us", "other"}]
      /\ sub.pc # "idle" => sub \in Submitting
      /\ MaxTime \in Nat /\ MaxFaults \in Nat
  BY BrokerAssumption DEF BInv, Types
<1> DEFINE Rest == UNCHANGED <<now, locker, delivered, lockedRequests, fulfilledRequests, mined>>
<1>1. ASSUME UNCHANGED <<now, locker, delivered, lockTxs, fulfillTxs, lockedRequests,
                         fulfilledRequests, mined, faults>>
      PROVE  ChainTypes'
  BY <1>1 DEF ChainTypes
<1>2. Fault \/ UNCHANGED faults => faults' \in 0..MaxFaults
  BY <1>0 DEF Fault, ChainTypes
<1>3. CASE Tick
  BY <1>0, <1>3 DEF Tick, ChainTypes, dbVars, historyVars
<1>4. ASSUME NEW tx \in lockTxs, MineLock(tx) PROVE ChainTypes'
  BY <1>4 DEF MineLock, ChainTypes, dbVars, historyVars
<1>5. ASSUME NEW tx \in fulfillTxs, NEW reverted \in Reverts, MineFulfill(tx, reverted)
      PROVE  ChainTypes'
  <2>1. tx.orders \subseteq Order
    BY DEF ChainTypes
  <2>2. {r \in {RequestOf[o] : o \in tx.orders} : ~reverted /\ now <= ExpiresAt[r]} \subseteq Request
    BY <2>1, BrokerAssumption
  <2> QED
    BY <1>5, <2>1, <2>2 DEF MineFulfill, ChainTypes, dbVars
<1>6. ASSUME NEW r \in Request, OtherLocks(r) \/ OtherFulfills(r) \/ LockedEvent(r) \/ FulfilledEvent(r)
      PROVE  ChainTypes'
  <2>1. CASE OtherLocks(r)
    BY <2>1 DEF OtherLocks, ChainTypes, dbVars, historyVars
  <2>2. CASE OtherFulfills(r)
    BY <2>2 DEF OtherFulfills, ChainTypes, dbVars, historyVars
  <2>3. CASE LockedEvent(r)
    BY <1>0, <2>3 DEF LockedEvent, ChainTypes, chainVars, historyVars
  <2>4. CASE FulfilledEvent(r)
    BY <2>4 DEF FulfilledEvent, ChainTypes, chainVars, historyVars
  <2> QED
    BY <1>6, <2>1, <2>2, <2>3, <2>4
<1>7. ASSUME NEW o \in Order, LockOrder(o) PROVE ChainTypes'
  <2>1. o \in LockOrders
    BY <1>7 DEF LockOrder, LocalTypes
  <2>2. /\ UNCHANGED <<now, locker, delivered, fulfillTxs, lockedRequests, fulfilledRequests,
                       mined, faults>>
        /\ lockTxs' \subseteq lockTxs \cup {[order |-> o, live |-> TRUE]}
    BY <1>7 DEF LockOrder, EndJob, dbVars, historyVars
  <2>3. [order |-> o, live |-> TRUE] \in [order : LockOrders, live : BOOLEAN]
    BY <2>1
  <2>4. lockTxs' \subseteq [order : LockOrders, live : BOOLEAN]
    BY <2>2, <2>3 DEF ChainTypes
  <2> QED
    BY <2>2, <2>4 DEF ChainTypes
<1>8. ASSUME NEW o \in Order, LockUnconfirmed(o) PROVE ChainTypes'
  <2>1. Rest /\ UNCHANGED fulfillTxs /\ Fault /\ lockTxs' = Abandoned({o})
    BY <1>8 DEF LockUnconfirmed, EndJob
  <2> QED
    BY <1>2, <2>1, AbandonedType DEF ChainTypes
<1>9. CASE Crash
  <2>1. Rest /\ UNCHANGED fulfillTxs /\ Fault /\ lockTxs' = Abandoned(Order)
    BY <1>9 DEF Crash, OrderDbRest
  <2> QED
    BY <1>2, <2>1, AbandonedType DEF ChainTypes
<1>10. ASSUME NEW left \in SUBSET Order, Submit(left) PROVE ChainTypes'
  <2> DEFINE tx == [batch |-> sub.batch, attempt |-> sub.attempt, orders |-> sub.orders \ left]
  <2>1. /\ Rest /\ UNCHANGED lockTxs
        /\ Fault \/ UNCHANGED faults
        /\ sub.pc # "idle" /\ sub.attempt <= MaxSubmissionAttempts
        /\ fulfillTxs' = fulfillTxs \cup {tx}
    BY <1>10 DEF Submit, Attempting, SubmitterRest
  <2>2. sub.batch \in Batch /\ sub.attempt \in 1..MaxSubmissionAttempts /\ sub.orders \subseteq Order
    BY <1>0, <2>1, BrokerAssumption DEF Submitting
  <2>3. tx.batch \in Batch /\ tx.attempt \in 1..MaxSubmissionAttempts /\ tx.orders \subseteq Order
    BY <2>2
  <2> HIDE DEF tx
  <2> QED
    BY <1>2, <2>1, <2>3 DEF ChainTypes
<1>11. ASSUME \/ ProvingRestart \/ SubmitUnconfirmed \/ CompletionFails \/ SubmitterRestarts
              \/ \E o \in Order : MonitorEnds(o) \/ AcceptFails(o)
       PROVE  ChainTypes'
  <2>1. Rest /\ UNCHANGED <<lockTxs, fulfillTxs>> /\ (Fault \/ UNCHANGED faults)
    BY <1>11 DEF ProvingRestart, SubmitUnconfirmed, CompletionFails, SubmitterRestarts,
                 MonitorEnds, AcceptFails, EndJob, SubmitterRest, OrderDbRest, chainVars
  <2> QED
    BY <1>2, <2>1 DEF ChainTypes
<1>12. ASSUME \/ \E o \in Order : Price(o) \/ Evict(o) \/ AcceptLate(o) \/ LockConfirmed(o)
              \/ \E o \in Order : GetProvingOrder(o) \/ CreateSession(o)
              \/ \E dropped, chosen \in SUBSET Order : MonitorBlock(dropped, chosen)
              \/ Aggregator \/ Reaper
              \/ \E b \in Batch : GetCompleteBatch(b)
              \/ \E S \in SUBSET Order : SubmitFails(S)
              \/ SetBatchSubmitted \/ SetBatchFailure
              \/ \E o \in Order : SetOrderComplete(o)
              \/ UNCHANGED vars
       PROVE  ChainTypes'
  <2>1. UNCHANGED <<now, locker, delivered, lockTxs, fulfillTxs, lockedRequests,
                    fulfilledRequests, mined, faults>>
    BY <1>12 DEF Price, Evict, AcceptLate, LockConfirmed, EndJob, GetProvingOrder,
       CreateSession, MonitorBlock, Aggregator, Collect, AggregateProofs,
       AggregateFails, CompressBatch, Reaper, CheckExpiredOrders, ReapOrder, GetCompleteBatch,
       SubmitFails, SetBatchSubmitted, SetBatchFailure, SetOrderComplete, SubmitterRest,
       OrderDbRest, vars, chainVars, dbVars, historyVars
  <2> QED
    BY <1>1, <2>1
<1> QED
  BY <1>3, <1>4, <1>5, <1>6, <1>7, <1>8, <1>9, <1>10, <1>11, <1>12
     DEF Next, Chain, OrderMonitor, Proving, Submitter

\* The types of what the services keep.
LEMMA LocalTypesKept ==
    ASSUME BInv, ChainTypes, LocalTypes, [Next]_vars
    PROVE  LocalTypes'
<1>0. /\ job \in [Order -> JobStep] /\ LockOrders \subseteq Order
      /\ Known \subseteq Order
      /\ agg.pc = "prove" => agg.orders \subseteq Known
      /\ sessions \subseteq Known
  BY BrokerAssumption DEF LocalTypes, BInv, Held, Known
<1> DEFINE JobType == /\ job' \in [Order -> JobStep]
                      /\ \A o \in Order \ LockOrders : job'[o] \in {"none", "accept"}
<1>1. ASSUME NEW o \in Order, NEW v \in JobStep, job' = [job EXCEPT ![o] = v],
             o \in LockOrders \/ v = "none"
      PROVE  JobType
  BY <1>1 DEF LocalTypes
<1>2. {"none", "accept", "lock", "sent", "locked", "reverted"} = JobStep
  BY DEF JobStep
<1>3. ASSUME NEW o \in Order,
             AcceptLate(o) \/ LockOrder(o) \/ LockConfirmed(o) \/ LockUnconfirmed(o) \/ AcceptFails(o)
      PROVE  LocalTypes'
  <2>1. /\ UNCHANGED <<proofId, seen, agg, revived>> /\ cache' \subseteq cache
        /\ \/ job' = [job EXCEPT ![o] = "none"]
           \/ job[o] = "lock" /\ job' = [job EXCEPT ![o] = "sent"]
    BY <1>3 DEF AcceptLate, LockOrder, LockConfirmed, LockUnconfirmed, AcceptFails, EndJob,
                dbVars, historyVars
  <2>2. job[o] = "lock" => o \in LockOrders
    BY DEF LocalTypes
  <2>3. JobType
    BY <1>1, <1>2, <2>1, <2>2
  <2> QED
    BY <2>1, <2>3 DEF LocalTypes
<1>4. ASSUME NEW tx \in lockTxs, MineLock(tx) PROVE LocalTypes'
  <2>1. tx.order \in LockOrders
    BY DEF ChainTypes
  <2>2. /\ UNCHANGED <<proofId, seen, cache, agg, revived>>
        /\ \/ UNCHANGED job
           \/ \E v \in {"locked", "reverted"} : job' = [job EXCEPT ![tx.order] = v]
    BY <1>4 DEF MineLock, dbVars, historyVars
  <2>3. JobType
    BY <1>0, <1>1, <1>2, <2>1, <2>2 DEF LocalTypes
  <2> QED
    BY <2>2, <2>3 DEF LocalTypes
<1>5. ASSUME NEW dropped, NEW chosen, MonitorBlock(dropped, chosen) PROVE LocalTypes'
  <2>1. /\ UNCHANGED <<proofId, seen, agg, revived>> /\ cache' \subseteq cache
        /\ job' = [o \in Order |-> IF o \notin chosen THEN "none"
                                   ELSE IF IsLate(o) THEN "accept" ELSE "lock"]
    BY <1>5 DEF MonitorBlock, historyVars
  <2>2. JobType
    BY <1>2, <2>1 DEF IsLate
  <2> QED
    BY <2>1, <2>2 DEF LocalTypes
<1>6. ASSUME UNCHANGED job \/ job' = [o \in Order |-> "none"],
             proofId' \subseteq Order, seen' \subseteq Order, cache' \subseteq Order,
             revived' \subseteq Order, agg'.pc \in {"idle", "prove"}
      PROVE  LocalTypes'
  <2>1. JobType
    BY <1>2, <1>6 DEF LocalTypes
  <2> QED
    BY <1>6, <2>1 DEF LocalTypes
<1>7. ASSUME NEW o \in Order, Price(o) \/ Evict(o) \/ Proving(o) PROVE LocalTypes'
  <2>1. /\ UNCHANGED <<job, agg>>
        /\ proofId' \subseteq proofId \cup {o} /\ seen' \subseteq seen \cup {o}
        /\ cache' \subseteq cache \cup {o} /\ revived' \subseteq revived \cup {o}
    BY <1>7 DEF Price, Evict, Proving, GetProvingOrder, CreateSession, MonitorEnds, Revive,
       dbVars, monitorVars, historyVars
  <2> QED
    BY <1>6, <2>1 DEF LocalTypes
<1>8. CASE Aggregator
  <2>1. UNCHANGED <<job, proofId, seen, cache>>
    BY <1>8 DEF Aggregator, Collect, AggregateProofs, AggregateFails, CompressBatch, dbVars,
       localVars, monitorVars
  <2>2. agg'.pc \in {"idle", "prove"}
    <3>1. \A b \in Batch, finalize \in BOOLEAN :
            Collect(b, finalize) => agg' = agg \/ agg'.pc = "prove"
      BY DEF Collect
    <3> QED
      BY <1>8, <3>1 DEF Aggregator, AggregateProofs, AggregateFails, CompressBatch, localVars,
         LocalTypes, Idle
  <2>3. revived' \subseteq revived \cup Known
    BY <1>0, <1>8 DEF Aggregator, Collect, AggregateProofs, AggregateFails, CompressBatch,
       Revive, historyVars
  <2> QED
    BY <1>0, <1>6, <2>1, <2>2, <2>3 DEF LocalTypes
<1>9. ASSUME Submitter \/ SubmitUnconfirmed \/ CompletionFails \/ SubmitterRestarts
      PROVE  LocalTypes'
  <2>1. UNCHANGED <<job, proofId, seen, cache, agg, revived>>
    BY <1>9 DEF Submitter, GetCompleteBatch, SubmitFails, Submit, SetBatchSubmitted,
       SetBatchFailure, SetOrderComplete, SubmitUnconfirmed, CompletionFails, SubmitterRestarts,
       SubmitterRest, monitorVars
  <2> QED
    BY <1>6, <2>1 DEF LocalTypes
<1>10. ASSUME \/ Tick \/ Reaper \/ ProvingRestart \/ UNCHANGED vars
              \/ \E r \in Request : OtherLocks(r) \/ OtherFulfills(r) \/ LockedEvent(r) \/ FulfilledEvent(r)
              \/ \E tx \in fulfillTxs, reverted \in Reverts : MineFulfill(tx, reverted)
       PROVE  LocalTypes'
  <2>1. UNCHANGED <<job, proofId, seen, cache, agg, revived>>
    BY <1>10 DEF Tick, Reaper, CheckExpiredOrders, ReapOrder, ProvingRestart, OtherLocks,
       OtherFulfills, LockedEvent, FulfilledEvent, MineFulfill, vars, dbVars, localVars,
       monitorVars, historyVars
  <2> QED
    BY <1>6, <2>1 DEF LocalTypes
<1>11. CASE Crash
  BY <1>6, <1>11 DEF Crash, LocalTypes, Idle
<1> QED
  BY <1>3, <1>4, <1>5, <1>7, <1>8, <1>9, <1>10, <1>11 DEF Next, Chain, OrderMonitor

\* The histories of what was given up only grow.
LEMMA HistoryTypesKept ==
    ASSUME BInv, HistoryTypes, [Next]_vars
    PROVE  HistoryTypes' /\ abandoned \subseteq abandoned'
<1>1. sub.pc # "idle" => sub.batch \in Batch
  BY DEF BInv, Types, Submitting
<1>2. ASSUME NEW o \in Order, LockUnconfirmed(o) \/ AcceptFails(o)
      PROVE  HistoryTypes' /\ abandoned \subseteq abandoned'
  BY <1>2 DEF LockUnconfirmed, AcceptFails, HistoryTypes
<1>3. CASE SubmitterRestarts
  <2>1. UNCHANGED abandoned /\ sub.pc # "idle" /\ stranded' = stranded \cup {sub.batch}
    BY <1>3 DEF SubmitterRestarts, Completing, GivingUp, SubmitterRest
  <2> QED
    BY <1>1, <2>1 DEF HistoryTypes
<1>4. CASE Crash
  <2>1. /\ abandoned' = abandoned \cup {o \in Order : job[o] \in {"sent", "locked"}}
        /\ stranded' = IF sub.pc = "idle" THEN stranded ELSE stranded \cup {sub.batch}
    BY <1>4 DEF Crash
  <2> QED
    BY <1>1, <2>1 DEF HistoryTypes
<1>5. ASSUME \/ Tick \/ Chain \/ Aggregator \/ Submitter \/ Reaper
             \/ \E r \in Request : OtherLocks(r) \/ OtherFulfills(r) \/ LockedEvent(r) \/ FulfilledEvent(r)
             \/ \E o \in Order : Price(o) \/ Evict(o) \/ OrderMonitor(o) \/ Proving(o)
             \/ \E dropped, chosen \in SUBSET Order : MonitorBlock(dropped, chosen)
             \/ ProvingRestart \/ SubmitUnconfirmed \/ CompletionFails \/ UNCHANGED vars
      PROVE  HistoryTypes' /\ abandoned \subseteq abandoned'
  <2>1. UNCHANGED <<abandoned, stranded>>
    BY <1>5 DEF Tick, Chain, MineLock, MineFulfill, Aggregator, Collect, AggregateProofs,
       AggregateFails, CompressBatch, Submitter, GetCompleteBatch, SubmitFails, Submit,
       SetBatchSubmitted, SetBatchFailure, SetOrderComplete, Reaper, CheckExpiredOrders,
       ReapOrder, OtherLocks, OtherFulfills, LockedEvent, FulfilledEvent, Price, Evict,
       OrderMonitor, AcceptLate, LockOrder, LockConfirmed, Proving, GetProvingOrder,
       CreateSession, MonitorEnds, MonitorBlock, ProvingRestart, SubmitUnconfirmed,
       CompletionFails, SubmitterRest, vars, historyVars
  <2> QED
    BY <2>1 DEF HistoryTypes
<1> QED
  BY <1>2, <1>3, <1>4, <1>5 DEF Next

LEMMA FreshShrinks ==
    ASSUME BInv, [Next]_vars
    PROVE  Fresh' \subseteq Fresh
<1>1. CASE StatusMoves
  <2> SUFFICES ASSUME NEW o \in Order, status'[o] \in {"absent", "Skipped", "PendingProving"}
               PROVE  status[o] \in {"absent", "Skipped", "PendingProving"}
    BY DEF Fresh
  <2>1. Moves(o)
    BY <1>1 DEF StatusMoves
  <2> QED
    BY <2>1 DEF Moves, Known
<1>2. ASSUME NEW o \in Order, SetOrderComplete(o) PROVE Fresh' \subseteq Fresh
  BY <1>2 DEF SetOrderComplete, Fresh, BInv, Types
<1> QED
  BY <1>1, <1>2, NextInv

\* One task starts a proof, and a restart adds at most one that watches it.
LEMMA WatchedKept ==
    ASSUME BInv, ChainTypes, LocalTypes, Watched, [Next]_vars
    PROVE  Watched'
<1>0. /\ Fresh' \subseteq Fresh /\ Fresh \subseteq Order
      /\ sessions \subseteq Order
      /\ monitors \in [Order -> Nat] /\ faults \in Nat
      /\ status \in [Order -> OrderStatus]
  BY FreshShrinks DEF Fresh, BInv, Types, Held, Known, ChainTypes
<1>1. ASSUME UNCHANGED <<sessions, monitors, proofId>>, faults' \in {faults, faults + 1}
      PROVE  Watched'
  BY <1>0, <1>1 DEF Watched
<1>2. ASSUME NEW o \in Order, GetProvingOrder(o) PROVE Watched'
  <2>1. /\ UNCHANGED <<monitors, proofId, faults>>
        /\ sessions' = sessions \cup {o}
        /\ o \in Fresh /\ status'[o] = "Proving"
    BY <1>0, <1>2 DEF GetProvingOrder, historyVars, Fresh
  <2>2. o \notin Fresh'
    BY <2>1 DEF Fresh
  <2> QED
    BY <1>0, <2>1, <2>2 DEF Watched
<1>3. ASSUME NEW o \in Order, CreateSession(o) PROVE Watched'
  <2>1. /\ UNCHANGED faults /\ o \in sessions /\ sessions' = sessions \ {o}
        /\ \/ UNCHANGED <<monitors, proofId>>
           \/ monitors' = [monitors EXCEPT ![o] = @ + 1] /\ proofId' = proofId \cup {o}
    BY <1>3 DEF CreateSession, historyVars
  <2>2. monitors[o] = 0 /\ o \notin Fresh /\ o \notin Fresh'
    BY <1>0, <2>1 DEF Watched
  <2> QED
    BY <1>0, <2>1, <2>2 DEF Watched
<1>4. ASSUME NEW o \in Order, MonitorEnds(o) PROVE Watched'
  <2>1. UNCHANGED <<sessions, proofId>> /\ faults' \in {faults, faults + 1} /\ monitors[o] > 0
        /\ monitors' = [monitors EXCEPT ![o] = @ - 1]
    BY <1>4 DEF MonitorEnds, Fault
  <2> QED
    BY <1>0, <2>1 DEF Watched
<1>5. CASE ProvingRestart
  <2>1. /\ UNCHANGED <<sessions, proofId>> /\ faults' = faults + 1
        /\ monitors' = [x \in Order |-> IF x \in Dangling \cap proofId
                                        THEN monitors[x] + 1 ELSE monitors[x]]
    BY <1>5 DEF ProvingRestart, FindAndMonitorProofs, Fault
  <2> QED
    BY <1>0, <2>1 DEF Watched
<1>6. CASE Crash
  <2>1. /\ sessions' = {} /\ UNCHANGED proofId /\ faults' = faults + 1
        /\ monitors' = [x \in Order |-> IF x \in Dangling \cap proofId THEN 1 ELSE 0]
    BY <1>6 DEF Crash, FindAndMonitorProofs, Fault
  <2> QED
    BY <1>0, <2>1 DEF Watched
<1>7. ASSUME \/ Tick \/ Chain \/ Aggregator \/ Submitter \/ Reaper
             \/ \E r \in Request : OtherLocks(r) \/ OtherFulfills(r) \/ LockedEvent(r) \/ FulfilledEvent(r)
             \/ \E o \in Order : Price(o) \/ Evict(o) \/ OrderMonitor(o)
             \/ \E o \in Order : LockUnconfirmed(o) \/ AcceptFails(o)
             \/ \E dropped, chosen \in SUBSET Order : MonitorBlock(dropped, chosen)
             \/ SubmitUnconfirmed \/ CompletionFails \/ SubmitterRestarts \/ UNCHANGED vars
      PROVE  Watched'
  <2>1. UNCHANGED <<sessions, monitors, proofId>>
    BY <1>7 DEF Tick, Chain, MineLock, MineFulfill, Aggregator, Collect, AggregateProofs,
       AggregateFails, CompressBatch, Submitter, GetCompleteBatch, SubmitFails, Submit,
       SetBatchSubmitted, SetBatchFailure, SetOrderComplete, Reaper, CheckExpiredOrders,
       ReapOrder, OtherLocks, OtherFulfills, LockedEvent, FulfilledEvent, Price, Evict,
       OrderMonitor, AcceptLate, LockOrder, LockConfirmed, LockUnconfirmed, AcceptFails, EndJob,
       MonitorBlock, SubmitUnconfirmed, CompletionFails, SubmitterRestarts, SubmitterRest, vars, dbVars,
       localVars, provingVars
  <2>2. faults' \in {faults, faults + 1}
    BY <1>7 DEF Tick, Chain, MineLock, MineFulfill, Aggregator, Collect, AggregateProofs,
       AggregateFails, CompressBatch, Submitter, GetCompleteBatch, SubmitFails, Submit,
       SetBatchSubmitted, SetBatchFailure, SetOrderComplete, Reaper, CheckExpiredOrders,
       ReapOrder, OtherLocks, OtherFulfills, LockedEvent, FulfilledEvent, Price, Evict,
       OrderMonitor, AcceptLate, LockOrder, LockConfirmed, LockUnconfirmed, AcceptFails,
       MonitorBlock, SubmitUnconfirmed, CompletionFails, SubmitterRestarts, Fault, vars, historyVars
  <2> QED
    BY <1>1, <2>1, <2>2
<1> QED
  BY <1>2, <1>3, <1>4, <1>5, <1>6, <1>7 DEF Next, Proving

LEMMA TypeInvHolds == Spec => [](BInv /\ TypeInv)
<1>1. Init => BInv /\ TypeInv
  <2> HAVE Init
  <2>1. BInv
    BY InitInv
  <2>2. ChainTypes
    BY BrokerAssumption DEF Init, ChainTypes
  <2>3. LocalTypes
    BY DEF Init, LocalTypes, JobStep, Idle
  <2>4. Watched
    BY DEF Init, Watched, Fresh
  <2>5. HistoryTypes
    BY DEF Init, HistoryTypes
  <2> QED
    BY <2>1, <2>2, <2>3, <2>4, <2>5 DEF TypeInv
<1>2. BInv /\ TypeInv /\ [Next]_vars => (BInv /\ TypeInv)'
  BY NextInv, ChainTypesKept, LocalTypesKept, HistoryTypesKept, WatchedKept DEF TypeInv
<1> QED
  BY <1>1, <1>2, PTL DEF Spec

\* The type invariant of the broker, with the bound on the tasks that watch one
\* proof: one, and one more for each restart of the proving service.
THEOREM BrokerTypeCorrect == Spec => []BrokerTypeOK
<1>1. BInv /\ TypeInv => BrokerTypeOK
  <2> SUFFICES ASSUME BInv, TypeInv PROVE BrokerTypeOK
    OBVIOUS
  <2>1. monitors \in [Order -> 0..(1 + MaxFaults)]
    BY BrokerAssumption DEF BInv, Types, TypeInv, Watched, ChainTypes
  <2>2. sessions \subseteq Order /\ reaping \subseteq Order
    BY DEF BInv, Held, Known
  <2>3. lockTxs \subseteq [order : Order, live : BOOLEAN]
    BY BrokerAssumption DEF TypeInv, ChainTypes
  <2>4. sub.pc \in {"idle", "submit", "sent", "completing"}
    BY DEF BInv, Types, Submitting
  <2> QED
    BY <2>1, <2>2, <2>3, <2>4 DEF BrokerTypeOK, BInv, Types, TypeInv, ChainTypes, LocalTypes,
       HistoryTypes, JobStep
<1> QED
  BY TypeInvHolds, <1>1, PTL

-----------------------------------------------------------------------------
(* No lock of ours is forgotten that its job saw through                   *)

\* A job waits for a live lock transaction; the others are known to be abandoned.
Awaited ==
    \A tx \in lockTxs :
        /\ tx.live => job[tx.order] = "sent"
        /\ ~tx.live => tx.order \in abandoned

LockInv == Awaited /\ OurLockIsKnown

LEMMA KnownGrows ==
    ASSUME BInv, [Next]_vars
    PROVE  Known \subseteq Known'
<1>1. ASSUME NEW o \in Order, SetOrderComplete(o) PROVE Known \subseteq Known'
  BY <1>1 DEF SetOrderComplete, Known, BInv, Types
<1> QED
  BY <1>1, NextInv, Moved

LEMMA LockInvKept ==
    ASSUME BInv, TypeInv, LockInv, [Next]_vars
    PROVE  LockInv'
<1>0. /\ Known \subseteq Known' /\ abandoned \subseteq abandoned'
      /\ job \in [Order -> JobStep] /\ LockOrders \subseteq Order
      /\ locker \in [Request -> {"none", "us", "other"}]
      /\ lockTxs \subseteq [order : LockOrders, live : BOOLEAN]
      /\ RequestOf \in [Order -> Request]
  BY KnownGrows, HistoryTypesKept, BrokerAssumption
     DEF BInv, Types, TypeInv, ChainTypes, LocalTypes
\* What is known of a request we have locked.
<1>1. ASSUME NEW r \in Request, locker[r] = "us"
      PROVE  \E o \in LockOrders :
                RequestOf[o] = r /\ (job[o] = "locked" \/ o \in Known \/ o \in abandoned)
  BY <1>0, <1>1 DEF LockInv, OurLockIsKnown, Known
<1>2. ASSUME Awaited',
             \A r \in Request : locker'[r] = "us" =>
                \E o \in LockOrders :
                   RequestOf[o] = r /\ (job'[o] = "locked" \/ o \in Known' \/ o \in abandoned')
      PROVE  LockInv'
  BY <1>0, <1>2 DEF LockInv, OurLockIsKnown, Known
\* A step that ends no job that has its lock leaves everything known.
<1>3. ASSUME Awaited',
             \A r \in Request : locker'[r] = "us" => locker[r] = "us",
             \A o \in LockOrders : job[o] = "locked" =>
                job'[o] = "locked" \/ o \in Known' \/ o \in abandoned'
      PROVE  LockInv'
  BY <1>0, <1>1, <1>2, <1>3
<1>4. ASSUME UNCHANGED <<lockTxs, job>>,
             \A r \in Request : locker'[r] = "us" => locker[r] = "us"
      PROVE  LockInv'
  <2>1. Awaited'
    BY <1>0, <1>4 DEF LockInv, Awaited
  <2> QED
    BY <1>3, <1>4, <2>1
<1>5. ASSUME NEW tx \in lockTxs, MineLock(tx) PROVE LockInv'
  <2> DEFINE r == RequestOf[tx.order]
  <2>1. /\ lockTxs' = lockTxs \ {tx}
        /\ locker' = IF Lockable(r) THEN [locker EXCEPT ![r] = "us"] ELSE locker
        /\ job' = IF ~tx.live THEN job
                  ELSE [job EXCEPT ![tx.order] = IF Lockable(r) THEN "locked" ELSE "reverted"]
    BY <1>5 DEF MineLock
  <2>2. /\ tx.order \in LockOrders /\ tx.live \in BOOLEAN
        /\ tx.live => job[tx.order] = "sent"
        /\ ~tx.live => tx.order \in abandoned
    BY <1>0 DEF LockInv, Awaited
  <2>3. \A t \in lockTxs' :
           /\ t.order \in LockOrders
           /\ t.live /\ tx.live => t.order # tx.order
           /\ t.live => job[t.order] = "sent"
           /\ ~t.live => t.order \in abandoned
    BY <1>0, <2>1, <2>2 DEF LockInv, Awaited
  <2>4. \A o \in LockOrders : ~tx.live \/ o # tx.order => job'[o] = job[o]
    BY <1>0, <2>1, <2>2
  <2>5. Awaited'
    BY <1>0, <2>1, <2>2, <2>3, <2>4 DEF Awaited
  <2>6. ASSUME NEW q \in Request, locker'[q] = "us"
        PROVE  \E o \in LockOrders :
                  RequestOf[o] = q /\ (job'[o] = "locked" \/ o \in Known' \/ o \in abandoned')
    <3>1. CASE locker[q] = "us"
      BY <1>0, <1>1, <2>2, <2>4, <3>1
    <3>2. CASE locker[q] # "us"
      <4>1. Lockable(r) /\ q = r
        BY <1>0, <2>1, <2>6, <3>2
      <4>2. tx.live => job'[tx.order] = "locked"
        BY <1>0, <2>1, <2>2, <4>1
      <4> QED
        BY <1>0, <2>2, <4>1, <4>2
    <3> QED
      BY <3>1, <3>2
  <2> QED
    BY <1>2, <2>5, <2>6
<1>6. ASSUME NEW o \in Order, AcceptLate(o) \/ LockConfirmed(o) PROVE LockInv'
  <2>1. /\ UNCHANGED <<lockTxs, locker>> /\ job' = [job EXCEPT ![o] = "none"]
        /\ job[o] # "sent"
        /\ job[o] = "locked" => InsertAccepted(o)
    BY <1>6 DEF AcceptLate, LockConfirmed, LockSucceeded, EndJob, chainVars
  <2>2. job[o] = "locked" => o \in Known'
    BY <2>1 DEF InsertAccepted, With, Known, BInv, Types
  <2>3. Awaited'
    BY <1>0, <2>1 DEF LockInv, Awaited
  <2> QED
    BY <1>0, <1>3, <2>1, <2>2, <2>3
<1>7. ASSUME NEW o \in Order, LockOrder(o) PROVE LockInv'
  <2>1. /\ UNCHANGED locker /\ job[o] = "lock"
        /\ \/ UNCHANGED lockTxs /\ job' = [job EXCEPT ![o] = "none"]
           \/ lockTxs' = lockTxs \cup {[order |-> o, live |-> TRUE]}
              /\ job' = [job EXCEPT ![o] = "sent"]
    BY <1>7 DEF LockOrder, EndJob
  <2>2. \A x \in Order : x # o => job'[x] = job[x]
    BY <1>0, <2>1
  <2>3. Awaited'
    <3>1. CASE UNCHANGED lockTxs /\ job' = [job EXCEPT ![o] = "none"]
      BY <1>0, <2>1, <2>2, <3>1 DEF LockInv, Awaited
    <3>2. CASE lockTxs' = lockTxs \cup {[order |-> o, live |-> TRUE]}
               /\ job' = [job EXCEPT ![o] = "sent"]
      BY <1>0, <2>1, <2>2, <3>2 DEF LockInv, Awaited
    <3> QED
      BY <2>1, <3>1, <3>2
  <2> QED
    BY <1>0, <1>3, <2>1, <2>2, <2>3
<1>8. ASSUME NEW dropped, NEW chosen, MonitorBlock(dropped, chosen) PROVE LockInv'
  <2>1. UNCHANGED <<lockTxs, locker>> /\ \A o \in Order : job[o] = "none"
    BY <1>8 DEF MonitorBlock, chainVars
  <2>2. Awaited'
    BY <1>0, <2>1 DEF LockInv, Awaited
  <2> QED
    BY <1>0, <1>3, <2>1, <2>2
<1>9. ASSUME NEW r \in Request, OtherLocks(r) PROVE LockInv'
  BY <1>0, <1>4, <1>9 DEF OtherLocks, localVars, monitorVars
<1>10. ASSUME \/ Tick \/ Aggregator \/ Reaper \/ UNCHANGED vars
              \/ \E tx \in fulfillTxs, reverted \in Reverts : MineFulfill(tx, reverted)
              \/ \E r \in Request : OtherFulfills(r) \/ LockedEvent(r) \/ FulfilledEvent(r)
              \/ \E o \in Order : Price(o) \/ Evict(o) \/ Proving(o)
              \/ Submitter \/ ProvingRestart \/ SubmitUnconfirmed \/ CompletionFails
              \/ SubmitterRestarts
       PROVE  LockInv'
  <2>1. UNCHANGED <<lockTxs, job, locker>>
    BY <1>10 DEF Tick, Aggregator, Collect, AggregateProofs, AggregateFails, CompressBatch, Reaper,
       CheckExpiredOrders, ReapOrder, MineFulfill, OtherFulfills, LockedEvent, FulfilledEvent,
       Price, Evict, Proving, GetProvingOrder, CreateSession, MonitorEnds, Submitter,
       GetCompleteBatch, SubmitFails, Submit, SetBatchSubmitted, SetBatchFailure,
       SetOrderComplete, ProvingRestart, SubmitUnconfirmed, CompletionFails, SubmitterRestarts,
       SubmitterRest, vars, chainVars, localVars, monitorVars
  <2> QED
    BY <1>4, <2>1
\* Jobs that end early: their transactions are live no more, and they are noted.
<1>11. ASSUME NEW S, lockTxs' = Abandoned(S), UNCHANGED locker,
              \A o \in Order : o \notin S => job'[o] = job[o],
              \A o \in Order : o \in S /\ job[o] \in {"sent", "locked"} => o \in abandoned'
       PROVE  LockInv'
  <2>1. \A tx \in [order : LockOrders, live : BOOLEAN] :
           LET t == [tx EXCEPT !.live = @ /\ tx.order \notin S]
           IN  t.order = tx.order /\ (t.live <=> tx.live /\ tx.order \notin S)
    OBVIOUS
  <2>2. ASSUME NEW tx \in lockTxs
        PROVE  /\ tx.live /\ tx.order \notin S => job'[tx.order] = "sent"
               /\ ~(tx.live /\ tx.order \notin S) => tx.order \in abandoned'
    BY <1>0, <1>11 DEF LockInv, Awaited
  <2>3. Awaited'
    BY <1>0, <1>11, <2>1, <2>2 DEF Awaited, Abandoned
  <2> QED
    BY <1>0, <1>3, <1>11, <2>3
<1>12. ASSUME NEW o \in Order, LockUnconfirmed(o) PROVE LockInv'
  <2>1. /\ lockTxs' = Abandoned({o}) /\ UNCHANGED locker /\ job' = [job EXCEPT ![o] = "none"]
        /\ o \in abandoned'
    BY <1>12 DEF LockUnconfirmed, EndJob
  <2>2. \A x \in Order : x \notin {o} => job'[x] = job[x]
    BY <1>0, <2>1
  <2> QED
    BY <1>11, <2>1, <2>2
<1>13. ASSUME NEW o \in Order, AcceptFails(o) PROVE LockInv'
  <2>1. /\ UNCHANGED <<lockTxs, locker>> /\ job' = [job EXCEPT ![o] = "none"]
        /\ job[o] \in {"accept", "locked"}
        /\ job[o] = "locked" => o \in abandoned'
    BY <1>13 DEF AcceptFails, EndJob, chainVars
  <2>2. Awaited'
    BY <1>0, <2>1 DEF LockInv, Awaited
  <2> QED
    BY <1>0, <1>3, <2>1, <2>2
<1>14. CASE Crash
  <2>1. /\ lockTxs' = Abandoned(Order) /\ UNCHANGED locker
        /\ abandoned' = abandoned \cup {o \in Order : job[o] \in {"sent", "locked"}}
    BY <1>14 DEF Crash
  <2> QED
    BY <1>11, <2>1
<1> QED
  BY <1>5, <1>6, <1>7, <1>8, <1>9, <1>10, <1>12, <1>13, <1>14
     DEF Next, Chain, OrderMonitor

\* Every request the chain has our lock of is one that a lock job is about to
\* accept or has accepted (lock_order, LockConfirmed), whatever the tables say of
\* it and whatever else failed or died; or its own job gave up, failed or died
\* between sending the transaction and recording the order as accepted.
THEOREM LocksAreKnown == Spec => []OurLockIsKnown
<1>1. Init => LockInv
  BY DEF Init, LockInv, Awaited, OurLockIsKnown
<1>2. LockInv => OurLockIsKnown
  BY DEF LockInv
<1> QED
  BY TypeInvHolds, LockInvKept, <1>1, <1>2, PTL DEF Spec

-----------------------------------------------------------------------------
(* The capacity                                                            *)

\* The orders that count.
Counted == {o \in Order \ revived : status[o] \in Committed \/ job[o] # "none"}

\* No service but the order monitor adds to them.  A status that overwrites one
\* that is not committed is either not committed itself, or the order is noted
\* as revived.
LEMMA CountedShrinks ==
    ASSUME BInv, TypeInv, LockInv, [Next]_vars,
           ~\E dropped, chosen \in SUBSET Order : MonitorBlock(dropped, chosen)
    PROVE  Counted' \subseteq Counted
<1>0. /\ status \in [Order -> OrderStatus] /\ job \in [Order -> JobStep]
      /\ lockTxs \subseteq [order : LockOrders, live : BOOLEAN] /\ LockOrders \subseteq Order
      /\ agg.pc = "prove" => agg.orders \subseteq Order
      /\ "Failed" \notin Committed /\ "Skipped" \notin Committed /\ "Done" \notin Committed
  BY BrokerAssumption DEF BInv, Types, Held, Known, TypeInv, ChainTypes, LocalTypes, Committed
<1> DEFINE Less == /\ \A o \in Order : status'[o] \in Committed => status[o] \in Committed
                   /\ UNCHANGED revived
           JobLess == \A o \in Order : job'[o] # "none" => job[o] # "none"
<1>1. ASSUME Less, JobLess PROVE Counted' \subseteq Counted
  BY <1>1 DEF Counted
<1>2. /\ \A S : Fail(S) => \A o \in Order : status'[o] \in Committed => status[o] \in Committed
      /\ \A S : InsertSkipped(S) => \A o \in Order : status'[o] \in Committed => status[o] \in Committed
  BY <1>0 DEF Fail, InsertSkipped, With
<1>3. ASSUME NEW tx \in lockTxs, MineLock(tx) PROVE Counted' \subseteq Counted
  <2>1. /\ UNCHANGED <<status, revived>>
        /\ \/ UNCHANGED job
           \/ tx.live /\ \E v : job' = [job EXCEPT ![tx.order] = v]
    BY <1>3 DEF MineLock, dbVars, historyVars
  <2>2. tx.live => job[tx.order] # "none"
    BY DEF LockInv, Awaited
  <2>3. JobLess
    BY <1>0, <2>1, <2>2
  <2> QED
    BY <1>1, <2>1, <2>3
<1>4. ASSUME NEW o \in Order, AcceptLate(o) \/ LockConfirmed(o) PROVE Counted' \subseteq Counted
  <2>1. /\ UNCHANGED revived /\ job[o] # "none" /\ job' = [job EXCEPT ![o] = "none"]
        /\ InsertAccepted(o) \/ InsertSkipped({o})
    BY <1>4 DEF AcceptLate, LockConfirmed, EndJob, historyVars
  <2>2. \A x \in Order : status'[x] \in Committed => status[x] \in Committed \/ x = o
    BY <1>0, <1>2, <2>1 DEF InsertAccepted, With
  <2> QED
    BY <1>0, <2>1, <2>2 DEF Counted
<1>5. ASSUME NEW o \in Order, LockOrder(o) \/ LockUnconfirmed(o) \/ AcceptFails(o)
      PROVE  Counted' \subseteq Counted
  <2>1. /\ UNCHANGED revived /\ job[o] # "none"
        /\ \E v : job' = [job EXCEPT ![o] = v]
        /\ InsertSkipped({o}) \/ UNCHANGED status
    BY <1>5 DEF LockOrder, LockUnconfirmed, AcceptFails, EndJob, dbVars, historyVars
  <2> QED
    BY <1>0, <1>1, <1>2, <2>1
<1>6. ASSUME NEW o \in Order, Price(o) \/ Evict(o) PROVE Counted' \subseteq Counted
  <2>1. UNCHANGED <<revived, job>> /\ (InsertSkipped({o}) \/ UNCHANGED status)
    BY <1>6 DEF Price, Evict, dbVars, historyVars
  <2> QED
    BY <1>1, <1>2, <2>1
<1>7. ASSUME NEW o \in Order, GetProvingOrder(o) \/ CreateSession(o) PROVE Counted' \subseteq Counted
  <2>1. UNCHANGED <<revived, job>>
    BY <1>7 DEF GetProvingOrder, CreateSession, monitorVars, historyVars
  <2>2. \/ status[o] = "PendingProving" /\ status' = [status EXCEPT ![o] = "Proving"]
        \/ Fail({o}) \/ UNCHANGED status
    BY <1>7 DEF GetProvingOrder, CreateSession
  <2>3. "PendingProving" \in Committed
    BY DEF Committed
  <2> QED
    BY <1>0, <1>1, <1>2, <2>1, <2>2, <2>3
<1>8. ASSUME NEW o \in Order, MonitorEnds(o) PROVE Counted' \subseteq Counted
  <2>1. UNCHANGED job
    BY <1>8 DEF MonitorEnds, monitorVars
  <2>2. CASE Fail({o}) /\ UNCHANGED revived
    BY <1>1, <1>2, <2>1, <2>2
  <2>3. CASE Revive({o}) /\ \E v : status' = [status EXCEPT ![o] = v]
    BY <1>0, <2>1, <2>3 DEF Revive, Counted
  <2>4. CASE UNCHANGED <<status, revived>>
    BY <1>1, <2>1, <2>4
  <2> QED
    BY <1>8, <2>2, <2>3, <2>4 DEF MonitorEnds
<1>9. ASSUME ProvingRestart \/ Crash PROVE Counted' \subseteq Counted
  <2>1. UNCHANGED revived /\ JobLess /\ Fail(Dangling \ proofId)
    BY <1>9 DEF ProvingRestart, Crash, FindAndMonitorProofs, monitorVars
  <2> QED
    BY <1>1, <1>2, <2>1
<1>10. ASSUME NEW b \in Batch, NEW finalize \in BOOLEAN, Collect(b, finalize)
       PROVE  Counted' \subseteq Counted
  <2>1. /\ UNCHANGED <<revived, job>>
        /\ \A o \in Order : status'[o] \in {"Failed", status[o]} \/ o \in Pending
    BY <1>10 DEF Collect, monitorVars, historyVars
  <2>2. \A o \in Pending : status[o] \in Committed
    BY DEF Pending, Committed
  <2> QED
    BY <1>0, <1>1, <2>1, <2>2
<1>11. CASE AggregateProofs
  <2>1. UNCHANGED job /\ Revive(agg.orders) /\ status' = With(status, agg.orders, "PendingSubmission")
    BY <1>11 DEF AggregateProofs, monitorVars
  <2> QED
    BY <1>0, <2>1 DEF Revive, With, Counted
<1>12. ASSUME NEW o \in Order, SetOrderComplete(o) PROVE Counted' \subseteq Counted
  <2>1. UNCHANGED <<revived, job>> /\ status' = [status EXCEPT ![o] = "Done"]
    BY <1>12 DEF SetOrderComplete, SubmitterRest, monitorVars
  <2> QED
    BY <1>0, <1>1, <2>1
<1>13. ASSUME \/ Tick \/ Reaper \/ UNCHANGED vars
              \/ \E tx \in fulfillTxs, reverted \in Reverts : MineFulfill(tx, reverted)
              \/ \E r \in Request : OtherLocks(r) \/ OtherFulfills(r) \/ LockedEvent(r) \/ FulfilledEvent(r)
              \/ AggregateFails \/ \E b \in Batch : CompressBatch(b) \/ GetCompleteBatch(b)
              \/ \E S \in SUBSET Order : SubmitFails(S) \/ Submit(S)
              \/ SetBatchSubmitted \/ SetBatchFailure
              \/ SubmitUnconfirmed \/ CompletionFails \/ SubmitterRestarts
       PROVE  Counted' \subseteq Counted
  <2>1. UNCHANGED <<revived, job>>
    BY <1>13 DEF Tick, Reaper, CheckExpiredOrders, ReapOrder, MineFulfill, OtherLocks,
       OtherFulfills, LockedEvent, FulfilledEvent, AggregateFails, CompressBatch,
       GetCompleteBatch, SubmitFails, Submit, SetBatchSubmitted, SetBatchFailure,
       SubmitUnconfirmed, CompletionFails, SubmitterRestarts, SubmitterRest, vars, localVars,
       monitorVars, historyVars
  <2>2. UNCHANGED status \/ \E S : Fail(S)
    BY <1>13 DEF Tick, Reaper, CheckExpiredOrders, ReapOrder, MineFulfill, OtherLocks,
       OtherFulfills, LockedEvent, FulfilledEvent, AggregateFails, CompressBatch,
       GetCompleteBatch, SubmitFails, Submit, SetBatchSubmitted, SetBatchFailure,
       SubmitUnconfirmed, CompletionFails, SubmitterRestarts, vars, dbVars
  <2> QED
    BY <1>1, <1>2, <2>1, <2>2
<1> QED
  BY <1>3, <1>4, <1>5, <1>6, <1>7, <1>8, <1>9, <1>10, <1>11, <1>12, <1>13
     DEF Next, Chain, OrderMonitor, Proving, Aggregator, Submitter

\* The order monitor takes as many orders as there is capacity for, when it has
\* no job left.
LEMMA BlockKeepsCapacity ==
    ASSUME BInv, TypeInv, CapacityKept,
           NEW dropped \in SUBSET Order, NEW chosen \in SUBSET Order, MonitorBlock(dropped, chosen)
    PROVE  CapacityKept'
<1> DEFINE working == {o \in Order : status[o] \in Committed}
<1>1. IsFiniteSet(working) /\ IsFiniteSet(chosen) /\ IsFiniteSet(Counted)
  BY BrokerAssumption, FS_Subset DEF Counted
<1>2. /\ \A o \in Order : job[o] = "none"
      /\ chosen # {} => Cardinality(chosen) <= Capacity
      /\ InsertSkipped(dropped) /\ UNCHANGED revived
      /\ \A o \in Order : job'[o] # "none" => o \in chosen
  BY DEF MonitorBlock, historyVars
<1>3. \A o \in Order : status'[o] \in Committed => status[o] \in Committed
  BY <1>2 DEF InsertSkipped, With, Committed, BInv, Types
<1>4. MaxConcurrentProofs \in Nat
  BY BrokerAssumption
<1>5. Cardinality(Counted') <= MaxConcurrentProofs
  <2>1. CASE chosen = {}
    <3>1. Counted' \subseteq Counted
      BY <1>2, <1>3, <2>1 DEF Counted
    <3>2. Cardinality(Counted') <= Cardinality(Counted) /\ Cardinality(Counted) <= MaxConcurrentProofs
      BY <1>1, <3>1, FS_Subset DEF CapacityKept, Counted
    <3>3. Cardinality(Counted') \in Nat /\ Cardinality(Counted) \in Nat
      BY <1>1, <3>1, FS_Subset, FS_CardinalityType
    <3> QED
      BY <1>4, <3>2, <3>3
  <2>2. CASE chosen # {}
    <3>1. Counted' \subseteq working \cup chosen
      BY <1>2, <1>3 DEF Counted
    <3>2. IsFiniteSet(working \cup chosen)
          /\ Cardinality(working \cup chosen) =
                Cardinality(working) + Cardinality(chosen) - Cardinality(working \cap chosen)
      BY <1>1, FS_Union
    <3>3. Cardinality(Counted') <= Cardinality(working \cup chosen)
      BY <3>1, <3>2, FS_Subset
    <3>4. IsFiniteSet(Counted') /\ IsFiniteSet(working \cap chosen)
      BY <1>1, <3>1, <3>2, FS_Subset
    <3>5. /\ Cardinality(working) \in Nat /\ Cardinality(chosen) \in Nat
          /\ Cardinality(working \cap chosen) \in Nat /\ Cardinality(Counted') \in Nat
      BY <1>1, <3>4, FS_CardinalityType
    <3>6. Cardinality(chosen) <= MaxConcurrentProofs - Cardinality(working)
      BY <1>2, <2>2 DEF Capacity
    <3> HIDE DEF working
    <3> QED
      BY <1>4, <3>2, <3>3, <3>5, <3>6
  <2> QED
    BY <2>1, <2>2
<1> QED
  BY <1>5 DEF CapacityKept, Counted

\* The orders the broker has committed to and the jobs that may commit to one
\* are never more than max_concurrent_proofs, apart from revived ones.
THEOREM CapacityIsKept == Spec => []CapacityKept
<1>1. Init => CapacityKept
  <2> HAVE Init
  <2>1. \A o \in Order : status[o] = "absent" /\ job[o] = "none"
    BY DEF Init
  <2>2. Counted = {}
    BY <2>1 DEF Counted, Committed
  <2>3. Cardinality({}) = 0
    BY FS_EmptySet
  <2>4. MaxConcurrentProofs \in Nat
    BY BrokerAssumption
  <2>5. Cardinality(Counted) <= MaxConcurrentProofs
    BY <2>2, <2>3, <2>4
  <2> QED
    BY <2>5 DEF CapacityKept, Counted
<1>2. BInv /\ TypeInv /\ LockInv /\ CapacityKept /\ [Next]_vars => CapacityKept'
  <2> SUFFICES ASSUME BInv, TypeInv, LockInv, CapacityKept, [Next]_vars,
                      ~\E dropped, chosen \in SUBSET Order : MonitorBlock(dropped, chosen)
               PROVE  CapacityKept'
    BY BlockKeepsCapacity
  <2>1. Counted' \subseteq Counted /\ IsFiniteSet(Counted)
    BY CountedShrinks, BrokerAssumption, FS_Subset DEF Counted
  <2>2. /\ Cardinality(Counted') <= Cardinality(Counted)
        /\ Cardinality(Counted') \in Nat /\ Cardinality(Counted) \in Nat
    BY <2>1, FS_Subset, FS_CardinalityType
  <2>3. Cardinality(Counted') <= MaxConcurrentProofs
    BY <2>2, BrokerAssumption DEF CapacityKept, Counted
  <2> QED
    BY <2>3 DEF CapacityKept, Counted
<1>3. Init => LockInv
  BY DEF Init, LockInv, Awaited, OurLockIsKnown
<1> QED
  BY TypeInvHolds, LockInvKept, <1>1, <1>2, <1>3, PTL DEF Spec

-----------------------------------------------------------------------------
(* An order is in one place                                                *)

\* With a proving task, with the aggregator, in a batch.
Proved    == {o \in Order : o \in sessions \/ monitors[o] > 0}
Collected == {o \in Order : agg.pc = "prove" /\ o \in agg.orders}
Batched   == {o \in Order : \E b \in Batch : o \in batches[b].orders}

Apart == \A b, c \in Batch : b # c => batches[b].orders \cap batches[c].orders = {}
SubmitsBatch == sub.pc # "idle" => sub.orders \subseteq batches[sub.batch].orders

\* In which place an order is shows in its status, as far as that is not Failed:
\* no service takes an order from the database that another one has.
OnePlace ==
    /\ \A o \in Order : monitors[o] <= 1 /\ (o \in sessions => monitors[o] = 0)
    /\ \A o \in Proved :
          status[o] \in {"Proving", "Failed"} /\ o \notin Collected /\ o \notin Batched
    /\ \A o \in Collected :
          /\ status[o] \in {"PendingAgg", "Aggregating", "SkipAggregation", "Failed"}
          /\ o \notin Batched
    /\ \A o \in Batched : status[o] \in {"PendingSubmission", "Done", "Failed"}
    /\ SubmitsBatch
    /\ Apart

PlaceInv == restarted = TRUE \/ OnePlace

LEMMA Places ==
    ASSUME BInv
    PROVE  /\ Proved \subseteq Known /\ Collected \subseteq Known /\ Batched \subseteq Known
           /\ Known \subseteq Order
<1> QED
  BY DEF BInv, Held, Proved, Collected, Batched, Known

\* A step that moves no order, fails some and changes the status of others that
\* are in no place.
LEMMA NothingMoves ==
    ASSUME OnePlace,
           \A o \in Order : monitors'[o] <= 1 /\ (o \in sessions' => monitors'[o] = 0),
           Proved' \subseteq Proved, Collected' \subseteq Collected,
           \A b \in Batch : batches'[b].orders = batches[b].orders,
           \A o \in Order : \/ status'[o] \in {status[o], "Failed"}
                            \/ o \notin Proved /\ o \notin Collected /\ o \notin Batched,
           SubmitsBatch'
    PROVE  OnePlace'
<1>1. Batched' = Batched /\ Apart'
  BY DEF Batched, OnePlace, Apart
<1>2. Proved \subseteq Order /\ Collected \subseteq Order /\ Batched \subseteq Order
  BY DEF Proved, Collected, Batched
<1>3. \A o \in Proved' :
         status'[o] \in {"Proving", "Failed"} /\ o \notin Collected' /\ o \notin Batched'
  BY <1>1, <1>2 DEF OnePlace
<1>4. \A o \in Collected' :
         /\ status'[o] \in {"PendingAgg", "Aggregating", "SkipAggregation", "Failed"}
         /\ o \notin Batched'
  BY <1>1, <1>2 DEF OnePlace
<1>5. \A o \in Batched' : status'[o] \in {"PendingSubmission", "Done", "Failed"}
  BY <1>1, <1>2 DEF OnePlace
<1> QED
  BY <1>1, <1>3, <1>4, <1>5 DEF OnePlace

\* The proving service.
LEMMA ProvingPlace ==
    ASSUME BInv, TypeInv, OnePlace, NEW o \in Order, Proving(o)
    PROVE  OnePlace'
<1>0. /\ status \in [Order -> OrderStatus] /\ monitors \in [Order -> Nat]
      /\ Proved \subseteq Order /\ Collected \subseteq Order /\ Batched \subseteq Order
  BY Places DEF BInv, Types
<1>1. /\ UNCHANGED <<batches, agg, sub>>
      /\ Collected' = Collected /\ Batched' = Batched /\ SubmitsBatch' /\ Apart'
  <2>1. UNCHANGED <<batches, agg, sub>>
    BY DEF Proving, GetProvingOrder, CreateSession, MonitorEnds, OrderDbRest
  <2> QED
    BY <2>1 DEF Collected, Batched, SubmitsBatch, Apart, OnePlace
<1>2. CASE GetProvingOrder(o)
  <2>1. /\ status[o] = "PendingProving" /\ status' = [status EXCEPT ![o] = "Proving"]
        /\ sessions' = sessions \cup {o} /\ UNCHANGED monitors
    BY <1>2 DEF GetProvingOrder
  <2>2. o \notin Proved /\ o \notin Collected /\ o \notin Batched
    BY <2>1 DEF OnePlace
  <2>3. monitors[o] = 0
    BY <1>0, <2>2 DEF Proved
  <2>4. Proved' = Proved \cup {o}
    BY <2>1 DEF Proved
  <2> QED
    BY <1>0, <1>1, <2>1, <2>2, <2>3, <2>4 DEF OnePlace
<1>3. CASE CreateSession(o)
  <2>1. /\ o \in sessions /\ sessions' = sessions \ {o}
        /\ \/ UNCHANGED status /\ monitors' = [monitors EXCEPT ![o] = @ + 1]
           \/ Fail({o}) /\ UNCHANGED monitors
    BY <1>3 DEF CreateSession
  <2>2. monitors[o] = 0 /\ o \in Proved
    BY <2>1 DEF OnePlace, Proved
  <2>3. Proved' \subseteq Proved
        /\ \A x \in Order : monitors'[x] <= 1 /\ (x \in sessions' => monitors'[x] = 0)
    BY <1>0, <2>1, <2>2 DEF OnePlace, Proved
  <2>4. \A x \in Order : status'[x] \in {status[x], "Failed"}
    BY <1>0, <2>1 DEF Fail, With
  <2> QED
    BY <1>1, <2>3, <2>4, NothingMoves
<1>4. CASE MonitorEnds(o)
  <2>1. /\ monitors[o] > 0 /\ monitors' = [monitors EXCEPT ![o] = @ - 1] /\ UNCHANGED sessions
        /\ \/ Fail({o}) \/ UNCHANGED status
           \/ \E v \in {"SkipAggregation", "PendingAgg"} : status' = [status EXCEPT ![o] = v]
    BY <1>4 DEF MonitorEnds
  <2>2. o \in Proved /\ monitors[o] = 1 /\ o \notin sessions
    BY <1>0, <2>1 DEF Proved, OnePlace
  <2>3. Proved' = Proved \ {o}
        /\ \A x \in Order : monitors'[x] <= 1 /\ (x \in sessions' => monitors'[x] = 0)
    BY <1>0, <2>1, <2>2 DEF Proved, OnePlace
  <2>4. o \notin Collected /\ o \notin Batched
    BY <2>2 DEF OnePlace
  <2>5. \A x \in Order : x # o => status'[x] = status[x]
    BY <1>0, <2>1 DEF Fail, With
  <2> QED
    BY <1>0, <1>1, <2>3, <2>4, <2>5 DEF OnePlace
<1> QED
  BY <1>2, <1>3, <1>4 DEF Proving

\* The aggregator.
LEMMA AggregatorPlace ==
    ASSUME BInv, TypeInv, OnePlace, Aggregator
    PROVE  OnePlace'
<1>0. /\ status \in [Order -> OrderStatus] /\ monitors \in [Order -> Nat]
      /\ batches \in [Batch -> [status : BatchStatus, orders : SUBSET Order]]
      /\ agg.pc = "prove" => agg.batch \in Batch /\ agg.orders \subseteq Order
      /\ sub.pc # "idle" => sub \in Submitting
      /\ Proved \subseteq Order /\ Collected \subseteq Order /\ Batched \subseteq Order
  BY Places DEF BInv, Types, Held, Known
<1>1. UNCHANGED <<sessions, monitors, sub>> /\ Proved' = Proved
      /\ \A x \in Order : monitors'[x] <= 1 /\ (x \in sessions' => monitors'[x] = 0)
  <2>1. UNCHANGED <<sessions, monitors, sub>>
    BY DEF Aggregator, Collect, AggregateProofs, AggregateFails, CompressBatch, localVars,
           provingVars
  <2> QED
    BY <2>1 DEF Proved, OnePlace
<1>2. ASSUME NEW b \in Batch, NEW finalize \in BOOLEAN, Collect(b, finalize) PROVE OnePlace'
  <2> DEFINE found == Pending \cup PendingGroth16
             valid == {o \in found : ExpireTimestamp(o) >= now}
  <2>1. /\ agg.pc = "idle" /\ UNCHANGED batches
        /\ status' = [o \in Order |->
               IF o \in found \ valid THEN "Failed"
               ELSE IF o \in Pending THEN "Aggregating" ELSE status[o]]
        /\ \/ agg' = agg
           \/ agg'.pc = "prove" /\ agg'.orders = valid
    BY <1>2 DEF Collect, OrderDbRest
  <2>2. \A o \in found : status[o] \in {"PendingAgg", "Aggregating", "SkipAggregation"}
    BY DEF Pending, PendingGroth16
  <2>3. \A o \in found : o \notin Proved /\ o \notin Batched
    BY <2>2 DEF OnePlace
  <2>4. Batched' = Batched /\ SubmitsBatch' /\ Apart'
    BY <1>1, <2>1 DEF Batched, SubmitsBatch, Apart, OnePlace
  <2>5. valid \subseteq found /\ found \subseteq Order
    BY DEF Pending, PendingGroth16
  <2>6. Collected' \subseteq valid
    <3>1. Collected' = {o \in Order : agg'.pc = "prove" /\ o \in agg'.orders}
      BY DEF Collected
    <3> HIDE DEF valid
    <3> QED
      BY <2>1, <3>1
  <2>7. /\ \A o \in Order : o \notin found => status'[o] = status[o]
        /\ \A o \in valid : status'[o] \in {"Aggregating", "SkipAggregation"}
    BY <2>1 DEF Pending, PendingGroth16
  <2> HIDE DEF found, valid
  <2>8. \A o \in Proved' :
           status'[o] \in {"Proving", "Failed"} /\ o \notin Collected' /\ o \notin Batched'
    BY <1>0, <1>1, <2>3, <2>4, <2>5, <2>6, <2>7 DEF OnePlace
  <2>9. \A o \in Collected' :
           /\ status'[o] \in {"PendingAgg", "Aggregating", "SkipAggregation", "Failed"}
           /\ o \notin Batched'
    BY <2>3, <2>4, <2>5, <2>6, <2>7
  <2>10. \A o \in Batched' : status'[o] \in {"PendingSubmission", "Done", "Failed"}
    BY <1>0, <2>3, <2>4, <2>7 DEF OnePlace
  <2> QED
    BY <1>1, <2>4, <2>8, <2>9, <2>10 DEF OnePlace
<1>3. CASE AggregateProofs
  <2>1. /\ agg.pc = "prove" /\ agg'.pc = "idle"
        /\ batches' = [batches EXCEPT
             ![agg.batch].orders = @ \cup agg.orders,
             ![agg.batch].status = IF agg.finalize THEN "PendingCompression" ELSE "Aggregating"]
        /\ status' = With(status, agg.orders, "PendingSubmission")
    BY <1>3 DEF AggregateProofs, UpdateBatch, Idle
  <2>2. Collected = agg.orders /\ Collected' = {}
    BY <1>0, <2>1 DEF Collected
  <2>3. \A b \in Batch : batches'[b].orders =
           IF b = agg.batch THEN batches[b].orders \cup Collected ELSE batches[b].orders
    BY <1>0, <2>1, <2>2
  <2>4. Batched' = Batched \cup Collected
    BY <1>0, <2>1, <2>2, <2>3 DEF Batched
  <2>5. /\ \A o \in Order : o \notin Collected => status'[o] = status[o]
        /\ \A o \in Collected : status'[o] = "PendingSubmission"
    BY <1>0, <2>1, <2>2 DEF With
  <2>6. \A o \in Collected : \A b \in Batch : o \notin batches[b].orders
    BY <1>0 DEF OnePlace, Batched
  <2>7. Apart'
    <3> SUFFICES ASSUME NEW b \in Batch, NEW c \in Batch, b # c
                 PROVE  batches'[b].orders \cap batches'[c].orders = {}
      BY DEF Apart
    <3>1. batches[b].orders \cap batches[c].orders = {}
      BY DEF OnePlace, Apart
    <3> QED
      BY <2>3, <2>6, <3>1
  <2>8. SubmitsBatch'
    <3>1. sub.pc # "idle" => sub.batch \in Batch /\ sub.orders \subseteq batches[sub.batch].orders
      BY <1>0 DEF OnePlace, SubmitsBatch, Submitting
    <3> QED
      BY <1>1, <2>3, <3>1 DEF SubmitsBatch
  <2>9. \A o \in Proved :
           status'[o] \in {"Proving", "Failed"} /\ o \notin Batched \cup Collected
    BY <1>0, <2>5 DEF OnePlace
  <2>10. \A o \in Batched \cup Collected : status'[o] \in {"PendingSubmission", "Done", "Failed"}
    BY <1>0, <2>5 DEF OnePlace
  <2> QED
    BY <1>1, <2>2, <2>4, <2>7, <2>8, <2>9, <2>10 DEF OnePlace
<1>4. ASSUME AggregateFails \/ \E b \in Batch : CompressBatch(b) PROVE OnePlace'
  <2>1. UNCHANGED status /\ (agg'.pc = "idle" \/ UNCHANGED agg)
        /\ (UNCHANGED batches \/ \E b \in Batch : \E v : batches' = [batches EXCEPT ![b].status = v])
    BY <1>4 DEF AggregateFails, CompressBatch, dbVars, localVars, Idle
  <2>2. /\ Collected' \subseteq Collected
        /\ \A b \in Batch : batches'[b].orders = batches[b].orders
    <3>1. Collected' \subseteq Collected
      BY <2>1 DEF Collected
    <3>2. \A b \in Batch : batches'[b].orders = batches[b].orders
      BY <1>0, <2>1
    <3> QED
      BY <3>1, <3>2
  <2>3. SubmitsBatch'
    BY <1>0, <1>1, <2>2 DEF SubmitsBatch, OnePlace, Submitting
  <2> QED
    BY <1>1, <2>1, <2>2, <2>3, NothingMoves
<1> QED
  BY <1>2, <1>3, <1>4 DEF Aggregator

\* The submitter.
LEMMA SubmitterPlace ==
    ASSUME BInv, TypeInv, OnePlace,
           Submitter \/ SubmitUnconfirmed \/ CompletionFails \/ SubmitterRestarts
    PROVE  OnePlace'
<1>0. /\ status \in [Order -> OrderStatus]
      /\ batches \in [Batch -> [status : BatchStatus, orders : SUBSET Order]]
      /\ sub.pc # "idle" => sub \in Submitting /\ sub.orders \subseteq batches[sub.batch].orders
      /\ Proved \subseteq Order /\ Collected \subseteq Order /\ Batched \subseteq Order
  BY Places DEF BInv, Types, OnePlace, SubmitsBatch
<1>1. /\ UNCHANGED <<sessions, monitors, agg>> /\ Proved' = Proved /\ Collected' = Collected
      /\ \A x \in Order : monitors'[x] <= 1 /\ (x \in sessions' => monitors'[x] = 0)
  <2>1. UNCHANGED <<sessions, monitors, agg>>
    BY DEF Submitter, GetCompleteBatch, SubmitFails, Submit, SetBatchSubmitted, SetBatchFailure,
       SetOrderComplete, SubmitUnconfirmed, CompletionFails, SubmitterRestarts, SubmitterRest,
       provingVars
  <2> QED
    BY <2>1 DEF Proved, Collected, OnePlace
<1> DEFINE Goal == /\ \A b \in Batch : batches'[b].orders = batches[b].orders
                   /\ SubmitsBatch'
<1>2. ASSUME sub.pc # "idle", NextAttempt, UNCHANGED batches PROVE Goal
  <2>1. sub'.batch = sub.batch /\ sub'.orders = batches[sub.batch].orders
    BY <1>0, <1>2 DEF NextAttempt, Submitting
  <2> QED
    BY <1>2, <2>1 DEF SubmitsBatch
<1>3. ASSUME NEW b \in Batch, GetCompleteBatch(b) PROVE Goal
  <2>1. \E v : batches' = [batches EXCEPT ![b].status = v]
    BY <1>3 DEF GetCompleteBatch
  <2>2. sub'.batch = b /\ sub'.orders = batches[b].orders
    BY <1>3 DEF GetCompleteBatch
  <2> QED
    BY <1>0, <2>1, <2>2 DEF SubmitsBatch
<1>4. ASSUME NEW left \in SUBSET Order, Submit(left) PROVE Goal
  <2>1. sub.pc # "idle" /\ UNCHANGED batches /\ sub' = [sub EXCEPT !.pc = "sent", !.orders = @ \ left]
    BY <1>4 DEF Submit, Attempting
  <2>2. sub'.batch = sub.batch /\ sub'.orders = sub.orders \ left
    BY <1>0, <2>1 DEF Submitting
  <2> QED
    BY <1>0, <2>1, <2>2 DEF SubmitsBatch
<1>5. ASSUME SetBatchSubmitted \/ SetBatchFailure \/ SubmitterRestarts PROVE Goal
  <2>1. /\ sub.pc # "idle" /\ sub'.pc = "idle"
        /\ \/ UNCHANGED batches
           \/ \E s \in {"Submitted", "Failed"} : batches' = [batches EXCEPT ![sub.batch].status = s]
    BY <1>5 DEF SetBatchSubmitted, SetBatchFailure, SubmitterRestarts, Completing, GivingUp, Idle
  <2>2. sub.batch \in Batch /\ SubmitsBatch'
    BY <1>0, <2>1 DEF SubmitsBatch, Submitting
  <2>3. \A b \in Batch : batches'[b].orders = batches[b].orders
    BY <1>0, <2>1, <2>2
  <2> QED
    BY <2>2, <2>3
<1>6. ASSUME NEW o \in Order, SetOrderComplete(o) PROVE OnePlace'
  <2>1. /\ sub.pc # "idle" /\ UNCHANGED batches /\ o \in sub.orders
        /\ status' = [status EXCEPT ![o] = "Done"]
        /\ sub' = [sub EXCEPT !.pc = "completing", !.orders = @ \ {o}]
    BY <1>6 DEF SetOrderComplete, Completing
  <2>2. sub'.batch = sub.batch /\ sub'.orders = sub.orders \ {o}
    BY <1>0, <2>1 DEF Submitting
  <2>3. SubmitsBatch' /\ Batched' = Batched /\ Apart'
    BY <1>0, <2>1, <2>2 DEF SubmitsBatch, Batched, Apart, OnePlace
  <2>4. o \in Batched
    BY <1>0, <2>1 DEF Batched, Submitting
  <2>5. o \notin Proved /\ o \notin Collected
    BY <2>4 DEF OnePlace
  <2> QED
    BY <1>0, <1>1, <2>1, <2>3, <2>5 DEF OnePlace
<1>7. ASSUME Goal, UNCHANGED status \/ \E S : Fail(S) PROVE OnePlace'
  <2>1. \A o \in Order : status'[o] \in {status[o], "Failed"}
    BY <1>0, <1>7 DEF Fail, With
  <2> QED
    BY <1>1, <1>7, <2>1, NothingMoves
<1>8. ASSUME \/ \E S \in SUBSET Order : SubmitFails(S)
             \/ SubmitUnconfirmed
             \/ CompletionFails
      PROVE  OnePlace'
  <2>1. /\ sub.pc # "idle" /\ NextAttempt /\ UNCHANGED batches
        /\ UNCHANGED status \/ \E S : Fail(S)
    BY <1>8 DEF SubmitFails, SubmitUnconfirmed, CompletionFails, Attempting
  <2> QED
    BY <1>2, <1>7, <2>1
<1>9. \/ \E b \in Batch : GetCompleteBatch(b)
      \/ \E left \in SUBSET Order : Submit(left)
      \/ SetBatchSubmitted \/ SetBatchFailure \/ SubmitterRestarts
      => UNCHANGED status \/ \E S : Fail(S)
  BY DEF GetCompleteBatch, Submit, SetBatchSubmitted, SetBatchFailure, SubmitterRestarts
<1> QED
  BY <1>3, <1>4, <1>5, <1>6, <1>7, <1>8, <1>9 DEF Submitter

\* The others: they touch only the status, of orders in no place or to fail them.
LEMMA OthersPlace ==
    ASSUME BInv, TypeInv, OnePlace,
           \/ Tick \/ Chain \/ Reaper \/ UNCHANGED vars
           \/ \E r \in Request : OtherLocks(r) \/ OtherFulfills(r) \/ LockedEvent(r) \/ FulfilledEvent(r)
           \/ \E o \in Order : Price(o) \/ Evict(o) \/ OrderMonitor(o)
           \/ \E o \in Order : LockUnconfirmed(o) \/ AcceptFails(o)
           \/ \E dropped, chosen \in SUBSET Order : MonitorBlock(dropped, chosen)
    PROVE  OnePlace'
<1>0. /\ status \in [Order -> OrderStatus]
      /\ Proved \subseteq Known /\ Collected \subseteq Known /\ Batched \subseteq Known
  BY Places DEF BInv, Types
<1>1. UNCHANGED <<sessions, monitors, agg, sub, batches>>
  BY DEF Tick, Chain, MineLock, MineFulfill, Reaper, CheckExpiredOrders, ReapOrder, OtherLocks,
     OtherFulfills, LockedEvent, FulfilledEvent, Price, Evict, OrderMonitor, AcceptLate,
     LockOrder, LockConfirmed, LockUnconfirmed, AcceptFails, EndJob, MonitorBlock, OrderDbRest, vars, dbVars,
     localVars, provingVars
<1>2. \/ UNCHANGED status
      \/ \E S : Fail(S) \/ InsertSkipped(S)
      \/ \E o \in Order : InsertAccepted(o)
  BY DEF Tick, Chain, MineLock, MineFulfill, Reaper, CheckExpiredOrders, ReapOrder, OtherLocks,
     OtherFulfills, LockedEvent, FulfilledEvent, Price, Evict, OrderMonitor, AcceptLate,
     LockOrder, LockConfirmed, LockUnconfirmed, AcceptFails, MonitorBlock, vars, dbVars
<1>3. \A o \in Order : status'[o] \in {status[o], "Failed"} \/ o \notin Known
  BY <1>0, <1>2 DEF Fail, InsertSkipped, InsertAccepted, With, Known
<1>4. Proved' = Proved /\ Collected' = Collected /\ SubmitsBatch'
  BY <1>1 DEF Proved, Collected, SubmitsBatch, OnePlace
<1>5. \A o \in Order : monitors'[o] <= 1 /\ (o \in sessions' => monitors'[o] = 0)
  BY <1>1 DEF OnePlace
<1> QED
  BY <1>0, <1>1, <1>3, <1>4, <1>5, NothingMoves

\* A crash empties every place but the batches; the order whose proof is watched
\* again was in none, since it was being proved.
LEMMA CrashPlace ==
    ASSUME BInv, TypeInv, OnePlace, Crash
    PROVE  OnePlace'
<1>0. status \in [Order -> OrderStatus] /\ Batched \subseteq Order
  BY Places DEF BInv, Types
<1>1. /\ UNCHANGED batches /\ sessions' = {} /\ agg'.pc = "idle" /\ sub'.pc = "idle"
      /\ Fail(Dangling \ proofId)
      /\ monitors' = [o \in Order |-> IF o \in Dangling \cap proofId THEN 1 ELSE 0]
  BY DEF Crash, FindAndMonitorProofs, OrderDbRest, Idle
<1>2. Batched' = Batched /\ Collected' = {} /\ Apart' /\ SubmitsBatch'
  BY <1>1 DEF Batched, Collected, Apart, SubmitsBatch, OnePlace
<1>3. Proved' = Dangling \cap proofId
  BY <1>1 DEF Proved, Dangling
<1>4. \A o \in Proved' : o \in Order /\ status[o] = "Proving" /\ status'[o] = "Proving"
  BY <1>0, <1>1, <1>3 DEF Dangling, Fail, With
<1>5. \A o \in Proved' : o \notin Batched
  BY <1>4 DEF OnePlace
<1>6. \A o \in Batched : status'[o] \in {"PendingSubmission", "Done", "Failed"}
  BY <1>0, <1>1 DEF Fail, With, OnePlace
<1>7. \A o \in Order : monitors'[o] <= 1 /\ (o \in sessions' => monitors'[o] = 0)
  BY <1>1
<1> QED
  BY <1>2, <1>4, <1>5, <1>6, <1>7 DEF OnePlace

LEMMA PlaceInvKept ==
    ASSUME BInv, TypeInv, PlaceInv, [Next]_vars
    PROVE  PlaceInv'
<1>1. CASE restarted = TRUE
  <2>1. restarted' = restarted \/ restarted' = TRUE
    BY DEF Next, Tick, Chain, MineLock, MineFulfill, OtherLocks, OtherFulfills, LockedEvent,
       FulfilledEvent, Price, Evict, OrderMonitor, AcceptLate, LockOrder, LockConfirmed,
       LockUnconfirmed, AcceptFails, Proving, GetProvingOrder, CreateSession, MonitorEnds,
       MonitorBlock, Aggregator, Collect, AggregateProofs, AggregateFails, CompressBatch, Submitter,
       GetCompleteBatch, SubmitFails, Submit, SetBatchSubmitted, SetBatchFailure,
       SetOrderComplete, Reaper, CheckExpiredOrders, ReapOrder, ProvingRestart,
       SubmitUnconfirmed, CompletionFails, SubmitterRestarts, Crash, SubmitterRest, vars,
       historyVars
  <2> QED
    BY <1>1, <2>1 DEF PlaceInv
<1>2. CASE OnePlace
  <2>1. ProvingRestart => restarted' = TRUE
    BY DEF ProvingRestart
  <2> QED
    BY <1>2, <2>1, ProvingPlace, AggregatorPlace, SubmitterPlace, OthersPlace, CrashPlace
       DEF Next, PlaceInv
<1> QED
  BY <1>1, <1>2 DEF PlaceInv

\* As long as the proving service was not restarted, no order is in two batches,
\* although every service overwrites the status that the others wrote.
THEOREM OrdersAreInOneBatch == Spec => []InOneBatch
<1>1. Init => PlaceInv
  BY DEF Init, PlaceInv, OnePlace, Proved, Collected, Batched, Apart, SubmitsBatch, Idle, NoBatch
<1>2. PlaceInv => InOneBatch
  BY DEF PlaceInv, OnePlace, Apart, InOneBatch
<1> QED
  BY TypeInvHolds, PlaceInvKept, <1>1, <1>2, PTL DEF Spec

=============================================================================
