--------------------------- MODULE HedgeExecution ---------------------------
(***************************************************************************)
(* One keeper process executing hedges on one chain: the cycle of          *)
(* src/hedgerBot.ts, the off-venue pair of transactions of                 *)
(* src/hedge/executeWithVenue.ts, the relay of src/safe/signedTxRelay.ts   *)
(* and the fee-bumping sender of src/safe/keeperSender.ts, over the        *)
(* journal of HedgeJournal, with the mempool and the chain as environment. *)
(*                                                                         *)
(* The scheduler of src/main.ts runs cycles and relays one at a time, so   *)
(* the process is one thread; each await, and each file write, is a step   *)
(* boundary at which the chain may move or the process may die.            *)
(*                                                                         *)
(* A hedge runs in one of three ways.  "hedge": one transaction (dispatch, *)
(* netted dispatch, collateral swap, redeposit, burn stage).  "dispatch"   *)
(* then "swap": tx1 mints without the in-pool swap and leaves the book     *)
(* unbalanced by the amount tx2 swaps off-venue.  "recovery": a later      *)
(* cycle runs the swap a durable obligation still asks for.  "relay" sends *)
(* a Safe transaction of the owners.                                       *)
(***************************************************************************)
EXTENDS HedgeJournal

CONSTANTS
  Faults,        \* what the environment may do, a subset of FaultNames
  MaxExternal,   \* bound: transactions of the key that no intent sent
  MaxCrashes     \* bound: crashes in a behaviour

FaultNames ==
  {"crash",               \* the process dies and is restarted
   "revert",              \* a transaction reverts
   "evict",               \* every node forgets a pending transaction
   "external",            \* the key's nonce is spent outside the journal
   "abort",               \* a step ahead of the broadcast throws
   "reject",              \* the node explicitly refuses a broadcast
   "sendTimeout",         \* the answer to a first broadcast is lost
   "resendTimeout",       \* the answer to a replacement is lost
   "alreadyKnown",        \* the node answers "already known", without a hash
   "receiptRpc",          \* polling for receipts fails with an RPC error
   "killSwitch",          \* sends are forbidden while a transaction waits
   "legacyFees",          \* a send may take the pre-1559 path, which wraps errors
   "recoveryRpc",         \* an RPC round of recover() fails
   "mineDuringRecovery",  \* a block arrives between two rounds of recover()
   "clearFails"}          \* removing the obligation file fails, wherever it is due

ASSUME FaultsAssumption == Faults \subseteq FaultNames

ASSUME LimitsAssumption == MaxExternal \in Nat /\ MaxCrashes \in Nat

VARIABLES
  pc,          \* where the process stands
  op,          \* what the current send is for
  obligation,  \* the pending SFPM swap file, durable
  mayBump,     \* a head newer than the last broadcast has been seen
  chainNonce,  \* the key's mined transaction count
  pool,        \* transactions that can still be mined
  mined,       \* receipts
  externals,   \* transactions spent outside the journal so far
  crashes      \* crashes so far

botVars   == <<pc, op, obligation, mayBump>>
chainVars == <<chainNonce, pool, mined, externals>>
vars      == <<journalVars, botVars, chainVars, crashes>>

-----------------------------------------------------------------------------
Op == {"none", "hedge", "dispatch", "swap", "recovery", "relay"}

\* What a mined transaction of an operation does to the book.
Effect == {"hedge", "dispatch", "swap", "relay"}
EffectOf(o) == IF o = "recovery" THEN "swap" ELSE o

Location == {"down", "init", "initReconcile", "idle", "cycle", "reconcile", "plan",
             "save", "prepare", "attempt", "broadcast", "record", "wait", "nonceSpent",
             "settled", "error", "next", "link", "clear", "undo"}

NoObligation == [dispatch |-> NoId, swap |-> NoId]
Obligation   == [dispatch : 0..MaxIntents, swap : 0..MaxIntents]

\* fresh: no block has passed since the broadcast, so the transaction may not
\* have reached every observer yet.
Tx == [id : 1..MaxIntents, try : 1..MaxAttempts, nonce : Nat, effect : Effect,
       fresh : BOOLEAN]

Receipt == [id : 1..MaxIntents, try : 1..MaxAttempts, effect : Effect, ok : BOOLEAN]

TypeOK ==
  /\ JournalTypeOK
  /\ pc \in Location
  /\ op \in Op
  /\ obligation \in Obligation
  /\ mayBump \in BOOLEAN
  /\ chainNonce \in Nat
  /\ pool \subseteq Tx
  /\ mined \subseteq Receipt
  /\ externals \in 0..MaxExternal
  /\ crashes \in 0..MaxCrashes

Current == {e \in intents : e.id = active}

\* Receipts of the recorded hashes of entry e.
ReceiptsOf(e) == {r \in mined : r.id = e.id /\ r.try \in e.hashes}

\* The pending transaction count a node may report: it may not know the
\* transactions in the pool.
PendingCounts ==
  {n \in chainNonce..(chainNonce + Cardinality(pool)) :
     \A k \in chainNonce..(n - 1) : \E t \in pool : t.nonce = k}

Goto(l) == pc' = l
At(l)   == pc = l

\* PendingSfpmSwapStore.clear(): the file is removed and the process goes on to
\* l, or the removal throws, the file stays, and the error takes it to f.
ClearThen(l, f) ==
  \/ obligation' = NoObligation /\ Goto(l)
  \/ "clearFails" \in Faults /\ UNCHANGED obligation /\ Goto(f)
-----------------------------------------------------------------------------
(***************************************************************************)
(* Startup and the start of a cycle: recover(), then the obligation is     *)
(* reconciled with the checkpoint.                                         *)
(***************************************************************************)

\* resolvePendingHedgeIntent and init both run recover() on a pending intent.
StartRecovery ==
  /\ pc \in {"init", "cycle"}
  /\ RecoverStart
  /\ UNCHANGED <<botVars, chainVars, crashes>>

\* init() reconciles whether or not the intent was held; a cycle whose intent
\* is held ends, one whose intent is settled reconciles.
AfterRecovery ==
  pc' = IF recovery' # "off" THEN pc
        ELSE IF pc = "init" THEN "initReconcile"
        ELSE IF HasPendingIntent' THEN "idle" ELSE "reconcile"

RecoveryReceipts ==
  /\ \E e \in Pending :
       RecoverReceipts(IF \E r \in ReceiptsOf(e) : r.ok THEN "success"
                       ELSE IF ReceiptsOf(e) # {} THEN "reverted" ELSE "none")
  /\ AfterRecovery
  /\ UNCHANGED <<op, obligation, mayBump, chainVars, crashes>>

RecoveryNonce ==
  /\ \E e \in Pending : RecoverNonce(chainNonce > e.nonce)
  /\ AfterRecovery
  /\ UNCHANGED <<op, obligation, mayBump, chainVars, crashes>>

\* getTransaction finds pending and mined transactions.  A live transaction
\* broadcast in this very block may not have reached the observers.
RecoveryMempool ==
  /\ \E e \in Pending :
       LET live == {t \in pool : t.id = e.id /\ t.try \in e.hashes}
       IN \E visible \in BOOLEAN :
            /\ ReceiptsOf(e) # {} \/ (\E t \in live : ~t.fresh) => visible
            /\ visible => ReceiptsOf(e) # {} \/ live # {}
            /\ RecoverMempool(visible)
  /\ AfterRecovery
  /\ UNCHANGED <<op, obligation, mayBump, chainVars, crashes>>

\* A cycle holds on an RPC error of recover(); init() throws and main()
\* retries it.
RecoveryFails ==
  /\ "recoveryRpc" \in Faults
  /\ RecoverAbort
  /\ pc' = IF pc = "init" THEN "down" ELSE "idle"
  /\ UNCHANGED <<op, obligation, mayBump, chainVars, crashes>>

\* recover() of init() finds nothing pending, and only prunes.
NothingToRecover ==
  /\ At("init")
  /\ recovery = "off"
  /\ ~HasPendingIntent
  /\ intents' \in Pruned(intents)
  /\ Goto("initReconcile")
  /\ UNCHANGED <<nextId, active, age, absent, recovery, stalled,
                 op, obligation, mayBump, chainVars, crashes>>

\* A cycle with nothing pending plans at once, without reconciling.
NothingPending ==
  /\ At("cycle")
  /\ ~HasPendingIntent
  /\ Goto("plan")
  /\ UNCHANGED <<journalVars, op, obligation, mayBump, chainVars, crashes>>

\* What reconcilePendingSwapAfterRecovery finds stale: an obligation whose swap
\* is confirmed, or whose dispatch is not the checkpoint.
Stale ==
  /\ obligation # NoObligation
  /\ \/ CheckpointIsSwap(obligation.swap)
     \/ obligation.swap = NoId /\ \E e \in Latest(intents) : e.action = "sfpm_swap"
     \/ ~CheckpointOf(obligation.dispatch)

\* Mutant of Reconcile: init() forgets to reconcile.
ReconcileCyclesOnly ==
  /\ pc \in {"initReconcile", "reconcile"}
  /\ LET after == IF At("initReconcile") THEN "idle" ELSE "plan"
     IN IF Stale /\ At("reconcile") THEN ClearThen(after, "idle")
        ELSE UNCHANGED obligation /\ Goto(after)
  /\ UNCHANGED <<journalVars, op, mayBump, chainVars, crashes>>

\* reconcilePendingSwapAfterRecovery drops a stale obligation.  When the removal
\* throws, init() fails and main() retries it from the start; a cycle ends, and
\* the next one finds no pending intent and does not come back here.
Reconcile ==
  /\ pc \in {"initReconcile", "reconcile"}
  /\ LET after  == IF At("initReconcile") THEN "idle" ELSE "plan"
         failed == IF At("initReconcile") THEN "down" ELSE "idle"
     IN IF Stale THEN ClearThen(after, failed)
        ELSE UNCHANGED obligation /\ Goto(after)
  /\ UNCHANGED <<journalVars, op, mayBump, chainVars, crashes>>

StartCycle ==
  /\ At("idle")
  /\ Goto("cycle")
  /\ UNCHANGED <<journalVars, op, obligation, mayBump, chainVars, crashes>>
-----------------------------------------------------------------------------
(***************************************************************************)
(* Planning: what the cycle decides to send, and the intent it opens.      *)
(***************************************************************************)

\* Nothing to do, an unsafe account, a deferral, an obligation whose swap
\* cannot be quoted or simulated: the cycle ends.
EndCycle ==
  /\ At("plan")
  /\ Goto("idle")
  /\ UNCHANGED <<journalVars, op, obligation, mayBump, chainVars, crashes>>

\* Mutant of BeginHedge: an obligation does not block planning.
BeginHedgeUnblocked ==
  /\ At("plan")
  /\ Begin("hedge")
  /\ \/ op' = "hedge" /\ Goto("prepare")
     \/ op' = "dispatch" /\ Goto("save")
  /\ UNCHANGED <<obligation, mayBump, chainVars, crashes>>

\* A single-transaction hedge, or tx1 of an off-venue hedge.
BeginHedge ==
  /\ At("plan")
  /\ obligation = NoObligation
  /\ Begin("hedge")
  /\ \/ op' = "hedge" /\ Goto("prepare")
     \/ op' = "dispatch" /\ Goto("save")
  /\ UNCHANGED <<obligation, mayBump, chainVars, crashes>>

\* Mutant of BeginSwapRecovery: does not look for the swap in the journal.
BeginSwapRecoveryBlind ==
  /\ At("plan")
  /\ obligation # NoObligation
  /\ Begin("sfpm_swap")
  /\ op' = "recovery"
  /\ Goto("link")
  /\ UNCHANGED <<obligation, mayBump, chainVars, crashes>>

\* Mutant of BeginSwapRecovery: resumes a swap only if one had been opened.
BeginSwapRecoveryLinked ==
  /\ At("plan")
  /\ obligation.swap # NoId
  /\ ~CheckpointIsSwap(obligation.swap)
  /\ Begin("sfpm_swap")
  /\ op' = "recovery"
  /\ Goto("link")
  /\ UNCHANGED <<obligation, mayBump, chainVars, crashes>>

\* recoverPendingSfpmSwap: an obligation blocks every other plan.
BeginSwapRecovery ==
  /\ At("plan")
  /\ obligation # NoObligation
  /\ ~(obligation.swap # NoId /\ CheckpointIsSwap(obligation.swap))
  /\ Begin("sfpm_swap")
  /\ op' = "recovery"
  /\ Goto("link")
  /\ UNCHANGED <<obligation, mayBump, chainVars, crashes>>

\* recoverPendingSfpmSwap finds the swap it asks for already confirmed.
ClearConfirmedSwap ==
  /\ At("plan")
  /\ obligation.swap # NoId
  /\ CheckpointIsSwap(obligation.swap)
  /\ ClearThen("idle", "idle")
  /\ UNCHANGED <<journalVars, op, mayBump, chainVars, crashes>>

\* runSafeRelay of main.ts: only while nothing is pending or owed.
BeginRelay ==
  /\ At("idle")
  /\ obligation = NoObligation
  /\ Begin("safe_relay")
  /\ op' = "relay"
  /\ Goto("prepare")
  /\ UNCHANGED <<obligation, mayBump, chainVars, crashes>>

\* beforeDispatch: the obligation is durable before tx1 is sent.
SaveObligation ==
  /\ At("save")
  /\ obligation' = [dispatch |-> active, swap |-> NoId]
  /\ Goto("prepare")
  /\ UNCHANGED <<journalVars, op, mayBump, chainVars, crashes>>

\* afterDispatch opens the swap's intent once the dispatch is confirmed.
BeginSwap ==
  /\ At("next")
  /\ Begin("sfpm_swap")
  /\ op' = "swap"
  /\ Goto("link")
  /\ UNCHANGED <<obligation, mayBump, chainVars, crashes>>

\* The obligation names the intent that will discharge it.
LinkObligation ==
  /\ At("link")
  /\ obligation' = [obligation EXCEPT !.swap = active]
  /\ Goto("prepare")
  /\ UNCHANGED <<journalVars, op, mayBump, chainVars, crashes>>
-----------------------------------------------------------------------------
(***************************************************************************)
(* KeeperSender.send: one pinned nonce, one durable identity, a marker     *)
(* ahead of each broadcast, the hash recorded behind it.                   *)
(***************************************************************************)

\* Quotes, simulations, the owner check, fees, the gas estimate, the fence and
\* the affordability check may all throw before the identity is durable.
AbortSend ==
  /\ "abort" \in Faults
  /\ At("prepare")
  /\ Goto("error")
  /\ UNCHANGED <<journalVars, op, obligation, mayBump, chainVars, crashes>>

\* The nonce is read and becomes durable with the rest of the identity.
PinNonce ==
  /\ At("prepare")
  /\ \E n \in PendingCounts : ObserveTransaction(n, {})
  /\ Goto("attempt")
  /\ UNCHANGED <<op, obligation, mayBump, chainVars, crashes>>

RecordAttempt ==
  /\ At("attempt")
  /\ RecordBroadcastAttempt
  /\ Goto("broadcast")
  /\ mayBump' = FALSE
  /\ UNCHANGED <<op, obligation, chainVars, crashes>>

\* Mutant of NewTx: each replacement takes a nonce of its own.
NewTxUnpinned(e) == [id |-> e.id, try |-> e.attempts, nonce |-> e.nonce + e.attempts - 1,
                     effect |-> EffectOf(op), fresh |-> TRUE]

NewTx(e) == [id |-> e.id, try |-> e.attempts, nonce |-> e.nonce,
             effect |-> EffectOf(op), fresh |-> TRUE]

\* The node takes the transaction and answers with its hash.
BroadcastAccepted ==
  /\ At("broadcast")
  /\ \E e \in Current : e.nonce >= chainNonce /\ pool' = pool \cup {NewTx(e)}
  /\ Goto("record")
  /\ UNCHANGED <<journalVars, op, obligation, mayBump, chainNonce, mined, externals, crashes>>

RecordHash ==
  /\ At("record")
  /\ \E e \in Current : ObserveTransaction(e.nonce, e.hashes \cup {e.attempts})
  /\ Goto("wait")
  /\ UNCHANGED <<op, obligation, mayBump, chainVars, crashes>>

\* A refused first broadcast throws; a replacement refused for its fee or the
\* keeper's balance leaves the recorded attempts waiting.
BroadcastRejected ==
  /\ At("broadcast")
  /\ "reject" \in Faults
  /\ RecordBroadcastRejection
  /\ \E e \in Current : pc' = IF e.attempts = 1 THEN "error" ELSE "wait"
  /\ UNCHANGED <<op, obligation, mayBump, chainVars, crashes>>

\* The nonce was spent before the broadcast arrived: an explicit rejection.
\* A replacement then looks for the receipt of an earlier attempt.
BroadcastNonceSpent ==
  /\ At("broadcast")
  /\ RecordBroadcastRejection
  /\ \E e \in Current :
       /\ e.nonce < chainNonce
       /\ pc' = IF e.attempts = 1 THEN "error" ELSE "nonceSpent"
  /\ UNCHANGED <<op, obligation, mayBump, chainVars, crashes>>

\* The answer is lost, whether the node took the transaction or not: no hash
\* comes back and nothing is recorded.  A first broadcast throws, a replacement
\* is only logged.
BroadcastUnanswered ==
  /\ At("broadcast")
  /\ \E e \in Current :
       /\ (IF e.attempts = 1 THEN "sendTimeout" ELSE "resendTimeout") \in Faults
       /\ \/ e.nonce >= chainNonce /\ pool' = pool \cup {NewTx(e)}
          \/ pool' = pool
       /\ pc' = IF e.attempts = 1 THEN "error" ELSE "wait"
  /\ UNCHANGED <<journalVars, op, obligation, mayBump, chainNonce, mined, externals, crashes>>

\* "already known": the node has the transaction and returns no hash.  It is
\* not recorded as a rejection, but isNonceError matches it: a replacement
\* goes looking for a receipt as if the nonce had been spent.
BroadcastAlreadyKnown ==
  /\ "alreadyKnown" \in Faults
  /\ At("broadcast")
  /\ \E e \in Current :
       /\ e.nonce >= chainNonce
       /\ pool' = pool \cup {NewTx(e)}
       /\ pc' = IF e.attempts = 1 THEN "error" ELSE "nonceSpent"
  /\ UNCHANGED <<journalVars, op, obligation, mayBump, chainNonce, mined, externals, crashes>>

\* waitForAnyReceipt returns the receipt of any recorded attempt.  A reverted
\* planned dispatch leaves its intent to recovery; a reverted burn stage,
\* collateral swap or redeposit deletes it like the other operations of a cycle.
ReceiptFound ==
  /\ pc \in {"wait", "nonceSpent"}
  /\ \E e \in Current : \E r \in ReceiptsOf(e) :
       \/ r.ok /\ Goto("settled")
       \/ ~r.ok /\ op # "relay" /\ Goto("error")
       \/ ~r.ok /\ op = "hedge" /\ Goto("idle")
  /\ UNCHANGED <<journalVars, op, obligation, mayBump, chainVars, crashes>>

\* The replacement's nonce error had another cause than our own attempts.
NonceSpentElsewhere ==
  /\ At("nonceSpent")
  /\ \A e \in Current : ReceiptsOf(e) = {}
  /\ Goto("error")
  /\ UNCHANGED <<journalVars, op, obligation, mayBump, chainVars, crashes>>

\* An RPC error while polling receipts is rethrown, whatever has been mined.
ReceiptRpcFails ==
  /\ "receiptRpc" \in Faults
  /\ pc \in {"wait", "nonceSpent"}
  /\ Goto("error")
  /\ UNCHANGED <<journalVars, op, obligation, mayBump, chainVars, crashes>>

\* At most one replacement per new head; assertSendAllowed runs first.
Bump ==
  /\ At("wait")
  /\ mayBump
  /\ \E e \in Current : e.attempts < MaxAttempts
  /\ \/ Goto("attempt")
     \/ "killSwitch" \in Faults /\ Goto("error")
  /\ mayBump' = FALSE
  /\ UNCHANGED <<journalVars, op, obligation, chainVars, crashes>>

\* The receipt budget is over and the final sweep finds nothing: the intent
\* stays pending.  On the legacy path, which never sends a replacement, the
\* error passes through enrich(), which may replace it by an ordinary one.
NotMined ==
  /\ At("wait")
  /\ \A e \in Current : ReceiptsOf(e) = {}
  /\ \/ Goto("idle")
     \/ "legacyFees" \in Faults /\ (\A e \in Current : e.attempts = 1) /\ Goto("error")
  /\ UNCHANGED <<journalVars, op, obligation, mayBump, chainVars, crashes>>
-----------------------------------------------------------------------------
(***************************************************************************)
(* Bookkeeping after the send, per kind of operation.                      *)
(***************************************************************************)

\* A successful receipt confirms the intent.  A confirmed dispatch goes on to
\* its swap, anything else of the cycle removes the obligation file.
ConfirmSend ==
  /\ At("settled")
  /\ \E e \in Current : \E r \in ReceiptsOf(e) : r.ok /\ Confirm(r.try)
  /\ pc' = CASE op = "dispatch" -> "next" [] op = "relay" -> "idle" [] OTHER -> "clear"
  /\ UNCHANGED <<op, obligation, mayBump, chainVars, crashes>>

ClearObligation ==
  /\ At("clear")
  /\ ClearThen("idle", "idle")
  /\ UNCHANGED <<journalVars, op, mayBump, chainVars, crashes>>

\* Mutant of FailSend: the relay fails its intent like the hedges do.
FailSendAlways ==
  /\ At("error")
  /\ \E e \in Current : Fail
  /\ pc' = IF op = "dispatch" THEN "undo" ELSE "idle"
  /\ UNCHANGED <<op, obligation, mayBump, chainVars, crashes>>

\* Mutant of FailSend: a failed swap withdraws the obligation too.
FailSendUndoing ==
  /\ At("error")
  /\ \E e \in Current :
       IF op = "relay" /\ e.attempts > 0
       THEN UNCHANGED journalVars
       ELSE Fail
  /\ pc' = IF op \in {"dispatch", "swap"} THEN "undo" ELSE "idle"
  /\ UNCHANGED <<op, obligation, mayBump, chainVars, crashes>>

\* relayNext deletes the intent of a relayed transaction whose receipt says that
\* it reverted.
RelayReverted ==
  /\ pc \in {"wait", "nonceSpent"}
  /\ op = "relay"
  /\ \E e \in Current : \E r \in ReceiptsOf(e) : ~r.ok
  /\ Fail
  /\ Goto("idle")
  /\ UNCHANGED <<op, obligation, mayBump, chainVars, crashes>>

\* An error that is not TxNotMinedError deletes the intent; the relay keeps it
\* once a broadcast was attempted.  A failed dispatch also withdraws its
\* obligation; a failed swap keeps it.
FailSend ==
  /\ At("error")
  /\ \E e \in Current :
       IF op = "relay" /\ e.attempts > 0
       THEN UNCHANGED journalVars
       ELSE Fail
  /\ pc' = IF op = "dispatch" THEN "undo" ELSE "idle"
  /\ UNCHANGED <<op, obligation, mayBump, chainVars, crashes>>

\* The catch clause withdraws the obligation of a dispatch that failed, after
\* fail() has deleted its intent; a removal that throws leaves the obligation of
\* a dispatch that never landed, and no intent.
UndoObligation ==
  /\ At("undo")
  /\ ClearThen("idle", "idle")
  /\ UNCHANGED <<journalVars, op, mayBump, chainVars, crashes>>
-----------------------------------------------------------------------------
(***************************************************************************)
(* The environment: chain, mempools, and the death of the process.         *)
(***************************************************************************)

\* Blocks do not arrive between the rounds of recover() unless the run asks.
ChainMayMove == recovery = "off" \/ "mineDuringRecovery" \in Faults

NewBlock ==
  /\ ChainMayMove
  /\ Tick
  /\ mayBump' = TRUE
  /\ pool' = {[t EXCEPT !.fresh = FALSE] : t \in pool}
  /\ UNCHANGED <<pc, op, obligation, chainNonce, mined, externals, crashes>>

SpendNonce ==
  /\ chainNonce' = chainNonce + 1
  /\ pool' = {t \in pool : t.nonce > chainNonce}

Mine ==
  /\ ChainMayMove
  /\ \E t \in pool, ok \in BOOLEAN :
       /\ t.nonce = chainNonce
       /\ ok \/ "revert" \in Faults
       /\ mined' = mined \cup {[id |-> t.id, try |-> t.try, effect |-> t.effect, ok |-> ok]}
  /\ SpendNonce
  /\ UNCHANGED <<journalVars, botVars, externals, crashes>>

\* An oracle poke or another use of the key takes the nonce.
SpendElsewhere ==
  /\ "external" \in Faults
  /\ ChainMayMove
  /\ externals < MaxExternal
  /\ externals' = externals + 1
  /\ SpendNonce
  /\ UNCHANGED <<journalVars, botVars, mined, crashes>>

Evict ==
  /\ "evict" \in Faults
  /\ \E t \in pool : pool' = pool \ {t}
  /\ UNCHANGED <<journalVars, botVars, chainNonce, mined, externals, crashes>>

Crash ==
  /\ "crash" \in Faults
  /\ crashes < MaxCrashes
  /\ pc # "down"
  /\ crashes' = crashes + 1
  /\ LoseMemory
  /\ Goto("down")
  /\ op' = "none"
  /\ mayBump' = FALSE
  /\ UNCHANGED <<obligation, chainVars>>

Start ==
  /\ At("down")
  /\ Goto("init")
  /\ UNCHANGED <<journalVars, op, obligation, mayBump, chainVars, crashes>>
-----------------------------------------------------------------------------
Init ==
  /\ JournalInit
  /\ pc = "down"
  /\ op = "none"
  /\ obligation = NoObligation
  /\ mayBump = FALSE
  /\ chainNonce = 0
  /\ pool = {}
  /\ mined = {}
  /\ externals = 0
  /\ crashes = 0

Recovering == \/ StartRecovery \/ RecoveryReceipts \/ RecoveryNonce \/ RecoveryMempool
              \/ NothingToRecover \/ NothingPending \/ Reconcile

Planning == \/ EndCycle \/ BeginHedge \/ BeginSwapRecovery \/ ClearConfirmedSwap
            \/ SaveObligation \/ BeginSwap \/ LinkObligation

Sending == \/ PinNonce \/ RecordAttempt \/ BroadcastAccepted \/ RecordHash
           \/ BroadcastRejected \/ BroadcastNonceSpent \/ BroadcastUnanswered
           \/ BroadcastAlreadyKnown \/ ReceiptFound \/ NonceSpentElsewhere \/ Bump \/ NotMined

Settling == ConfirmSend \/ ClearObligation \/ RelayReverted \/ FailSend \/ UndoObligation

Environment == \/ NewBlock \/ Mine \/ SpendElsewhere \/ Evict \/ Crash
               \/ AbortSend \/ ReceiptRpcFails \/ RecoveryFails

Next == \/ Start \/ StartCycle \/ BeginRelay
        \/ Recovering \/ Planning \/ Sending \/ Settling \/ Environment

Spec == Init /\ [][Next]_vars

Landed(effect) == {r \in mined : r.effect = effect /\ r.ok}

\* Steps outside the window in which an obligation outlives its dispatch: a cycle
\* does not fail to remove the obligation of a dispatch that has not landed.  The
\* next cycle would find no pending intent, skip the reconciliation, and send
\* the swap.
Withdrawn ==
  pc \in {"undo", "reconcile"} /\ pc' = "idle" =>
    \/ obligation' = NoObligation
    \/ \E r \in Landed("dispatch") : r.id = obligation.dispatch

WithdrawnSpec == Init /\ [][Next /\ Withdrawn]_vars

\* Steps outside that window and the three in which the journal can lose sight
\* of a transaction that has landed or still may: the process does not die
\* between a node's answer and the record of its hash, no start reconciles while
\* the dispatch of the pair is still pending, and nothing is mined between the
\* receipts and the nonce that one pass of recover() reads.
Orderly ==
  /\ Withdrawn
  /\ pc = "record" => pc' # "down"
  /\ pc = "initReconcile" /\ pc' = "idle" => \A e \in Pending : e.id # obligation.dispatch
  /\ recovery = "nonce" => UNCHANGED mined

OrderlySpec == Init /\ [][Next /\ Orderly]_vars
-----------------------------------------------------------------------------
(***************************************************************************)
(* Properties.                                                             *)
(***************************************************************************)

\* How many landed dispatches still await the swap that balances the book.
Owed == Cardinality(Landed("dispatch")) - Cardinality(Landed("swap"))

\* Every transaction that can still be mined belongs to the pending intent, so
\* no plan is made, and no second transaction sent, while one can still land.
Fence == \A t \in pool : \E e \in Pending : e.id = t.id

\* A relayed Safe transaction keeps its intent until it can no longer land,
\* whatever fails around it.
RelayFence == \A t \in pool : t.effect = "relay" => \E e \in Pending : e.id = t.id

\* However often it is replaced, and whatever becomes of its intent, an operation
\* lands at most once.
LandsOnce == \A r, s \in mined : r.id = s.id => r = s

\* A landed dispatch whose swap has not landed is named by the durable
\* obligation.
ObligationKept == Owed > 0 => \E r \in Landed("dispatch") : r.id = obligation.dispatch

\* The part of ObligationKept that README.md states: a dispatch the journal
\* holds as confirmed is owed its swap durably.
ConfirmedDispatchOwed ==
  Owed > 0 => \A e \in Latest(intents) : \A r \in Landed("dispatch") :
                r.id = e.id => obligation.dispatch = e.id

\* No swap lands that no dispatch asked for: the obligation is discharged once.
SwapOnce == Owed >= 0

\* A swap is sent only for a dispatch that has landed.
SwapHasCause ==
  pc = "broadcast" /\ op \in {"swap", "recovery"}
    => \E r \in Landed("dispatch") : r.id = obligation.dispatch

\* The first transaction of a new plan, or of a relay, is sent only on a
\* balanced book.
PlansWhenBalanced ==
  pc = "broadcast" /\ op \in {"hedge", "dispatch", "relay"} /\ (\E e \in Current : e.attempts = 1)
    => Owed <= 0

\* Hedge execution implements its abstract specification.
Abstract == INSTANCE HedgeProtocol WITH Intents <- 1..MaxIntents,
                                        live <- {t.id : t \in pool},
                                        done <- {r.id : r \in mined},
                                        owed <- Owed

ImplementsProtocol == Abstract!Spec
-----------------------------------------------------------------------------
(***************************************************************************)
(* Liveness.  The scheduler starts a cycle at least every reconcile        *)
(* interval and the event loop runs what is ready; heads keep arriving;    *)
(* a transaction does not stay in the mempools for ever; the venue does    *)
(* not refuse to quote for ever.                                           *)
(***************************************************************************)

Fairness ==
  /\ WF_vars(Start \/ StartCycle \/ Recovering \/ Planning \/ Sending \/ Settling)
  /\ SF_vars(NewBlock)
  /\ SF_vars(Mine \/ Evict)
  /\ SF_vars(BeginSwapRecovery)

FairSpec == Spec /\ Fairness

\* As long as the hash of every accepted broadcast is recorded, a pending intent
\* is settled: confirmed, failed, dropped as spent, or released by the mempools'
\* proof of absence.  It never holds the bot for ever.
PendingIsSettled == HasPendingIntent ~> ~HasPendingIntent

\* A landed dispatch is balanced by its swap, whatever attempts at it fail, as
\* long as the bound on intents leaves one to send it with.
Exhausted == nextId > MaxIntents

BookIsBalanced == Owed > 0 ~> (Owed = 0 \/ Exhausted)
=============================================================================
