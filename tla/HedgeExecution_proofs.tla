------------------------ MODULE HedgeExecution_proofs ------------------------
(***************************************************************************)
(* Proofs about hedge execution, for any number of intents and attempts,   *)
(* any recovery window and any number of crashes.                          *)
(*                                                                         *)
(* Part 1, the journal: JInv, what every operation of it preserves.        *)
(*                                                                         *)
(* Part 2, the fence.  TInv carries type correctness.  GInv adds what the  *)
(* journal knows of the transactions that can still be mined; both are     *)
(* inductive whatever the faults, and with them the fence of the relayed   *)
(* transactions and, in LInv, that an operation lands once.  FInv adds the *)
(* fence of all transactions, and is inductive while every answer to a     *)
(* first broadcast, and to a receipt poll, arrives.                        *)
(*                                                                         *)
(* Part 3, the off-venue pair: the dispatch, the durable obligation it     *)
(* leaves, and the swap that discharges it.  CInv is what "a swap has a    *)
(* cause" rests on, whatever the faults, while every step is Withdrawn.    *)
(* BInv says that the obligation and the book agree at every step, and     *)
(* with it that hedge execution implements HedgeProtocol, while every      *)
(* answer arrives and steps are Orderly: through crashes and restarts,     *)
(* with blocks arriving between the rounds of recover(), outside the four  *)
(* windows Orderly names.  A keeper that does not die and can remove its   *)
(* files takes orderly steps only.                                         *)
(***************************************************************************)
EXTENDS HedgeExecution, FiniteSetTheorems, TLAPS

-----------------------------------------------------------------------------
(***************************************************************************)
(* Part 1.  What every operation of the journal preserves, for any bounds: *)
(* entries keep their types, an id names one entry, and at most one is     *)
(* pending.                                                                *)
(***************************************************************************)

\* An id is used once, in the order of the array.
IdsAreUnique ==
  /\ \A e, f \in intents : e.id = f.id => e = f
  /\ \A e \in intents : e.id < nextId

\* begin() refuses while an intent is pending, and only the newest can be.
OnePending == \A e, f \in Pending : e = f

\* activeIntentId names no entry or the pending one, and the only entry it
\* names is the one the current send began.
ActiveIsPending == \A e \in intents : e.id = active => e.status = "pending"

\* Attempts and their outcomes: hashes come from attempts that were made.
OutcomesAreAttempts ==
  \A e \in intents : /\ e.hashes \subseteq 1..e.attempts
                     /\ e.attempts > 0 => e.nonce # NoNonce

JInv == JournalTypeOK /\ IdsAreUnique /\ OnePending /\ ActiveIsPending /\ OutcomesAreAttempts

-----------------------------------------------------------------------------
\* Pruning drops confirmed entries only.
LEMMA PrunedKeepsPending ==
  ASSUME NEW S, NEW T \in Pruned(S)
  PROVE  /\ T \subseteq S
         /\ \A e \in S : e.status = "pending" => e \in T
         /\ Latest(S) \subseteq T
BY DEF Pruned, Latest

\* The recorded hashes of an entry can be counted.
LEMMA HashesAreCounted ==
  ASSUME NEW e \in Entry
  PROVE  /\ IsFiniteSet(e.hashes)
         /\ Cardinality(e.hashes) \in Nat
<1>1. IsFiniteSet(1..MaxAttempts)
  BY BoundsAssumption, FS_Interval
<1> QED
  BY <1>1, FS_Subset, FS_CardinalityType DEF Entry

LEMMA BeginInv == ASSUME JInv, NEW a \in Action, Begin(a) PROVE JInv'
<1> USE BoundsAssumption DEF JInv, JournalTypeOK, Begin
<1>1. NewEntry(nextId, a) \in Entry
  BY DEF NewEntry, Entry, NoNonce
<1>2. JournalTypeOK'
  BY <1>1
<1>3. IdsAreUnique'
  <2>1. NewEntry(nextId, a).id = nextId
    BY DEF NewEntry
  <2>2. /\ intents' = intents \cup {NewEntry(nextId, a)} /\ nextId' = nextId + 1
        /\ nextId \in Nat /\ \A e \in intents : e.id \in Nat /\ e.id < nextId
    BY DEF IdsAreUnique, Entry
  <2> QED
    BY <2>1, <2>2 DEF IdsAreUnique
<1>4. OnePending'
  BY DEF OnePending, HasPendingIntent, Pending
<1>5. ActiveIsPending'
  BY DEF ActiveIsPending, IdsAreUnique, NewEntry, Entry
<1>6. OutcomesAreAttempts'
  BY DEF OutcomesAreAttempts, NewEntry
<1> QED
  BY <1>2, <1>3, <1>4, <1>5, <1>6

\* Replacing an entry by one of the same id and status.
LEMMA ReplaceInv ==
  ASSUME JInv, NEW e \in intents, NEW f \in Entry,
         f.id = e.id, f.status = e.status,
         f.hashes \subseteq 1..f.attempts, f.attempts > 0 => f.nonce # NoNonce,
         intents' = Replaced(e, f),
         UNCHANGED <<nextId, active, absent, recovery, stalled>>,
         age' \in 0..NonceStallBlocks
  PROVE  JInv'
BY DEF JInv, JournalTypeOK, IdsAreUnique, OnePending, ActiveIsPending, OutcomesAreAttempts,
       Pending, Replaced, Entry

LEMMA ObserveInv ==
  ASSUME JInv, NEW n \in Nat, NEW hs,
         \A e \in intents : e.id = active => hs \subseteq 1..e.attempts,
         ObserveTransaction(n, hs)
  PROVE  JInv'
<1> PICK e \in intents : /\ e.id = active
                         /\ e.nonce \in {NoNonce, n}
                         /\ intents' = Replaced(e, [e EXCEPT !.nonce = n, !.hashes = hs])
                         /\ age' = IF e.nonce = NoNonce THEN 0 ELSE age
  BY DEF ObserveTransaction
<1> DEFINE f == [e EXCEPT !.nonce = n, !.hashes = hs]
<1>1. e \in Entry
  BY DEF JInv, JournalTypeOK
<1>2. f \in Entry
  <2>1. hs \subseteq 1..MaxAttempts
    BY <1>1, BoundsAssumption DEF Entry
  <2> QED
    BY <1>1, <2>1 DEF Entry
<1>3. /\ f.id = e.id /\ f.status = e.status
      /\ f.hashes \subseteq 1..f.attempts /\ f.nonce # NoNonce
  BY <1>1 DEF Entry, NoNonce
<1>4. age' \in 0..NonceStallBlocks
  BY StallAssumption DEF JInv, JournalTypeOK
<1> QED
  BY <1>2, <1>3, <1>4, ReplaceInv DEF ObserveTransaction

LEMMA AttemptInv == ASSUME JInv, RecordBroadcastAttempt PROVE JInv'
<1> PICK e \in intents : /\ e.id = active
                         /\ e.nonce # NoNonce
                         /\ e.attempts < MaxAttempts
                         /\ intents' = Replaced(e, [e EXCEPT !.attempts = @ + 1])
  BY DEF RecordBroadcastAttempt
<1> DEFINE f == [e EXCEPT !.attempts = @ + 1]
<1>1. e \in Entry
  BY DEF JInv, JournalTypeOK
<1>2. f \in Entry
  BY <1>1, BoundsAssumption DEF Entry
<1>3. e.hashes \subseteq 1..e.attempts
  BY DEF JInv, OutcomesAreAttempts
<1>4. f.id = e.id /\ f.status = e.status /\ f.nonce # NoNonce
  BY <1>1 DEF Entry
<1>5. f.hashes \subseteq 1..f.attempts
  BY <1>1, <1>3 DEF Entry
<1>6. age' \in 0..NonceStallBlocks
  BY DEF JInv, JournalTypeOK, RecordBroadcastAttempt
<1> QED
  BY <1>2, <1>4, <1>5, <1>6, ReplaceInv DEF RecordBroadcastAttempt

LEMMA RejectionInv == ASSUME JInv, RecordBroadcastRejection PROVE JInv'
<1> PICK e \in intents : /\ e.id = active
                         /\ Cardinality(e.hashes) + e.rejected < e.attempts
                         /\ intents' = Replaced(e, [e EXCEPT !.rejected = @ + 1])
  BY DEF RecordBroadcastRejection
<1> DEFINE f == [e EXCEPT !.rejected = @ + 1]
<1>1. e \in Entry
  BY DEF JInv, JournalTypeOK
<1>2. f \in Entry
  BY <1>1, HashesAreCounted, BoundsAssumption DEF Entry
<1>3. /\ e.hashes \subseteq 1..e.attempts
      /\ e.attempts > 0 => e.nonce # NoNonce
  BY DEF JInv, OutcomesAreAttempts
<1>4. /\ f.id = e.id /\ f.status = e.status
      /\ f.hashes \subseteq 1..f.attempts /\ (f.attempts > 0 => f.nonce # NoNonce)
  BY <1>1, <1>3 DEF Entry
<1>5. age' \in 0..NonceStallBlocks
  BY DEF JInv, JournalTypeOK, RecordBroadcastRejection
<1> QED
  BY <1>2, <1>4, <1>5, ReplaceInv DEF RecordBroadcastRejection

\* An operation that only removes entries, or confirms one: what is left of
\* the array is typed, and the active intent is kept or forgotten.
LEMMA ShrinkInv ==
  ASSUME JInv, intents' \subseteq intents, active' \in {active, NoId},
         UNCHANGED nextId,
         absent' \in {"never", "thisBlock", "earlier"},
         recovery' \in {"off", "receipts", "nonce", "mempool"},
         stalled' \in BOOLEAN, age' \in 0..NonceStallBlocks
  PROVE  JInv'
<1>1. JournalTypeOK'
  BY BoundsAssumption DEF JInv, JournalTypeOK, NoId
<1>2. IdsAreUnique' /\ OnePending' /\ OutcomesAreAttempts'
  BY DEF JInv, IdsAreUnique, OnePending, OutcomesAreAttempts, Pending
<1>3. ActiveIsPending'
  BY DEF JInv, JournalTypeOK, ActiveIsPending, NoId, Entry
<1> QED
  BY <1>1, <1>2, <1>3 DEF JInv

LEMMA ConfirmEntryInv ==
  ASSUME JInv, NEW e \in intents, ConfirmEntry(e),
         UNCHANGED <<nextId, age, stalled>>,
         recovery' \in {"off", "receipts", "nonce", "mempool"}
  PROVE  JInv'
<1> DEFINE f == [e EXCEPT !.status = "confirmed"]
<1>1. e \in Entry /\ f \in Entry /\ f.id = e.id /\ f.status = "confirmed"
  BY DEF JInv, JournalTypeOK, Entry
<1>2. f.hashes = e.hashes /\ f.attempts = e.attempts /\ f.nonce = e.nonce
  BY <1>1 DEF Entry
<1>3. intents' \subseteq (intents \ {e}) \cup {f} /\ active' = NoId /\ absent' = "never"
  BY PrunedKeepsPending DEF ConfirmEntry, Replaced
<1> HIDE DEF f
<1>4. JournalTypeOK'
  BY <1>1, <1>3, BoundsAssumption DEF JInv, JournalTypeOK, NoId
<1>5. IdsAreUnique'
  BY <1>1, <1>3 DEF JInv, IdsAreUnique
<1>6. OnePending'
  BY <1>1, <1>3 DEF JInv, OnePending, Pending
<1>7. ActiveIsPending'
  BY <1>3, <1>4 DEF JournalTypeOK, ActiveIsPending, NoId, Entry
<1>8. OutcomesAreAttempts'
  BY <1>1, <1>2, <1>3 DEF JInv, OutcomesAreAttempts
<1> QED
  BY <1>4, <1>5, <1>6, <1>7, <1>8 DEF JInv

LEMMA ConfirmInv == ASSUME JInv, NEW h, Confirm(h) PROVE JInv'
BY ConfirmEntryInv DEF Confirm, JInv, JournalTypeOK

LEMMA FailInv == ASSUME JInv, Fail PROVE JInv'
BY ShrinkInv DEF Fail, FailEntry, JInv, JournalTypeOK

\* What Drop and Hold leave of the array.
LEMMA DropShrinks == ASSUME NEW e, Drop(e) PROVE intents' \subseteq intents \ {e}
BY PrunedKeepsPending DEF Drop

LEMMA HoldShrinks == ASSUME Hold PROVE intents' \subseteq intents
BY PrunedKeepsPending DEF Hold

-----------------------------------------------------------------------------
LEMMA RecoverStartInv == ASSUME JInv, RecoverStart PROVE JInv'
<1>1. stalled' \in BOOLEAN
  BY DEF RecoverStart
<1> QED
  BY <1>1, ShrinkInv DEF RecoverStart, JInv, JournalTypeOK

LEMMA RecoverReceiptsInv == ASSUME JInv, NEW r, RecoverReceipts(r) PROVE JInv'
<1> PICK e \in Pending :
      \/ ConfirmEntry(e) /\ recovery' = "off"
      \/ Drop(e) /\ recovery' = "off"
      \/ recovery' = "nonce" /\ UNCHANGED <<intents, active, absent>>
  BY DEF RecoverReceipts
<1>1. e \in intents /\ UNCHANGED <<nextId, age, stalled>>
  BY DEF Pending, RecoverReceipts
<1>2. CASE ConfirmEntry(e) /\ recovery' = "off"
  BY <1>1, <1>2, ConfirmEntryInv
<1>3. CASE Drop(e) /\ recovery' = "off"
  BY <1>1, <1>3, DropShrinks, ShrinkInv DEF Drop, JInv, JournalTypeOK
<1>4. CASE recovery' = "nonce" /\ UNCHANGED <<intents, active, absent>>
  BY <1>1, <1>4, ShrinkInv DEF JInv, JournalTypeOK
<1> QED
  BY <1>2, <1>3, <1>4

LEMMA RecoverNonceInv == ASSUME JInv, NEW spent, RecoverNonce(spent) PROVE JInv'
<1> PICK e \in Pending :
      \/ Drop(e) /\ recovery' = "off"
      \/ Hold /\ recovery' = "off" /\ absent' \in {absent, "never"}
      \/ recovery' = "mempool" /\ UNCHANGED <<intents, active, absent>>
  BY DEF RecoverNonce
<1>1. UNCHANGED <<nextId, age, stalled>>
  BY DEF RecoverNonce
<1>2. CASE Drop(e) /\ recovery' = "off"
  BY <1>1, <1>2, DropShrinks, ShrinkInv DEF Drop, JInv, JournalTypeOK
<1>3. CASE Hold /\ recovery' = "off" /\ absent' \in {absent, "never"}
  BY <1>1, <1>3, HoldShrinks, ShrinkInv DEF Hold, JInv, JournalTypeOK
<1>4. CASE recovery' = "mempool" /\ UNCHANGED <<intents, active, absent>>
  BY <1>1, <1>4, ShrinkInv DEF JInv, JournalTypeOK
<1> QED
  BY <1>2, <1>3, <1>4

LEMMA RecoverMempoolInv == ASSUME JInv, NEW visible, RecoverMempool(visible) PROVE JInv'
<1> PICK e \in Pending :
      \/ Drop(e)
      \/ Hold /\ absent' \in {"never", "thisBlock"}
  BY DEF RecoverMempool
<1>1. UNCHANGED <<nextId, age, stalled>> /\ recovery' = "off"
  BY DEF RecoverMempool
<1>2. CASE Drop(e)
  BY <1>1, <1>2, DropShrinks, ShrinkInv DEF Drop, JInv, JournalTypeOK
<1>3. CASE Hold /\ absent' \in {"never", "thisBlock"}
  BY <1>1, <1>3, HoldShrinks, ShrinkInv DEF Hold, JInv, JournalTypeOK
<1> QED
  BY <1>2, <1>3

LEMMA RecoverAbortInv == ASSUME JInv, RecoverAbort PROVE JInv'
BY ShrinkInv DEF RecoverAbort, JInv, JournalTypeOK

LEMMA PruneInv ==
  ASSUME JInv, intents' \in Pruned(intents),
         UNCHANGED <<nextId, active, age, absent, recovery, stalled>>
  PROVE  JInv'
BY PrunedKeepsPending, ShrinkInv DEF JInv, JournalTypeOK

LEMMA LoseMemoryInv == ASSUME JInv, LoseMemory PROVE JInv'
BY ShrinkInv DEF LoseMemory, JInv, JournalTypeOK

LEMMA TickInv == ASSUME JInv, Tick PROVE JInv'
<1>1. age' \in 0..NonceStallBlocks /\ absent' \in {"never", "thisBlock", "earlier"}
  BY StallAssumption DEF Tick, JInv, JournalTypeOK
<1> QED
  BY <1>1, ShrinkInv DEF Tick, JInv, JournalTypeOK

LEMMA JournalUnchangedInv == ASSUME JInv, UNCHANGED journalVars PROVE JInv'
BY ShrinkInv DEF journalVars, JInv, JournalTypeOK

LEMMA JournalInitInv == ASSUME JournalInit PROVE JInv
<1>1. stalled \in BOOLEAN
  BY DEF JournalInit
<1>2. JournalTypeOK
  BY <1>1, BoundsAssumption, StallAssumption DEF JournalInit, JournalTypeOK, NoId
<1> QED
  BY <1>2 DEF JournalInit, JInv, IdsAreUnique, OnePending, ActiveIsPending,
              OutcomesAreAttempts, Pending

-----------------------------------------------------------------------------
(***************************************************************************)
(* Part 2.  Types, what the journal knows, and the fence.                  *)
(***************************************************************************)

\* The locations of a send that may still broadcast.
Sendable == {"save", "link", "prepare", "attempt", "broadcast", "record", "wait"}

\* A send knows what it is for, and broadcasts a counted attempt.
SendsAreCounted ==
  /\ pc \in Sendable => op # "none"
  /\ pc \in {"broadcast", "record"} => \A e \in Current : e.attempts >= 1

\* recover() runs at startup and at the start of a cycle, on a pending intent.
RecoveryIsExclusive == recovery # "off" => pc \in {"init", "cycle"} /\ HasPendingIntent

\* The variables the journal does not have.
BotTypeOK ==
  /\ pc \in Location
  /\ op \in Op
  /\ obligation \in Obligation
  /\ mayBump \in BOOLEAN
  /\ chainNonce \in Nat
  /\ pool \subseteq Tx
  /\ mined \subseteq Receipt
  /\ externals \in 0..MaxExternal
  /\ crashes \in 0..MaxCrashes

TInv == JInv /\ BotTypeOK /\ SendsAreCounted /\ RecoveryIsExclusive

-----------------------------------------------------------------------------
(***************************************************************************)
(* Type correctness.  Each step has a fact about the journal, from         *)
(* part 1, and one about the variables of this module.                    *)
(***************************************************************************)

\* Reconcile removes a stale obligation, keeps any other, or fails to remove it.
LEMMA ReconcileShape ==
  ASSUME Reconcile
  PROVE  /\ UNCHANGED <<journalVars, op, mayBump, chainVars, crashes>>
         /\ pc \in {"initReconcile", "reconcile"}
         /\ \/ /\ pc' = (IF pc = "initReconcile" THEN "idle" ELSE "plan")
               /\ obligation' = (IF Stale THEN NoObligation ELSE obligation)
            \/ /\ pc' = (IF pc = "initReconcile" THEN "down" ELSE "idle")
               /\ UNCHANGED obligation /\ "clearFails" \in Faults
BY DEF Reconcile, ClearThen, Goto, At

\* The other removals of the obligation end in "idle", whether they fail or not.
LEMMA ClearShape ==
  ASSUME ClearObligation \/ UndoObligation \/ ClearConfirmedSwap
  PROVE  /\ UNCHANGED <<journalVars, op, mayBump, chainVars, crashes>>
         /\ pc' = "idle"
         /\ \/ pc = "clear" /\ ClearObligation
            \/ pc = "undo" /\ UndoObligation
            \/ pc = "plan" /\ ClearConfirmedSwap /\ CheckpointIsSwap(obligation.swap)
         /\ obligation' = NoObligation \/ (UNCHANGED obligation /\ "clearFails" \in Faults)
BY DEF ClearObligation, UndoObligation, ClearConfirmedSwap, ClearThen, Goto, At

LEMMA InitTInv == ASSUME Init PROVE TInv
<1>1. JInv
  BY JournalInitInv DEF Init
<1>2. mayBump \in BOOLEAN
  BY DEF Init
<1>3. obligation \in Obligation
  BY BoundsAssumption DEF Init, NoObligation, Obligation, NoId
<1>4. BotTypeOK
  BY <1>2, <1>3, LimitsAssumption DEF Init, BotTypeOK, Location, Op
<1>5. SendsAreCounted /\ RecoveryIsExclusive
  BY DEF Init, JournalInit, SendsAreCounted, RecoveryIsExclusive, Sendable
<1> QED
  BY <1>1, <1>4, <1>5 DEF TInv

LEMMA RecoveringTInv == ASSUME TInv, Recovering PROVE TInv'
<1> USE DEF TInv, BotTypeOK, SendsAreCounted, RecoveryIsExclusive, Sendable,
        Location, botVars, chainVars, Goto, At
<1>1. CASE StartRecovery
  BY <1>1, RecoverStartInv DEF StartRecovery, RecoverStart, HasPendingIntent, Pending
<1>2. CASE RecoveryReceipts \/ RecoveryNonce \/ RecoveryMempool
  <2>1. JInv'
    BY <1>2, RecoverReceiptsInv, RecoverNonceInv, RecoverMempoolInv
       DEF RecoveryReceipts, RecoveryNonce, RecoveryMempool
  <2>2. recovery # "off" /\ AfterRecovery /\ UNCHANGED <<op, obligation, mayBump, chainVars, crashes>>
    BY <1>2 DEF RecoveryReceipts, RecoveryNonce, RecoveryMempool,
                RecoverReceipts, RecoverNonce, RecoverMempool
  <2>3. recovery' # "off" => UNCHANGED intents
    BY <1>2 DEF RecoveryReceipts, RecoveryNonce, RecoveryMempool,
                RecoverReceipts, RecoverNonce, RecoverMempool
  <2> QED
    BY <2>1, <2>2, <2>3 DEF AfterRecovery, HasPendingIntent, Pending
<1>3. CASE NothingToRecover
  BY <1>3, PruneInv DEF NothingToRecover
<1>4. CASE NothingPending
  BY <1>4, JournalUnchangedInv DEF NothingPending, journalVars
<1>5. CASE Reconcile
  <2>1. obligation' \in Obligation
    BY <1>5, ReconcileShape, BoundsAssumption DEF NoObligation, NoId, Obligation
  <2> QED
    BY <1>5, <2>1, ReconcileShape, JournalUnchangedInv DEF journalVars
<1> QED
  BY <1>1, <1>2, <1>3, <1>4, <1>5 DEF Recovering

LEMMA PlanningTInv == ASSUME TInv, Planning \/ Start \/ StartCycle \/ BeginRelay PROVE TInv'
<1> USE DEF TInv, BotTypeOK, SendsAreCounted, RecoveryIsExclusive, Sendable,
        Location, Op, botVars, chainVars, Goto, At
<1>1. CASE BeginHedge \/ BeginSwapRecovery \/ BeginSwap \/ BeginRelay
  <2>1. \E a \in Action : Begin(a)
    BY <1>1 DEF BeginHedge, BeginSwapRecovery, BeginSwap, BeginRelay, Action
  <2> QED
    BY <1>1, <2>1, BeginInv DEF BeginHedge, BeginSwapRecovery, BeginSwap, BeginRelay, Begin
<1>2. CASE EndCycle
  BY <1>2, JournalUnchangedInv DEF EndCycle, journalVars
<1>3. CASE SaveObligation
  <2>1. obligation' \in Obligation
    BY <1>3, BoundsAssumption DEF SaveObligation, Obligation, NoId, JInv, JournalTypeOK
  <2> QED
    BY <1>3, <2>1, JournalUnchangedInv DEF SaveObligation, journalVars
<1>4. CASE LinkObligation
  <2>1. obligation' \in Obligation
    BY <1>4 DEF LinkObligation, Obligation, JInv, JournalTypeOK
  <2> QED
    BY <1>4, <2>1, JournalUnchangedInv DEF LinkObligation, journalVars
<1>5. CASE ClearConfirmedSwap
  <2>1. obligation' \in Obligation
    BY <1>5, ClearShape, BoundsAssumption DEF Obligation, NoObligation, NoId
  <2> QED
    BY <1>5, <2>1, ClearShape, JournalUnchangedInv DEF journalVars
<1>6. CASE Start \/ StartCycle
  BY <1>6, JournalUnchangedInv DEF Start, StartCycle, journalVars, HasPendingIntent, Pending
<1> QED
  BY <1>1, <1>2, <1>3, <1>4, <1>5, <1>6 DEF Planning

\* What a broadcast puts into the mempools has the type of a transaction.
LEMMA NewTxTyped ==
  ASSUME TInv, pc = "broadcast", NEW e \in Current, e.nonce >= chainNonce
  PROVE  NewTx(e) \in Tx
<1>1. e \in Entry /\ e.attempts \in 1..MaxAttempts
  BY BoundsAssumption DEF TInv, JInv, JournalTypeOK, SendsAreCounted, Current, Entry
<1>2. e.nonce \in Nat
  BY <1>1 DEF TInv, BotTypeOK, Entry, NoNonce
<1>3. EffectOf(op) \in Effect
  BY DEF TInv, BotTypeOK, SendsAreCounted, Sendable, Op, EffectOf, Effect
<1> QED
  BY <1>1, <1>2, <1>3 DEF NewTx, Tx, Entry

LEMMA SendingTInv == ASSUME TInv, Sending PROVE TInv'
<1> USE DEF TInv, BotTypeOK, SendsAreCounted, RecoveryIsExclusive, Sendable,
        Location, Op, botVars, chainVars, Goto, At
<1>1. CASE PinNonce
  <2>1. PICK n \in PendingCounts : ObserveTransaction(n, {})
    BY <1>1 DEF PinNonce
  <2>2. n \in Nat
    BY DEF PendingCounts
  <2> QED
    BY <1>1, <2>1, <2>2, ObserveInv DEF PinNonce, ObserveTransaction
<1>2. CASE RecordAttempt
  <2>1. JInv'
    BY <1>2, AttemptInv DEF RecordAttempt
  <2>2. \A e \in Current' : e.attempts >= 1
    BY <1>2 DEF RecordAttempt, RecordBroadcastAttempt, Current, Replaced, JInv, JournalTypeOK,
                IdsAreUnique, Entry
  <2>3. mayBump' \in BOOLEAN
    BY <1>2 DEF RecordAttempt
  <2> QED
    BY <1>2, <2>1, <2>2, <2>3 DEF RecordAttempt, RecordBroadcastAttempt
<1>3. CASE BroadcastAccepted
  BY <1>3, NewTxTyped, JournalUnchangedInv DEF BroadcastAccepted, journalVars, Current
<1>4. CASE RecordHash
  <2>1. PICK e \in Current : ObserveTransaction(e.nonce, e.hashes \cup {e.attempts})
    BY <1>4 DEF RecordHash
  <2>2. e \in Entry /\ e.id = active /\ e \in intents /\ e.attempts >= 1
    BY <1>4 DEF RecordHash, Current, JInv, JournalTypeOK
  <2>3. e.nonce \in Nat /\ e.hashes \cup {e.attempts} \subseteq 1..e.attempts
    BY <2>2 DEF JInv, OutcomesAreAttempts, Entry
  <2>4. \A f \in intents : f.id = active => e.hashes \cup {e.attempts} \subseteq 1..f.attempts
    BY <2>2, <2>3 DEF JInv, IdsAreUnique
  <2>5. JInv'
    BY <2>1, <2>3, <2>4, ObserveInv
  <2> QED
    BY <1>4, <2>1, <2>5 DEF RecordHash, ObserveTransaction
<1>5. CASE BroadcastRejected \/ BroadcastNonceSpent
  BY <1>5, RejectionInv DEF BroadcastRejected, BroadcastNonceSpent, RecordBroadcastRejection
<1>6. CASE BroadcastUnanswered
  BY <1>6, NewTxTyped, JournalUnchangedInv DEF BroadcastUnanswered, journalVars
<1>7. CASE BroadcastAlreadyKnown
  BY <1>7, NewTxTyped, JournalUnchangedInv DEF BroadcastAlreadyKnown, journalVars
<1>8. CASE ReceiptFound \/ NonceSpentElsewhere \/ NotMined
  BY <1>8, JournalUnchangedInv DEF ReceiptFound, NonceSpentElsewhere, NotMined, journalVars
<1>9. CASE Bump
  <2>1. mayBump' \in BOOLEAN
    BY <1>9 DEF Bump
  <2> QED
    BY <1>9, <2>1, JournalUnchangedInv DEF Bump, journalVars
<1> QED
  BY <1>1, <1>2, <1>3, <1>4, <1>5, <1>6, <1>7, <1>8, <1>9 DEF Sending

LEMMA SettlingTInv == ASSUME TInv, Settling PROVE TInv'
<1> USE DEF TInv, BotTypeOK, SendsAreCounted, RecoveryIsExclusive, Sendable,
        Location, Op, botVars, chainVars, Goto, At
<1>1. CASE ConfirmSend
  BY <1>1, ConfirmInv DEF ConfirmSend, Confirm
<1>2. CASE ClearObligation \/ UndoObligation
  <2>1. obligation' \in Obligation
    BY <1>2, ClearShape, BoundsAssumption DEF Obligation, NoObligation, NoId
  <2> QED
    BY <1>2, <2>1, ClearShape, JournalUnchangedInv DEF journalVars
<1>3. CASE FailSend \/ RelayReverted
  <2>1. Fail \/ UNCHANGED journalVars
    BY <1>3 DEF FailSend, RelayReverted
  <2> QED
    BY <1>3, <2>1, FailInv, JournalUnchangedInv DEF FailSend, RelayReverted, Fail, journalVars
<1> QED
  BY <1>1, <1>2, <1>3 DEF Settling

LEMMA EnvironmentTInv == ASSUME TInv, Environment PROVE TInv'
<1> USE DEF TInv, BotTypeOK, SendsAreCounted, RecoveryIsExclusive, Sendable,
        Location, Op, botVars, chainVars, Goto, At
<1>1. CASE NewBlock
  <2>1. mayBump' \in BOOLEAN
    BY <1>1 DEF NewBlock
  <2>2. pool' \subseteq Tx
    BY <1>1 DEF NewBlock, Tx
  <2> QED
    BY <1>1, <2>1, <2>2, TickInv DEF NewBlock, Tick, HasPendingIntent, Pending, Current
<1>2. CASE Mine
  <2>1. mined' \subseteq Receipt
    BY <1>2 DEF Mine, Tx, Receipt
  <2> QED
    BY <1>2, <2>1, JournalUnchangedInv
       DEF Mine, SpendNonce, journalVars, HasPendingIntent, Pending, Current
<1>3. CASE SpendElsewhere
  BY <1>3, LimitsAssumption, JournalUnchangedInv
     DEF SpendElsewhere, SpendNonce, journalVars, HasPendingIntent, Pending, Current
<1>4. CASE Evict
  BY <1>4, JournalUnchangedInv DEF Evict, journalVars, HasPendingIntent, Pending, Current
<1>5. CASE Crash
  <2>1. mayBump' \in BOOLEAN
    BY <1>5 DEF Crash
  <2> QED
    BY <1>5, <2>1, LimitsAssumption, LoseMemoryInv DEF Crash, LoseMemory
<1>6. CASE AbortSend \/ ReceiptRpcFails
  BY <1>6, JournalUnchangedInv DEF AbortSend, ReceiptRpcFails, journalVars
<1>7. CASE RecoveryFails
  BY <1>7, RecoverAbortInv DEF RecoveryFails, RecoverAbort
<1> QED
  BY <1>1, <1>2, <1>3, <1>4, <1>5, <1>6, <1>7 DEF Environment

LEMMA NextTInv == ASSUME TInv, [Next]_vars PROVE TInv'
<1>1. CASE UNCHANGED vars
  BY <1>1, JournalUnchangedInv
     DEF vars, journalVars, botVars, chainVars, TInv, BotTypeOK, SendsAreCounted,
         RecoveryIsExclusive, HasPendingIntent, Pending, Current
<1> QED
  BY <1>1, RecoveringTInv, PlanningTInv, SendingTInv, SettlingTInv, EnvironmentTInv DEF Next

\* The journal, the process and the chain keep their types in every behaviour,
\* whatever the faults: no operation of the code leaves an entry the schema of
\* the journal file would refuse.
THEOREM TypeCorrect == Spec => []TypeOK
<1>1. TInv => TypeOK
  BY DEF TInv, JInv, BotTypeOK, TypeOK
<1>2. TInv /\ [Next]_vars => TInv'
  BY NextTInv
<1>3. Init => TInv
  BY InitTInv
<1> QED
  BY <1>1, <1>2, <1>3, PTL DEF Spec

-----------------------------------------------------------------------------
(***************************************************************************)
(* What holds of each intent on its own, whatever the faults.              *)
(***************************************************************************)

\* A send from its first step to its last.
SendLoc == Sendable \cup {"nonceSpent", "settled", "error"}

\* Where a send has not broadcast yet.
Unsent == {"save", "link", "prepare"}

\* A transaction carries the nonce and an attempt of its intent, and can only
\* be mined at a nonce that is not spent.
PoolMatches ==
  \A t \in pool : /\ t.id < nextId
                  /\ t.nonce >= chainNonce
                  /\ \A e \in intents : e.id = t.id => t.nonce = e.nonce /\ t.try <= e.attempts

\* A mined transaction has spent the nonce of its intent.
MinedIsSpent ==
  \A r \in mined : /\ r.id < nextId
                   /\ \A e \in intents : e.id = r.id => e.nonce # NoNonce /\ e.nonce < chainNonce

\* Attempts of e that have a hash, can still be mined, or are being recorded.
MayLand(e) ==
  {k \in 1..e.attempts : \/ k \in e.hashes
                         \/ \E t \in pool : t.id = e.id /\ t.try = k
                         \/ pc = "record" /\ e.id = active /\ k = e.attempts}

\* A rejected attempt is none of them, nor is the one about to be broadcast.
AttemptsAddUp ==
  \A e \in Pending :
    Cardinality(MayLand(e)) + e.rejected + (IF pc = "broadcast" /\ e.id = active THEN 1 ELSE 0)
      <= e.attempts

\* Ahead of its first broadcast a send has no attempt.
FirstSendIsFresh == pc \in Unsent => \A e \in Current : e.attempts = 0

\* The transactions of a send all do what the send is for.
SendsOneEffect == pc \in SendLoc => \A t \in pool : t.id = active => t.effect = EffectOf(op)

\* The mempools are asked only about attempts whose outcome is known.
MempoolIsConclusive == recovery = "mempool" => \A e \in Pending : OutcomesKnown(e)

\* A proof of absence is about the pending intent, after its last broadcast.
AbsenceIsCurrent ==
  /\ absent = "earlier" => \A t \in pool : ~t.fresh
  /\ absent # "never" => HasPendingIntent /\ pc \notin Sendable

GInv == /\ TInv /\ PoolMatches /\ MinedIsSpent /\ AttemptsAddUp /\ FirstSendIsFresh
        /\ SendsOneEffect /\ MempoolIsConclusive /\ AbsenceIsCurrent

\* No transaction of intent i can be mined any more.
Gone(i) == \A t \in pool : t.id # i

-----------------------------------------------------------------------------
(***************************************************************************)
(* When nothing of an intent can be mined any more.                        *)
(***************************************************************************)

LEMMA IntervalSubsetIsFinite ==
  ASSUME NEW n \in Nat, NEW T \in SUBSET (1..n) PROVE IsFiniteSet(T)
<1>1. IsFiniteSet(1..n)
  BY FS_Interval
<1> QED
  BY <1>1, FS_Subset

LEMMA CountMonotone ==
  ASSUME NEW n \in Nat, NEW T \in SUBSET (1..n), NEW S \in SUBSET T
  PROVE  /\ Cardinality(S) \in Nat /\ Cardinality(T) \in Nat
         /\ Cardinality(S) <= Cardinality(T)
         /\ Cardinality(S) = Cardinality(T) => S = T
<1>1. IsFiniteSet(T) /\ IsFiniteSet(S)
  BY IntervalSubsetIsFinite
<1>2. Cardinality(S) \in Nat /\ Cardinality(T) \in Nat
  BY <1>1, FS_CardinalityType
<1> QED
  BY <1>1, <1>2, FS_Subset

LEMMA CountAddOne ==
  ASSUME NEW n \in Nat, NEW T \in SUBSET (1..n), NEW x \in 1..n, NEW S \in SUBSET (T \cup {x})
  PROVE  Cardinality(S) <= Cardinality(T) + 1
<1>1. IsFiniteSet(T) /\ Cardinality(T) \in Nat
  BY IntervalSubsetIsFinite, FS_CardinalityType
<1>2. T \cup {x} \in SUBSET (1..n)
  OBVIOUS
<1>3. Cardinality(T \cup {x}) = IF x \in T THEN Cardinality(T) ELSE Cardinality(T) + 1
  BY <1>1, FS_AddElement
<1>4. Cardinality(T \cup {x}) <= Cardinality(T) + 1
  BY <1>1, <1>3
<1>5. /\ Cardinality(S) \in Nat /\ Cardinality(T \cup {x}) \in Nat
      /\ Cardinality(S) <= Cardinality(T \cup {x})
  BY <1>2, CountMonotone
<1> QED
  BY <1>1, <1>4, <1>5

\* The fields of a pending entry, and the only one there is.
LEMMA PendingFields ==
  ASSUME TInv, NEW e \in Pending
  PROVE  /\ e \in intents /\ e \in Entry /\ e.attempts \in Nat /\ e.rejected \in Nat
         /\ e.hashes \subseteq 1..e.attempts /\ e.nonce \in Int /\ e.id < nextId
         /\ Pending = {e} /\ HasPendingIntent
         /\ \A f \in intents : f.id = e.id => f = e
<1>1. e \in intents /\ e \in Entry
  BY DEF TInv, JInv, JournalTypeOK, Pending
<1>2. Pending = {e} /\ HasPendingIntent
  BY DEF TInv, JInv, OnePending, HasPendingIntent
<1> QED
  BY <1>1, <1>2 DEF TInv, JInv, OutcomesAreAttempts, IdsAreUnique, Entry, NoNonce

\* The entry a send works on is the pending one.
LEMMA CurrentIsPending ==
  ASSUME TInv, NEW e \in intents, e.id = active
  PROVE  e \in Pending /\ Pending = {e} /\ Current = {e}
<1>1. e \in Pending
  BY DEF Pending, TInv, JInv, ActiveIsPending
<1> QED
  BY <1>1, PendingFields DEF Current

LEMMA TransactionsOf ==
  ASSUME GInv, NEW e \in Pending
  PROVE  /\ \A t \in pool : t.id = e.id => /\ t.nonce = e.nonce /\ t.nonce >= chainNonce
                                           /\ t.try \in 1..e.attempts /\ t.try \in MayLand(e)
         /\ MayLand(e) \in SUBSET (1..e.attempts)
<1>1. e \in intents /\ e.attempts \in Nat
  BY PendingFields DEF GInv
<1>2. \A t \in pool : t.id = e.id => /\ t.nonce = e.nonce /\ t.nonce >= chainNonce
                                     /\ t.try \in 1..e.attempts
  BY <1>1 DEF GInv, TInv, BotTypeOK, PoolMatches, Tx
<1> QED
  BY <1>2 DEF MayLand

LEMMA SpentNonceKills ==
  ASSUME GInv, NEW e \in Pending, e.nonce < chainNonce PROVE Gone(e.id)
<1>1. e.nonce \in Int /\ chainNonce \in Int
  BY PendingFields DEF GInv, TInv, BotTypeOK
<1> QED
  BY <1>1, TransactionsOf DEF Gone

LEMMA ReceiptKills ==
  ASSUME GInv, NEW e \in Pending, NEW r \in mined, r.id = e.id PROVE Gone(e.id)
<1>1. e.nonce < chainNonce
  BY PendingFields DEF GInv, MinedIsSpent
<1> QED
  BY <1>1, SpentNonceKills

LEMMA NoAttemptsNoPool ==
  ASSUME GInv, NEW e \in Pending, e.attempts = 0 PROVE Gone(e.id)
BY TransactionsOf DEF Gone

LEMMA RejectionsKill ==
  ASSUME GInv, NEW e \in Pending,
         e.attempts <= e.rejected + (IF pc = "broadcast" /\ e.id = active THEN 1 ELSE 0)
  PROVE  Gone(e.id) /\ MayLand(e) = {}
<1>1. e.attempts \in Nat /\ e.rejected \in Nat
  BY PendingFields DEF GInv
<1>2. Cardinality(MayLand(e)) \in Nat
  BY <1>1, TransactionsOf, CountMonotone
<1>3. Cardinality(MayLand(e)) = 0
  BY <1>1, <1>2 DEF GInv, AttemptsAddUp
<1>4. IsFiniteSet(MayLand(e))
  BY <1>1, TransactionsOf, IntervalSubsetIsFinite
<1>5. MayLand(e) = {}
  BY <1>3, <1>4, FS_EmptySet
<1> QED
  BY <1>5, TransactionsOf DEF Gone

\* With every outcome known, what can be mined has a recorded hash.
LEMMA KnownOutcomesHaveHashes ==
  ASSUME GInv, NEW e \in Pending, OutcomesKnown(e)
  PROVE  \A t \in pool : t.id = e.id => t.try \in e.hashes
<1>1. e.attempts \in Nat /\ e.rejected \in Nat /\ e.hashes \subseteq 1..e.attempts
  BY PendingFields DEF GInv
<1>2. e.hashes \in SUBSET MayLand(e)
  BY <1>1 DEF MayLand
<1>3. Cardinality(e.hashes) \in Nat /\ Cardinality(MayLand(e)) \in Nat
      /\ Cardinality(e.hashes) <= Cardinality(MayLand(e))
      /\ (Cardinality(e.hashes) = Cardinality(MayLand(e)) => e.hashes = MayLand(e))
  BY <1>1, <1>2, TransactionsOf, CountMonotone
<1>4. Cardinality(MayLand(e)) + e.rejected <= e.attempts
  BY <1>1, <1>3 DEF GInv, AttemptsAddUp
<1>5. e.hashes = MayLand(e)
  BY <1>1, <1>3, <1>4 DEF OutcomesKnown
<1> QED
  BY <1>5, TransactionsOf

-----------------------------------------------------------------------------
(***************************************************************************)
(* The steps of the process that leave the chain alone.                    *)
(***************************************************************************)

\* The sums of the attempts survive a step that opens no intent, makes no
\* attempt, and is not about to broadcast or to record one.
LEMMA StillAddsUp ==
  ASSUME GInv,
         Pending' \subseteq Pending,
         pc' \notin {"broadcast", "record"} \/ UNCHANGED <<pc, active>>,
         \A t \in pool' : \E u \in pool : u.id = t.id /\ u.try = t.try
  PROVE  AttemptsAddUp'
<1> SUFFICES ASSUME NEW e \in Pending'
             PROVE  Cardinality(MayLand(e)') + e.rejected
                      + (IF pc' = "broadcast" /\ e.id = active' THEN 1 ELSE 0) <= e.attempts
  BY DEF AttemptsAddUp
<1>1. e \in Pending
  OBVIOUS
<1>2. e.attempts \in Nat /\ e.rejected \in Nat
  BY <1>1, PendingFields DEF GInv
<1>3. MayLand(e)' \in SUBSET MayLand(e)
  BY DEF MayLand
<1>4. /\ Cardinality(MayLand(e)') \in Nat /\ Cardinality(MayLand(e)) \in Nat
      /\ Cardinality(MayLand(e)') <= Cardinality(MayLand(e))
  BY <1>1, <1>2, <1>3, TransactionsOf, CountMonotone
<1>5. Cardinality(MayLand(e)) + e.rejected
        + (IF pc = "broadcast" /\ e.id = active THEN 1 ELSE 0) <= e.attempts
  BY <1>1 DEF GInv, AttemptsAddUp
<1> QED
  BY <1>2, <1>4, <1>5

\* A step that only removes entries, or confirms one.
LEMMA ProcessStep ==
  ASSUME GInv, TInv',
         UNCHANGED <<chainNonce, pool, mined, nextId>>,
         \A f \in intents' : \E e \in intents : f.id = e.id /\ f.nonce = e.nonce /\ f.attempts = e.attempts,
         Pending' \subseteq Pending,
         pc' \notin {"broadcast", "record"} \/ UNCHANGED <<pc, active>>,
         pc' \in Unsent => pc \in Unsent,
         pc' \in SendLoc => pc \in SendLoc /\ UNCHANGED <<active, op>>,
         MempoolIsConclusive', AbsenceIsCurrent'
  PROVE  GInv'
<1>1. AttemptsAddUp'
  BY StillAddsUp
<1>2. PoolMatches' /\ MinedIsSpent'
  BY DEF GInv, PoolMatches, MinedIsSpent
<1>3. FirstSendIsFresh' /\ SendsOneEffect'
  BY DEF GInv, FirstSendIsFresh, SendsOneEffect, Current, Unsent, SendLoc, Sendable
<1> QED
  BY <1>1, <1>2, <1>3 DEF GInv

\* Steps that leave journal and chain alone, and broadcast nothing.
LEMMA QuietStep ==
  ASSUME GInv, TInv', UNCHANGED <<journalVars, chainVars>>,
         pc' \notin {"broadcast", "record"},
         pc' \in Unsent => pc \in Unsent,
         pc' \in SendLoc => pc \in SendLoc /\ UNCHANGED op,
         pc' \in Sendable => pc \in Sendable
  PROVE  GInv'
<1>1. /\ UNCHANGED <<intents, nextId, active, absent, recovery, chainNonce, pool, mined>>
      /\ Pending' = Pending
  BY DEF journalVars, chainVars, Pending
<1>2. MempoolIsConclusive' /\ AbsenceIsCurrent'
  BY <1>1 DEF GInv, MempoolIsConclusive, AbsenceIsCurrent, HasPendingIntent, OutcomesKnown
<1> QED
  BY <1>1, <1>2, ProcessStep

\* Opening an intent: its id is new, and it has no attempt.
LEMMA BeginStep ==
  ASSUME GInv, TInv', NEW a \in Action, Begin(a), pc' \in Unsent, UNCHANGED chainVars
  PROVE  GInv'
<1>1. absent' = "never" /\ UNCHANGED <<chainNonce, mined, pool>> /\ Pending = {}
  BY DEF GInv, AbsenceIsCurrent, Begin, HasPendingIntent, chainVars
<1>2. /\ nextId \in Nat
      /\ \A x \in mined \cup pool : x.id \in Nat
      /\ \A e \in intents : e.id < nextId /\ e.id \in Nat
  BY BoundsAssumption
     DEF GInv, TInv, JInv, JournalTypeOK, BotTypeOK, Receipt, Tx, Entry, IdsAreUnique
<1>3. MinedIsSpent' /\ PoolMatches'
  BY <1>1, <1>2 DEF GInv, MinedIsSpent, PoolMatches, Begin, NewEntry
<1>4. FirstSendIsFresh' /\ SendsOneEffect' /\ AbsenceIsCurrent'
  BY <1>1, <1>2
     DEF GInv, FirstSendIsFresh, SendsOneEffect, AbsenceIsCurrent, PoolMatches, Begin, NewEntry, Current
<1>5. MempoolIsConclusive'
  BY DEF TInv, RecoveryIsExclusive, MempoolIsConclusive, Unsent
<1>6. AttemptsAddUp'
  <2> SUFFICES ASSUME NEW e \in Pending'
               PROVE  Cardinality(MayLand(e)') + e.rejected
                        + (IF pc' = "broadcast" /\ e.id = active' THEN 1 ELSE 0) <= e.attempts
    BY DEF AttemptsAddUp
  <2>1. e = NewEntry(nextId, a)
    BY <1>1 DEF Begin, Pending
  <2>2. MayLand(e)' = {}
    BY <2>1 DEF NewEntry, MayLand
  <2>3. Cardinality(MayLand(e)') = 0
    BY <2>2, FS_EmptySet
  <2> QED
    BY <2>1, <2>3 DEF NewEntry, Unsent
<1> QED
  BY <1>3, <1>4, <1>5, <1>6 DEF GInv

-----------------------------------------------------------------------------
(***************************************************************************)
(* recover().                                                              *)
(***************************************************************************)

\* Dropping the pending entry leaves nothing pending.
LEMMA DropLeavesNothing ==
  ASSUME TInv, NEW e \in Pending, Drop(e)
  PROVE  /\ intents' \subseteq intents /\ Pending' = {} /\ active' = NoId /\ absent' = "never"
         /\ Latest(intents) \subseteq intents'
<1>1. intents' \subseteq intents /\ Pending' = {} /\ active' = NoId /\ absent' = "never"
  BY DropShrinks DEF TInv, JInv, OnePending, Pending, Drop
<1>2. Latest(intents) \subseteq Latest(intents \ {e}) /\ Latest(intents \ {e}) \subseteq intents'
  BY PrunedKeepsPending DEF Drop, Latest, Pending
<1> QED
  BY <1>1, <1>2

LEMMA HoldKeepsPending ==
  ASSUME Hold
  PROVE  /\ intents' \subseteq intents /\ Pending' = Pending /\ UNCHANGED active
         /\ Latest(intents) \subseteq intents'
BY PrunedKeepsPending DEF Hold, Pending

LEMMA ConfirmLeavesNothing ==
  ASSUME TInv, NEW e \in Pending, ConfirmEntry(e)
  PROVE  /\ \A f \in intents' : \E g \in intents :
              f.id = g.id /\ f.nonce = g.nonce /\ f.attempts = g.attempts
         /\ Pending' = {} /\ active' = NoId /\ absent' = "never"
<1> DEFINE c == [e EXCEPT !.status = "confirmed"]
<1>1. intents' \subseteq (intents \ {e}) \cup {c} /\ active' = NoId /\ absent' = "never"
  BY PrunedKeepsPending DEF ConfirmEntry, Replaced
<1>2. /\ e \in intents
      /\ c.id = e.id /\ c.nonce = e.nonce /\ c.attempts = e.attempts /\ c.status = "confirmed"
  BY PendingFields DEF Entry
<1> HIDE DEF c
<1>3. Pending' = {}
  BY <1>1, <1>2, PendingFields DEF Pending
<1> QED
  BY <1>1, <1>2, <1>3

\* What one round of recover() may do to the pending entry e.  Only a landed
\* receipt confirms it; it is dropped only when nothing of it can be mined.
Settles(e) ==
  \/ recovery' = "off" /\ ConfirmEntry(e) /\ \E r \in ReceiptsOf(e) : r.ok
  \/ /\ recovery' = "off" /\ Drop(e) /\ Gone(e.id)
     /\ recovery = "nonce" \/ \A r \in ReceiptsOf(e) : ~r.ok
  \/ /\ Hold \/ UNCHANGED <<intents, active>>
     /\ absent' \in {"never", "thisBlock", absent}
     /\ recovery' # "off" => ReceiptsOf(e) = {} \/ recovery' = "mempool"
     /\ recovery' = "mempool" => OutcomesKnown(e) /\ recovery = "nonce"
     /\ recovery = "receipts" => e.attempts # 0

LEMMA RecoveryRound ==
  ASSUME GInv, RecoveryReceipts \/ RecoveryNonce \/ RecoveryMempool
  PROVE  /\ UNCHANGED <<nextId, chainVars, op, obligation>>
         /\ recovery # "off" /\ pc \in {"init", "cycle"}
         /\ pc' \in {"init", "cycle", "initReconcile", "idle", "reconcile"}
         /\ recovery' = "off" \/ UNCHANGED pc
         /\ pc' \in {"init", "cycle"} => recovery' # "off"
         /\ pc' = "initReconcile" => pc = "init"
         /\ pc' = "reconcile" => ~HasPendingIntent'
         /\ \E e \in Pending : Settles(e)
<1>1. /\ UNCHANGED <<nextId, chainVars, op, obligation>>
      /\ recovery # "off" /\ pc \in {"init", "cycle"} /\ AfterRecovery
  BY DEF RecoveryReceipts, RecoveryNonce, RecoveryMempool, RecoverReceipts, RecoverNonce,
         RecoverMempool, GInv, TInv, RecoveryIsExclusive
<1>2. \E e \in Pending : Settles(e)
  <2>1. CASE RecoveryReceipts
    <3> PICK e \in Pending :
          RecoverReceipts(IF \E r \in ReceiptsOf(e) : r.ok THEN "success"
                          ELSE IF ReceiptsOf(e) # {} THEN "reverted" ELSE "none")
      BY <2>1 DEF RecoveryReceipts
    <3>1. Pending = {e} /\ e.attempts \in Nat /\ e.rejected \in Nat
      BY PendingFields DEF GInv
    <3>2. CASE \E r \in ReceiptsOf(e) : r.ok
      BY <3>1, <3>2 DEF RecoverReceipts, Settles
    <3>3. CASE ReceiptsOf(e) # {} /\ ~(\E r \in ReceiptsOf(e) : r.ok)
      <4>1. Gone(e.id)
        BY <3>3, ReceiptKills DEF ReceiptsOf
      <4> QED
        BY <3>1, <3>3, <4>1 DEF RecoverReceipts, Settles
    <3>4. CASE ReceiptsOf(e) = {}
      <4>1. \/ /\ Drop(e) /\ recovery' = "off"
               /\ \/ e.attempts = 0 \/ e.nonce = NoNonce
                  \/ e.hashes = {} /\ e.rejected = e.attempts
            \/ recovery' = "nonce" /\ e.attempts # 0 /\ UNCHANGED <<intents, active, absent>>
        BY <3>1, <3>4 DEF RecoverReceipts
      <4>2. e.nonce = NoNonce => e.attempts = 0
        BY PendingFields DEF GInv, TInv, JInv, OutcomesAreAttempts
      <4>3. ASSUME e.rejected = e.attempts PROVE Gone(e.id)
        BY <1>1, <3>1, <4>3, RejectionsKill
      <4>4. Drop(e) /\ recovery' = "off" => Gone(e.id)
        BY <4>1, <4>2, <4>3, NoAttemptsNoPool
      <4> QED
        BY <3>4, <4>1, <4>4 DEF Settles
    <3> QED
      BY <3>2, <3>3, <3>4
  <2>2. CASE RecoveryNonce
    <3> PICK e \in Pending : RecoverNonce(chainNonce > e.nonce)
      BY <2>2 DEF RecoveryNonce
    <3>1. Pending = {e} /\ recovery = "nonce" /\ e.nonce \in Int /\ chainNonce \in Int
      BY PendingFields DEF GInv, TInv, BotTypeOK, RecoverNonce
    <3>2. CASE chainNonce > e.nonce
      <4>1. Gone(e.id)
        BY <3>1, <3>2, SpentNonceKills
      <4>2. Drop(e) /\ recovery' = "off"
        BY <3>1, <3>2 DEF RecoverNonce
      <4> QED
        BY <3>1, <4>1, <4>2 DEF Settles
    <3>3. CASE ~(chainNonce > e.nonce)
      <4>1. \/ Hold /\ recovery' = "off" /\ absent' \in {"never", absent}
            \/ recovery' = "mempool" /\ OutcomesKnown(e) /\ UNCHANGED <<intents, active, absent>>
        BY <3>1, <3>3 DEF RecoverNonce
      <4> QED
        BY <3>1, <4>1 DEF Settles
    <3> QED
      BY <3>2, <3>3
  <2>3. CASE RecoveryMempool
    <3> PICK e \in Pending, visible \in BOOLEAN :
          /\ ReceiptsOf(e) # {}
               \/ (\E t \in {t \in pool : t.id = e.id /\ t.try \in e.hashes} : ~t.fresh)
               => visible
          /\ RecoverMempool(visible)
      BY <2>3 DEF RecoveryMempool
    <3>1. Pending = {e} /\ recovery = "mempool" /\ recovery' = "off"
      BY PendingFields DEF GInv, RecoverMempool
    <3>2. \/ Hold /\ absent' \in {"never", "thisBlock"}
          \/ ~visible /\ absent = "earlier" /\ Drop(e)
      BY <3>1 DEF RecoverMempool
    <3>3. ASSUME ~visible, absent = "earlier" PROVE Gone(e.id)
      <4>1. \A t \in pool : t.id = e.id => t.try \in e.hashes /\ ~t.fresh
        BY <3>1, <3>3, KnownOutcomesHaveHashes DEF GInv, MempoolIsConclusive, AbsenceIsCurrent
      <4> QED
        BY <3>3, <4>1 DEF Gone
    <3> QED
      BY <3>1, <3>2, <3>3 DEF Settles
  <2> QED
    BY <2>1, <2>2, <2>3
<1> QED
  BY <1>1, <1>2 DEF AfterRecovery

LEMMA RecoveringGInv == ASSUME GInv, TInv', Recovering PROVE GInv'
<1> USE DEF Goto, At, botVars, chainVars
<1>1. CASE StartRecovery
  <2>1. UNCHANGED <<intents, nextId, active, absent, pc, op, chainNonce, pool, mined>> /\ recovery' = "receipts"
    BY <1>1 DEF StartRecovery, RecoverStart
  <2>2. MempoolIsConclusive' /\ AbsenceIsCurrent' /\ Pending' = Pending
    BY <2>1 DEF GInv, MempoolIsConclusive, AbsenceIsCurrent, HasPendingIntent, Pending
  <2> QED
    BY <2>1, <2>2, ProcessStep
<1>2. ASSUME RecoveryReceipts \/ RecoveryNonce \/ RecoveryMempool PROVE GInv'
  <2>1. /\ UNCHANGED <<nextId, chainNonce, pool, mined>>
        /\ pc' \notin SendLoc /\ pc \notin SendLoc
    BY <1>2, RecoveryRound DEF SendLoc, Sendable
  <2> PICK e \in Pending : Settles(e)
    BY <1>2, RecoveryRound
  <2>2. TInv
    BY DEF GInv
  <2>3. ASSUME Drop(e) \/ ConfirmEntry(e), recovery' = "off" PROVE GInv'
    <3>1. /\ \A f \in intents' : \E g \in intents :
               f.id = g.id /\ f.nonce = g.nonce /\ f.attempts = g.attempts
          /\ Pending' = {} /\ absent' = "never"
      BY <2>2, <2>3, DropLeavesNothing, ConfirmLeavesNothing
    <3>2. MempoolIsConclusive' /\ AbsenceIsCurrent'
      BY <2>3, <3>1 DEF MempoolIsConclusive, AbsenceIsCurrent
    <3> QED
      BY <2>1, <3>1, <3>2, ProcessStep DEF SendLoc, Sendable, Unsent
  <2>4. ASSUME Hold \/ UNCHANGED <<intents, active>>,
               absent' \in {"never", "thisBlock", absent},
               recovery' = "mempool" => OutcomesKnown(e)
        PROVE  GInv'
    <3>1. intents' \subseteq intents /\ Pending' = Pending /\ Pending = {e}
      BY <2>2, <2>4, HoldKeepsPending, PendingFields DEF Pending
    <3>2. MempoolIsConclusive'
      BY <2>4, <3>1 DEF MempoolIsConclusive, OutcomesKnown
    <3>3. AbsenceIsCurrent'
      BY <2>1, <2>4, <3>1 DEF GInv, AbsenceIsCurrent, HasPendingIntent, SendLoc
    <3> QED
      BY <2>1, <3>1, <3>2, <3>3, ProcessStep DEF SendLoc, Sendable, Unsent
  <2> QED
    BY <2>3, <2>4 DEF Settles
<1>3. CASE NothingToRecover
  <2>1. /\ intents' \subseteq intents /\ Pending' = Pending /\ pc' = "initReconcile"
        /\ UNCHANGED <<nextId, absent, recovery, chainNonce, pool, mined>> /\ recovery = "off"
    BY <1>3, PrunedKeepsPending DEF NothingToRecover, Pending
  <2>2. MempoolIsConclusive' /\ AbsenceIsCurrent'
    BY <2>1 DEF GInv, MempoolIsConclusive, AbsenceIsCurrent, HasPendingIntent, Sendable
  <2> QED
    BY <2>1, <2>2, ProcessStep DEF SendLoc, Sendable, Unsent
<1>4. CASE NothingPending \/ Reconcile
  BY <1>4, ReconcileShape, QuietStep DEF NothingPending, Unsent, SendLoc, Sendable
<1> QED
  BY <1>1, <1>2, <1>3, <1>4 DEF Recovering

-----------------------------------------------------------------------------
(***************************************************************************)
(* Planning, settling, and the environment.                                *)
(***************************************************************************)

LEMMA PlanningGInv ==
  ASSUME GInv, TInv', Planning \/ Start \/ StartCycle \/ BeginRelay PROVE GInv'
<1> USE DEF Goto, At, Unsent
<1>1. CASE BeginHedge \/ BeginSwapRecovery \/ BeginSwap \/ BeginRelay
  <2>1. /\ \E a \in Action : Begin(a)
        /\ pc' \in {"save", "link", "prepare"} /\ UNCHANGED chainVars
    BY <1>1 DEF BeginHedge, BeginSwapRecovery, BeginSwap, BeginRelay, Action
  <2> QED
    BY <2>1, BeginStep
<1>2. CASE SaveObligation \/ LinkObligation
  BY <1>2, QuietStep DEF SaveObligation, LinkObligation, SendLoc, Sendable
<1>3. CASE EndCycle \/ ClearConfirmedSwap \/ Start \/ StartCycle
  BY <1>3, ClearShape, QuietStep DEF EndCycle, Start, StartCycle, SendLoc, Sendable
<1> QED
  BY <1>1, <1>2, <1>3 DEF Planning

\* ConfirmSend settles the pending entry by a landed receipt.
LEMMA ConfirmSendShape ==
  ASSUME TInv, ConfirmSend
  PROVE  \E e \in Pending : /\ e.id = active /\ ConfirmEntry(e)
                            /\ \E r \in ReceiptsOf(e) : r.ok
<1> PICK e \in Current : \E r \in ReceiptsOf(e) : r.ok /\ Confirm(r.try)
  BY DEF ConfirmSend
<1>1. e \in intents /\ e.id = active /\ \A f \in intents : f.id = active => f = e
  BY DEF Current, TInv, JInv, IdsAreUnique
<1>2. e \in Pending
  BY <1>1, CurrentIsPending
<1> QED
  BY <1>1, <1>2 DEF Confirm

\* Fail deletes the pending entry.
LEMMA FailShape ==
  ASSUME TInv, Fail
  PROVE  \E e \in Pending : /\ e.id = active /\ intents' = intents \ {e} /\ Pending' = {}
                            /\ active' = NoId /\ absent' = "never" /\ UNCHANGED <<nextId, recovery>>
<1> PICK e \in intents : e.id = active /\ FailEntry(e)
  BY DEF Fail
<1>1. Pending = {e}
  BY CurrentIsPending
<1> QED
  BY <1>1 DEF Fail, FailEntry, Pending

LEMMA SettlingGInv == ASSUME GInv, TInv', Settling PROVE GInv'
<1> USE DEF Goto, At
<1>1. CASE ConfirmSend
  <2>1. PICK e \in Pending : ConfirmEntry(e)
    BY <1>1, ConfirmSendShape DEF GInv
  <2>2. /\ \A f \in intents' : \E g \in intents :
              f.id = g.id /\ f.nonce = g.nonce /\ f.attempts = g.attempts
        /\ Pending' = {} /\ absent' = "never"
    BY <2>1, ConfirmLeavesNothing DEF GInv
  <2>3. /\ pc' \in {"next", "idle", "clear"} /\ UNCHANGED <<nextId, chainNonce, pool, mined>>
    BY <1>1 DEF ConfirmSend, chainVars, Confirm
  <2>4. MempoolIsConclusive' /\ AbsenceIsCurrent'
    BY <2>2 DEF MempoolIsConclusive, AbsenceIsCurrent
  <2> QED
    BY <2>2, <2>3, <2>4, ProcessStep DEF SendLoc, Sendable, Unsent
<1>2. CASE ClearObligation \/ UndoObligation
  BY <1>2, ClearShape, QuietStep DEF SendLoc, Sendable, Unsent
<1>3. CASE FailSend \/ RelayReverted
  <2>1. pc' \in {"undo", "idle"} /\ UNCHANGED chainVars
    BY <1>3 DEF FailSend, RelayReverted
  <2>2. CASE UNCHANGED journalVars
    BY <2>1, <2>2, QuietStep DEF SendLoc, Sendable, Unsent
  <2>3. CASE Fail
    <3>1. /\ intents' \subseteq intents /\ absent' = "never" /\ Pending' = {}
          /\ UNCHANGED <<nextId, recovery>>
      BY <2>3, FailShape DEF GInv
    <3>2. MempoolIsConclusive' /\ AbsenceIsCurrent'
      BY <3>1 DEF MempoolIsConclusive, AbsenceIsCurrent
    <3> QED
      BY <2>1, <3>1, <3>2, ProcessStep DEF chainVars, SendLoc, Sendable, Unsent
  <2> QED
    BY <1>3, <2>2, <2>3 DEF FailSend, RelayReverted
<1> QED
  BY <1>1, <1>2, <1>3 DEF Settling

LEMMA EnvironmentGInv == ASSUME GInv, TInv', Environment PROVE GInv'
<1> USE DEF Goto, At
<1>1. CASE NewBlock
  <2>1. /\ UNCHANGED <<intents, nextId, active, recovery, pc, op, chainNonce, mined>>
        /\ pool' = {[t EXCEPT !.fresh = FALSE] : t \in pool}
        /\ absent' = IF absent = "thisBlock" THEN "earlier" ELSE absent
    BY <1>1 DEF NewBlock, Tick
  <2>2. Pending' = Pending /\ Current' = Current /\ pool \subseteq Tx
    BY <2>1 DEF Pending, Current, GInv, TInv, BotTypeOK
  <2>3. \A t \in pool' : /\ ~t.fresh
                         /\ \E u \in pool : t.id = u.id /\ t.try = u.try /\ t.nonce = u.nonce
                                            /\ t.effect = u.effect
    BY <2>1, <2>2 DEF Tx
  <2>4. AttemptsAddUp'
    BY <2>1, <2>2, <2>3, StillAddsUp
  <2>5. PoolMatches' /\ SendsOneEffect' /\ FirstSendIsFresh'
    BY <2>1, <2>2, <2>3 DEF GInv, PoolMatches, SendsOneEffect, FirstSendIsFresh
  <2>6. MinedIsSpent'
    BY <2>1 DEF GInv, MinedIsSpent
  <2>7. MempoolIsConclusive' /\ AbsenceIsCurrent'
    BY <2>1, <2>2, <2>3 DEF GInv, MempoolIsConclusive, AbsenceIsCurrent, HasPendingIntent, OutcomesKnown
  <2> QED
    BY <2>4, <2>5, <2>6, <2>7 DEF GInv
<1>2. ASSUME Mine \/ SpendElsewhere \/ Evict PROVE GInv'
  <2>1. /\ UNCHANGED <<intents, nextId, active, absent, recovery, pc, op>>
        /\ pool' \subseteq pool /\ Pending' = Pending /\ Current' = Current
        /\ chainNonce \in Nat /\ pool \subseteq Tx
    BY <1>2 DEF Mine, SpendElsewhere, Evict, SpendNonce, journalVars, botVars, Pending, Current,
                GInv, TInv, BotTypeOK
  <2>2. \/ chainNonce' = chainNonce
        \/ chainNonce' = chainNonce + 1 /\ \A t \in pool' : t.nonce > chainNonce
    BY <1>2 DEF Mine, SpendElsewhere, Evict, SpendNonce
  <2>3. \A t \in pool' : t.nonce >= chainNonce'
    BY <2>1, <2>2 DEF GInv, PoolMatches, Tx
  <2>4. AttemptsAddUp'
    BY <2>1, StillAddsUp
  <2>5. PoolMatches' /\ SendsOneEffect' /\ FirstSendIsFresh'
    BY <2>1, <2>3 DEF GInv, PoolMatches, SendsOneEffect, FirstSendIsFresh
  <2>6. MinedIsSpent'
    <3>1. \A f \in intents : f.nonce \in Int
      BY DEF GInv, TInv, JInv, JournalTypeOK, Entry, NoNonce
    <3>2. CASE Mine
      <4> PICK t \in pool : /\ t.nonce = chainNonce
                            /\ \A r \in mined' \ mined : r.id = t.id
        BY <3>2 DEF Mine
      <4>1. chainNonce' = chainNonce + 1
        BY <3>2 DEF Mine, SpendNonce
      <4>2. t.id < nextId /\ \A f \in intents : f.id = t.id => f.nonce # NoNonce /\ f.nonce < chainNonce'
        BY <2>1, <4>1 DEF GInv, PoolMatches, Tx, NoNonce
      <4>3. \A r \in mined, f \in intents : f.id = r.id => f.nonce # NoNonce /\ f.nonce < chainNonce'
        BY <2>1, <3>1, <4>1 DEF GInv, MinedIsSpent
      <4> QED
        BY <2>1, <4>2, <4>3 DEF MinedIsSpent, GInv
    <3>3. CASE SpendElsewhere \/ Evict
      <4>1. mined' = mined
        BY <3>3 DEF SpendElsewhere, Evict
      <4> QED
        BY <2>1, <2>2, <3>1, <4>1 DEF GInv, MinedIsSpent
    <3> QED
      BY <1>2, <3>2, <3>3
  <2>7. MempoolIsConclusive' /\ AbsenceIsCurrent'
    BY <2>1 DEF GInv, MempoolIsConclusive, AbsenceIsCurrent, HasPendingIntent, OutcomesKnown
  <2> QED
    BY <2>4, <2>5, <2>6, <2>7 DEF GInv
<1>3. CASE Crash
  <2>1. /\ UNCHANGED <<intents, nextId, chainNonce, pool, mined>> /\ Pending' = Pending
        /\ absent' = "never" /\ recovery' = "off" /\ pc' = "down"
    BY <1>3 DEF Crash, LoseMemory, chainVars, Pending
  <2>2. MempoolIsConclusive' /\ AbsenceIsCurrent'
    BY <2>1 DEF MempoolIsConclusive, AbsenceIsCurrent
  <2> QED
    BY <2>1, <2>2, ProcessStep DEF SendLoc, Sendable, Unsent
<1>4. CASE AbortSend \/ ReceiptRpcFails
  BY <1>4, QuietStep DEF AbortSend, ReceiptRpcFails, SendLoc, Sendable, Unsent
<1>5. CASE RecoveryFails
  <2>1. /\ UNCHANGED <<intents, nextId, active, absent, chainNonce, pool, mined>>
        /\ recovery' = "off" /\ pc' \in {"down", "idle"} /\ Pending' = Pending
    BY <1>5 DEF RecoveryFails, RecoverAbort, chainVars, Pending
  <2>2. MempoolIsConclusive' /\ AbsenceIsCurrent'
    BY <2>1 DEF GInv, MempoolIsConclusive, AbsenceIsCurrent, HasPendingIntent, Sendable
  <2> QED
    BY <2>1, <2>2, ProcessStep DEF SendLoc, Sendable, Unsent
<1> QED
  BY <1>1, <1>2, <1>3, <1>4, <1>5 DEF Environment

-----------------------------------------------------------------------------
(***************************************************************************)
(* The sender.                                                             *)
(***************************************************************************)

\* A step of the sender turns the pending entry e into f, and may broadcast.
LEMMA SenderStep ==
  ASSUME GInv, TInv', pc \in Sendable,
         NEW e \in intents, e.id = active, NEW f, intents' = Replaced(e, f),
         f.id = e.id, f.status = e.status, f.attempts \in Nat, f.attempts >= e.attempts,
         f.nonce = e.nonce \/ (e.nonce = NoNonce /\ Gone(e.id) /\ pool' = pool),
         pool' \subseteq pool \cup {NewTx(e)},
         pool' = pool \/ e.nonce >= chainNonce,
         UNCHANGED <<op, nextId, active, absent, recovery, chainNonce, mined>>,
         Cardinality(MayLand(f)') + f.rejected + (IF pc' = "broadcast" THEN 1 ELSE 0) <= f.attempts,
         pc' \notin Unsent
  PROVE  GInv'
<1>1. e \in Pending /\ Pending = {e}
  BY CurrentIsPending DEF GInv
<1>2. e \in Entry /\ e.attempts \in Nat /\ e.id < nextId
  BY <1>1, PendingFields DEF GInv
<1>3. Pending' = {f}
  BY <1>1, <1>2 DEF Pending, Replaced, Entry
<1>4. \A g \in intents' : g = f \/ (g \in intents /\ g.id # e.id)
  BY DEF Replaced, GInv, TInv, JInv, IdsAreUnique
<1>5. PoolMatches'
  <2> SUFFICES ASSUME NEW t \in pool'
               PROVE  /\ t.id < nextId /\ t.nonce >= chainNonce
                      /\ \A g \in intents' : g.id = t.id => t.nonce = g.nonce /\ t.try <= g.attempts
    BY DEF PoolMatches
  <2>1. CASE t \in pool
    <3>1. /\ t.id < nextId /\ t.nonce >= chainNonce /\ t.try \in Nat
          /\ \A g \in intents : g.id = t.id => t.nonce = g.nonce /\ t.try <= g.attempts
      BY <2>1 DEF GInv, TInv, BotTypeOK, Tx, PoolMatches
    <3>2. t.id = e.id => t.nonce = f.nonce /\ t.try <= f.attempts
      BY <1>2, <2>1, <3>1 DEF Gone
    <3> QED
      BY <1>4, <3>1, <3>2
  <2>2. CASE t \notin pool
    <3>1. t = NewTx(e) /\ e.nonce >= chainNonce /\ f.nonce = e.nonce
      BY <2>2
    <3> QED
      BY <1>2, <1>4, <3>1 DEF NewTx
  <2> QED
    BY <2>1, <2>2
<1>6. MinedIsSpent'
  BY <1>2, <1>4 DEF GInv, MinedIsSpent
<1>7. AttemptsAddUp'
  BY <1>3 DEF AttemptsAddUp
<1>8. MempoolIsConclusive' /\ AbsenceIsCurrent'
  BY DEF GInv, TInv, RecoveryIsExclusive, MempoolIsConclusive, AbsenceIsCurrent, Sendable
<1>9. FirstSendIsFresh' /\ SendsOneEffect'
  BY DEF GInv, FirstSendIsFresh, SendsOneEffect, NewTx, SendLoc
<1> QED
  BY <1>5, <1>6, <1>7, <1>8, <1>9 DEF GInv

LEMMA ReplaceByItself == ASSUME NEW e \in intents PROVE intents = Replaced(e, e)
BY DEF Replaced

LEMMA SendingGInv == ASSUME GInv, TInv', Sending PROVE GInv'
<1> USE DEF Goto, At
<1>1. CASE PinNonce
  <2> PICK n \in PendingCounts : ObserveTransaction(n, {})
    BY <1>1 DEF PinNonce
  <2> PICK e \in intents : /\ e.id = active
                           /\ e.nonce \in {NoNonce, n}
                           /\ intents' = Replaced(e, [e EXCEPT !.nonce = n, !.hashes = {}])
    BY DEF ObserveTransaction
  <2> DEFINE f == [e EXCEPT !.nonce = n, !.hashes = {}]
  <2>1. /\ e \in Pending /\ e \in Entry /\ e.attempts \in Nat /\ e.rejected \in Nat
    BY CurrentIsPending, PendingFields DEF GInv
  <2>2. /\ f.id = e.id /\ f.status = e.status /\ f.attempts = e.attempts /\ f.nonce = n
        /\ f.hashes = {} /\ f.rejected = e.rejected
    BY <2>1 DEF Entry
  <2>3. /\ pc = "prepare" /\ pc' = "attempt" /\ pool' = pool
        /\ UNCHANGED <<op, nextId, active, absent, recovery, chainNonce, mined>>
    BY <1>1 DEF PinNonce, ObserveTransaction, chainVars
  <2>4. Gone(e.id) /\ e.attempts = 0
    BY <2>1, <2>3, NoAttemptsNoPool DEF GInv, FirstSendIsFresh, Unsent, Current
  <2>5. intents' = Replaced(e, f)
    OBVIOUS
  <2> HIDE DEF f
  <2>6. MayLand(f)' = {}
    BY <2>2, <2>3, <2>4 DEF MayLand
  <2>7. Cardinality(MayLand(f)') = 0
    BY <2>6, FS_EmptySet
  <2>8. /\ Cardinality(MayLand(e)) \in Nat
        /\ Cardinality(MayLand(e)) + e.rejected <= e.attempts
    BY <2>1, <2>3, TransactionsOf, CountMonotone DEF GInv, AttemptsAddUp
  <2>9. Cardinality(MayLand(f)') + f.rejected + (IF pc' = "broadcast" THEN 1 ELSE 0) <= f.attempts
    BY <2>1, <2>2, <2>3, <2>7, <2>8
  <2> QED
    BY <2>1, <2>2, <2>3, <2>4, <2>5, <2>9, SenderStep DEF Sendable, Unsent
<1>2. CASE RecordAttempt
  <2> PICK e \in intents : /\ e.id = active
                           /\ intents' = Replaced(e, [e EXCEPT !.attempts = @ + 1])
    BY <1>2 DEF RecordAttempt, RecordBroadcastAttempt
  <2> DEFINE f == [e EXCEPT !.attempts = @ + 1]
  <2>1. /\ e \in Pending /\ e \in Entry /\ e.attempts \in Nat /\ e.rejected \in Nat
        /\ e.hashes \subseteq 1..e.attempts
    BY CurrentIsPending, PendingFields DEF GInv
  <2>2. /\ f.id = e.id /\ f.status = e.status /\ f.attempts = e.attempts + 1 /\ f.nonce = e.nonce
        /\ f.hashes = e.hashes /\ f.rejected = e.rejected
    BY <2>1 DEF Entry
  <2>3. /\ pc = "attempt" /\ pc' = "broadcast" /\ pool' = pool
        /\ UNCHANGED <<op, nextId, active, absent, recovery, chainNonce, mined>>
    BY <1>2 DEF RecordAttempt, RecordBroadcastAttempt, chainVars
  <2>4. intents' = Replaced(e, f)
    OBVIOUS
  <2> HIDE DEF f
  <2>5. MayLand(f)' \in SUBSET MayLand(e)
    BY <2>1, <2>2, <2>3, TransactionsOf DEF MayLand
  <2>6. /\ Cardinality(MayLand(f)') \in Nat /\ Cardinality(MayLand(e)) \in Nat
        /\ Cardinality(MayLand(f)') <= Cardinality(MayLand(e))
    BY <2>1, <2>5, TransactionsOf, CountMonotone
  <2>7. Cardinality(MayLand(e)) + e.rejected <= e.attempts
    BY <2>1, <2>3, <2>6 DEF GInv, AttemptsAddUp
  <2>8. Cardinality(MayLand(f)') + f.rejected + (IF pc' = "broadcast" THEN 1 ELSE 0) <= f.attempts
    BY <2>1, <2>2, <2>3, <2>6, <2>7
  <2>9. /\ f.attempts \in Nat /\ f.attempts >= e.attempts /\ pc \in Sendable /\ pc' \notin Unsent
        /\ pool' \subseteq pool \cup {NewTx(e)}
    BY <2>1, <2>2, <2>3 DEF Sendable, Unsent
  <2> QED
    BY <2>2, <2>3, <2>4, <2>8, <2>9, SenderStep
<1>3. CASE BroadcastAccepted \/ BroadcastUnanswered \/ BroadcastAlreadyKnown
  <2> PICK e \in Current : \/ pool' = pool
                           \/ e.nonce >= chainNonce /\ pool' = pool \cup {NewTx(e)}
    BY <1>3 DEF BroadcastAccepted, BroadcastUnanswered, BroadcastAlreadyKnown
  <2>1. e \in intents /\ e.id = active
    BY DEF Current
  <2>2. /\ pc = "broadcast" /\ pc' \in {"record", "wait", "error", "nonceSpent"}
        /\ UNCHANGED <<op, intents, nextId, active, absent, recovery, chainNonce, mined>>
    BY <1>3 DEF BroadcastAccepted, BroadcastUnanswered, BroadcastAlreadyKnown, journalVars
  <2>3. /\ e \in Pending /\ e.attempts \in Nat /\ e.rejected \in Nat /\ e.attempts >= 1
        /\ e.hashes \subseteq 1..e.attempts
    BY <2>1, <2>2, CurrentIsPending, PendingFields DEF GInv, TInv, SendsAreCounted
  <2>4. MayLand(e)' \in SUBSET (MayLand(e) \cup {e.attempts})
    BY <2>2 DEF MayLand, NewTx
  <2>5. MayLand(e)' \in SUBSET (1..e.attempts)
    BY <2>2 DEF MayLand
  <2>6. /\ Cardinality(MayLand(e)') \in Nat /\ Cardinality(MayLand(e)) \in Nat
    BY <2>3, <2>5, TransactionsOf, CountMonotone
  <2>7. Cardinality(MayLand(e)') <= Cardinality(MayLand(e)) + 1
    <3>1. e.attempts \in 1..e.attempts /\ MayLand(e) \in SUBSET (1..e.attempts)
      BY <2>3, TransactionsOf
    <3> QED
      BY <2>3, <2>4, <3>1, CountAddOne
  <2>8. Cardinality(MayLand(e)) + e.rejected + 1 <= e.attempts
    BY <2>1, <2>2, <2>3 DEF GInv, AttemptsAddUp
  <2>9. Cardinality(MayLand(e)') + e.rejected + (IF pc' = "broadcast" THEN 1 ELSE 0) <= e.attempts
    BY <2>2, <2>3, <2>6, <2>7, <2>8
  <2> QED
    BY <2>1, <2>2, <2>3, <2>9, ReplaceByItself, SenderStep DEF Sendable, Unsent
<1>4. CASE RecordHash
  <2> PICK g \in Current : ObserveTransaction(g.nonce, g.hashes \cup {g.attempts})
    BY <1>4 DEF RecordHash
  <2> PICK e \in intents :
        /\ e.id = active
        /\ intents' = Replaced(e, [e EXCEPT !.nonce = g.nonce, !.hashes = g.hashes \cup {g.attempts}])
    BY DEF ObserveTransaction
  <2> DEFINE f == [e EXCEPT !.nonce = g.nonce, !.hashes = g.hashes \cup {g.attempts}]
  <2>1. /\ e \in Pending /\ e \in Entry /\ e.attempts \in Nat /\ e.rejected \in Nat /\ g = e
        /\ e.hashes \subseteq 1..e.attempts
    BY CurrentIsPending, PendingFields DEF GInv
  <2>2. /\ f.id = e.id /\ f.status = e.status /\ f.attempts = e.attempts /\ f.nonce = e.nonce
        /\ f.hashes = e.hashes \cup {e.attempts} /\ f.rejected = e.rejected
    BY <2>1 DEF Entry
  <2>3. /\ pc = "record" /\ pc' = "wait" /\ pool' = pool
        /\ UNCHANGED <<op, nextId, active, absent, recovery, chainNonce, mined>>
    BY <1>4 DEF RecordHash, ObserveTransaction, chainVars
  <2>4. intents' = Replaced(e, f)
    OBVIOUS
  <2> HIDE DEF f
  <2>5. MayLand(f)' \in SUBSET MayLand(e)
    BY <2>1, <2>2, <2>3 DEF MayLand
  <2>6. /\ Cardinality(MayLand(f)') \in Nat /\ Cardinality(MayLand(e)) \in Nat
        /\ Cardinality(MayLand(f)') <= Cardinality(MayLand(e))
    BY <2>1, <2>5, TransactionsOf, CountMonotone
  <2>7. Cardinality(MayLand(e)) + e.rejected <= e.attempts
    BY <2>1, <2>3, <2>6 DEF GInv, AttemptsAddUp
  <2>8. Cardinality(MayLand(f)') + f.rejected + (IF pc' = "broadcast" THEN 1 ELSE 0) <= f.attempts
    BY <2>1, <2>2, <2>3, <2>6, <2>7
  <2> QED
    BY <2>1, <2>2, <2>3, <2>4, <2>8, SenderStep DEF Sendable, Unsent
<1>5. CASE BroadcastRejected \/ BroadcastNonceSpent
  <2> PICK e \in intents : /\ e.id = active
                           /\ intents' = Replaced(e, [e EXCEPT !.rejected = @ + 1])
    BY <1>5 DEF BroadcastRejected, BroadcastNonceSpent, RecordBroadcastRejection
  <2> DEFINE f == [e EXCEPT !.rejected = @ + 1]
  <2>1. /\ e \in Pending /\ e \in Entry /\ e.attempts \in Nat /\ e.rejected \in Nat
        /\ e.hashes \subseteq 1..e.attempts
    BY CurrentIsPending, PendingFields DEF GInv
  <2>2. /\ f.id = e.id /\ f.status = e.status /\ f.attempts = e.attempts /\ f.nonce = e.nonce
        /\ f.hashes = e.hashes /\ f.rejected = e.rejected + 1
    BY <2>1 DEF Entry
  <2>3. /\ pc = "broadcast" /\ pc' \in {"error", "wait", "nonceSpent"} /\ pool' = pool
        /\ UNCHANGED <<op, nextId, active, absent, recovery, chainNonce, mined>>
    BY <1>5 DEF BroadcastRejected, BroadcastNonceSpent, RecordBroadcastRejection, chainVars
  <2>4. intents' = Replaced(e, f)
    OBVIOUS
  <2> HIDE DEF f
  <2>5. MayLand(f)' \in SUBSET MayLand(e)
    BY <2>1, <2>2, <2>3 DEF MayLand
  <2>6. /\ Cardinality(MayLand(f)') \in Nat /\ Cardinality(MayLand(e)) \in Nat
        /\ Cardinality(MayLand(f)') <= Cardinality(MayLand(e))
    BY <2>1, <2>5, TransactionsOf, CountMonotone
  <2>7. Cardinality(MayLand(e)) + e.rejected + 1 <= e.attempts
    BY <2>1, <2>3 DEF GInv, AttemptsAddUp
  <2>8. Cardinality(MayLand(f)') + f.rejected + (IF pc' = "broadcast" THEN 1 ELSE 0) <= f.attempts
    BY <2>1, <2>2, <2>3, <2>6, <2>7
  <2>9. /\ f.attempts \in Nat /\ f.attempts >= e.attempts /\ pc \in Sendable /\ pc' \notin Unsent
        /\ pool' \subseteq pool \cup {NewTx(e)}
    BY <2>1, <2>2, <2>3 DEF Sendable, Unsent
  <2> QED
    BY <2>2, <2>3, <2>4, <2>8, <2>9, SenderStep
<1>6. CASE ReceiptFound \/ NonceSpentElsewhere \/ Bump \/ NotMined
  BY <1>6, QuietStep DEF ReceiptFound, NonceSpentElsewhere, Bump, NotMined, SendLoc, Sendable, Unsent
<1> QED
  BY <1>1, <1>2, <1>3, <1>4, <1>5, <1>6 DEF Sending

-----------------------------------------------------------------------------
LEMMA InitGInv == ASSUME Init PROVE GInv
<1>1. pool = {} /\ mined = {} /\ Pending = {} /\ recovery = "off" /\ absent = "never" /\ pc = "down"
  BY DEF Init, JournalInit, Pending
<1> QED
  BY <1>1, InitTInv DEF GInv, PoolMatches, MinedIsSpent, AttemptsAddUp, FirstSendIsFresh,
                        SendsOneEffect, MempoolIsConclusive, AbsenceIsCurrent, Unsent, SendLoc, Sendable

LEMMA NextGInv == ASSUME GInv, [Next]_vars PROVE GInv'
<1>1. TInv'
  BY NextTInv DEF GInv
<1>2. CASE UNCHANGED vars
  BY <1>1, <1>2
     DEF vars, journalVars, botVars, chainVars, GInv, PoolMatches, MinedIsSpent, AttemptsAddUp,
         MayLand, FirstSendIsFresh, SendsOneEffect, MempoolIsConclusive, AbsenceIsCurrent,
         HasPendingIntent, Pending, Current, OutcomesKnown
<1> QED
  BY <1>1, <1>2, RecoveringGInv, PlanningGInv, SendingGInv, SettlingGInv, EnvironmentGInv DEF Next

-----------------------------------------------------------------------------
(***************************************************************************)
(* Who puts a transaction into the mempools, and when the journal lets go  *)
(* of one.                                                                 *)
(***************************************************************************)

\* Only a send broadcasts, and only transactions of its pending intent.
LEMMA PoolGrowth ==
  ASSUME GInv, [Next]_vars, NEW t \in pool'
  PROVE  \/ \E u \in pool : u.id = t.id /\ u.effect = t.effect /\ u.nonce = t.nonce /\ u.try = t.try
         \/ /\ pc = "broadcast" /\ UNCHANGED <<journalVars, op, obligation, mined, chainNonce>>
            /\ \E e \in Current : t = NewTx(e) /\ e.nonce >= chainNonce
<1>1. CASE UNCHANGED pool
  BY <1>1
<1>2. CASE BroadcastAccepted \/ BroadcastUnanswered \/ BroadcastAlreadyKnown
  BY <1>2 DEF BroadcastAccepted, BroadcastUnanswered, BroadcastAlreadyKnown, At
<1>3. CASE NewBlock
  <2>1. pool \subseteq Tx
    BY DEF GInv, TInv, BotTypeOK
  <2> QED
    BY <1>3, <2>1 DEF NewBlock, Tx
<1>4. CASE Mine \/ SpendElsewhere \/ Evict
  BY <1>4 DEF Mine, SpendElsewhere, Evict, SpendNonce
<1> QED
  BY <1>1, <1>2, <1>3, <1>4
     DEF Next, vars, chainVars, Start, StartCycle, BeginRelay, Recovering, StartRecovery,
         RecoveryReceipts, RecoveryNonce, RecoveryMempool, NothingToRecover, NothingPending,
         Reconcile, Planning, EndCycle, BeginHedge, BeginSwapRecovery, ClearConfirmedSwap,
         SaveObligation, BeginSwap, LinkObligation, Sending, PinNonce, RecordAttempt, RecordHash,
         BroadcastRejected, BroadcastNonceSpent, ReceiptFound, NonceSpentElsewhere, Bump, NotMined,
         Settling, ConfirmSend, ClearObligation, RelayReverted, FailSend, UndoObligation, Environment,
         Crash, AbortSend, ReceiptRpcFails, RecoveryFails

\* The sender rewrites the pending entry e into f, and touches nothing else.
Rewrites(e, f) ==
  /\ e.id = active /\ f.id = e.id /\ f.action = e.action
  /\ intents' = Replaced(e, f) /\ Pending' = {f} /\ Latest(intents') = Latest(intents)
  /\ \/ pc = "prepare" /\ f.attempts = e.attempts
     \/ pc = "record" /\ f.attempts = e.attempts /\ f.hashes = e.hashes \cup {e.attempts}
     \/ pc \in {"attempt", "broadcast"} /\ f.hashes = e.hashes
  /\ UNCHANGED <<nextId, active, absent, recovery, chainVars, op, obligation>>

LEMMA SenderRewrites ==
  ASSUME TInv, PinNonce \/ RecordAttempt \/ RecordHash \/ BroadcastRejected \/ BroadcastNonceSpent
  PROVE  \E e \in Pending : \E f : Rewrites(e, f)
<1>1. ASSUME NEW e \in intents, e.id = active, NEW f, f.id = e.id, f.status = e.status,
             f.action = e.action, intents' = Replaced(e, f)
      PROVE  e \in Pending /\ Pending' = {f} /\ Latest(intents') = Latest(intents)
  <2>1. e \in Pending /\ Pending = {e} /\ e.status = "pending"
    BY <1>1, CurrentIsPending DEF Pending
  <2>2. Pending' = {f}
    BY <1>1, <2>1 DEF Pending, Replaced
  <2>3. \A x : x \in intents' /\ x.status = "confirmed" <=> x \in intents /\ x.status = "confirmed"
    BY <1>1, <2>1 DEF Replaced
  <2> QED
    BY <2>1, <2>2, <2>3 DEF Latest
<1>2. intents \subseteq Entry
  BY DEF TInv, JInv, JournalTypeOK
<1>3. ASSUME NEW n, NEW hs, ObserveTransaction(n, hs)
      PROVE  \E e \in intents : \E f : /\ e.id = active /\ f.id = e.id /\ f.status = e.status
               /\ f.action = e.action /\ f.attempts = e.attempts /\ f.hashes = hs
               /\ intents' = Replaced(e, f) /\ UNCHANGED <<nextId, active, absent, recovery>>
  BY <1>2, <1>3 DEF ObserveTransaction, Entry
<1>4. CASE PinNonce
  BY <1>1, <1>3, <1>4 DEF PinNonce, At, Rewrites
<1>5. CASE RecordHash
  <2>1. PICK e \in Current : ObserveTransaction(e.nonce, e.hashes \cup {e.attempts})
    BY <1>5 DEF RecordHash
  <2>2. e \in intents /\ e.id = active /\ \A g \in intents : g.id = active => g = e
    BY DEF Current, TInv, JInv, IdsAreUnique
  <2> QED
    BY <1>1, <1>3, <1>5, <2>1, <2>2 DEF RecordHash, At, Rewrites
<1>6. CASE RecordAttempt
  <2>1. PICK e \in intents : e.id = active /\ intents' = Replaced(e, [e EXCEPT !.attempts = @ + 1])
    BY <1>6 DEF RecordAttempt, RecordBroadcastAttempt
  <2> QED
    BY <1>1, <1>2, <1>6, <2>1 DEF RecordAttempt, RecordBroadcastAttempt, At, Rewrites, Entry
<1>7. CASE BroadcastRejected \/ BroadcastNonceSpent
  <2>1. PICK e \in intents : e.id = active /\ intents' = Replaced(e, [e EXCEPT !.rejected = @ + 1])
    BY <1>7 DEF BroadcastRejected, BroadcastNonceSpent, RecordBroadcastRejection
  <2> QED
    BY <1>1, <1>2, <1>7, <2>1
       DEF BroadcastRejected, BroadcastNonceSpent, RecordBroadcastRejection, At, Rewrites, Entry
<1> QED
  BY <1>4, <1>5, <1>6, <1>7

\* A pending intent stops being pending only when nothing of it can be mined,
\* or when the send of a hedge fails.
LEMMA LetGo ==
  ASSUME GInv, [Next]_vars, NEW e \in Pending
  PROVE  \/ \E f \in Pending' : f.id = e.id
         \/ Gone(e.id)
         \/ pc = "error" /\ e.id = active /\ op # "relay"
<1>0. TInv
  BY DEF GInv
<1>1. CASE UNCHANGED intents
  BY <1>1 DEF Pending
<1>2. CASE RecoveryReceipts \/ RecoveryNonce \/ RecoveryMempool
  <2> PICK g \in Pending : Settles(g)
    BY <1>2, RecoveryRound
  <2>1. g = e
    BY <1>0, PendingFields
  <2>2. (\E r \in ReceiptsOf(e) : r.ok) => Gone(e.id)
    BY ReceiptKills DEF ReceiptsOf
  <2>3. Hold \/ UNCHANGED <<intents, active>> => Pending' = Pending
    BY HoldKeepsPending DEF Pending
  <2> QED
    BY <2>1, <2>2, <2>3 DEF Settles
<1>3. CASE NothingToRecover
  BY <1>3 DEF NothingToRecover, HasPendingIntent
<1>4. CASE BeginHedge \/ BeginSwapRecovery \/ BeginSwap \/ BeginRelay
  BY <1>4 DEF BeginHedge, BeginSwapRecovery, BeginSwap, BeginRelay, Begin, HasPendingIntent
<1>5. CASE PinNonce \/ RecordAttempt \/ RecordHash \/ BroadcastRejected \/ BroadcastNonceSpent
  <2> PICK g \in Pending : \E f : Rewrites(g, f)
    BY <1>0, <1>5, SenderRewrites
  <2> PICK f : Rewrites(g, f)
    OBVIOUS
  <2> QED
    BY <1>0, PendingFields DEF Rewrites
<1>6. CASE ConfirmSend
  BY <1>0, <1>6, ConfirmSendShape, PendingFields, ReceiptKills DEF ReceiptsOf
<1>7. CASE FailSend
  <2>1. PICK g \in Current : IF op = "relay" /\ g.attempts > 0
                             THEN UNCHANGED journalVars ELSE Fail
    BY <1>7 DEF FailSend
  <2>2. g = e /\ e.id = active /\ e.attempts \in Nat
    BY <1>0, CurrentIsPending, PendingFields DEF Current
  <2>3. e.attempts = 0 => Gone(e.id)
    BY NoAttemptsNoPool
  <2> QED
    BY <1>1, <1>7, <2>1, <2>2, <2>3 DEF FailSend, At, journalVars
<1>8. CASE RelayReverted
  <2>1. PICK g \in Current : ReceiptsOf(g) # {}
    BY <1>8 DEF RelayReverted
  <2>2. g = e
    BY <1>0, CurrentIsPending, PendingFields DEF Current
  <2> QED
    BY <2>1, <2>2, ReceiptKills DEF ReceiptsOf
<1> QED
  BY <1>1, <1>2, <1>3, <1>4, <1>5, <1>6, <1>7, <1>8
     DEF Next, vars, journalVars, Start, StartCycle, Recovering, StartRecovery, RecoverStart,
         NothingPending, Reconcile, Planning, EndCycle, ClearConfirmedSwap, SaveObligation,
         LinkObligation, Sending, BroadcastAccepted, BroadcastUnanswered, BroadcastAlreadyKnown,
         ReceiptFound, NonceSpentElsewhere, Bump, NotMined, Settling, ClearObligation,
         UndoObligation, Environment, NewBlock, Tick, Mine, SpendElsewhere, Evict, Crash, LoseMemory,
         AbortSend, ReceiptRpcFails, RecoveryFails, RecoverAbort

-----------------------------------------------------------------------------
(***************************************************************************)
(* The relay keeps its intent, whatever the faults.                        *)
(***************************************************************************)

LEMMA NextRelayFence == ASSUME GInv, RelayFence, [Next]_vars PROVE RelayFence'
<1> SUFFICES ASSUME NEW t \in pool', t.effect = "relay"
             PROVE  \E e \in Pending' : e.id = t.id
  BY DEF RelayFence
<1>1. CASE \E u \in pool : u.id = t.id /\ u.effect = t.effect
  <2>1. PICK e \in Pending : e.id = t.id
    BY <1>1 DEF RelayFence
  <2>2. ~Gone(e.id)
    BY <1>1, <2>1 DEF Gone
  <2>3. ~(pc = "error" /\ e.id = active /\ op # "relay")
    BY <1>1, <2>1 DEF GInv, SendsOneEffect, SendLoc, EffectOf
  <2> QED
    BY <2>1, <2>2, <2>3, LetGo
<1>2. CASE UNCHANGED journalVars /\ \E e \in Current : t = NewTx(e)
  <2>1. PICK e \in Current : t = NewTx(e)
    BY <1>2
  <2>2. e \in Pending
    BY CurrentIsPending DEF GInv, Current
  <2> QED
    BY <1>2, <2>1, <2>2 DEF NewTx, Pending, journalVars
<1> QED
  BY <1>1, <1>2, PoolGrowth

\* A relayed Safe transaction keeps its intent until it can no longer land, with
\* every fault of the environment at once: only its own receipt, its spent
\* nonce, explicit refusals, or two empty mempools let the journal forget it.
THEOREM RelayFenceHolds == Spec => []RelayFence
<1>1. Init => GInv /\ RelayFence
  BY InitGInv DEF Init, RelayFence
<1>2. GInv /\ RelayFence /\ [Next]_vars => (GInv /\ RelayFence)'
  BY NextGInv, NextRelayFence
<1> QED
  BY <1>1, <1>2, PTL DEF Spec

-----------------------------------------------------------------------------
(***************************************************************************)
(* An operation lands once, whatever the faults: what can be mined of it   *)
(* carries one nonce, and is gone once that nonce is spent.                *)
(***************************************************************************)

\* A mined transaction leaves a receipt of its own intent and effect.
LEMMA MineShape ==
  ASSUME TInv, Mine
  PROVE  \E t \in pool, ok \in BOOLEAN :
           /\ t.nonce = chainNonce
           /\ mined' = mined \cup {[id |-> t.id, try |-> t.try, effect |-> t.effect, ok |-> ok]}
           /\ chainNonce' = chainNonce + 1 /\ pool' = {u \in pool : u.nonce > chainNonce}
           /\ UNCHANGED <<journalVars, botVars, externals, crashes>> /\ ChainMayMove
BY DEF Mine, SpendNonce

\* Only a mined transaction leaves a receipt.
LEMMA OnlyMineLands == ASSUME [Next]_vars PROVE Mine \/ UNCHANGED mined
<1> USE DEF botVars, chainVars, vars
<1>1. CASE Recovering \/ Start \/ StartCycle \/ BeginRelay
  BY <1>1 DEF Recovering, Start, StartCycle, BeginRelay, StartRecovery, RecoveryReceipts, RecoveryNonce,
              RecoveryMempool, NothingToRecover, NothingPending, Reconcile
<1>2. CASE Planning \/ Settling
  BY <1>2 DEF Planning, EndCycle, BeginHedge, BeginSwapRecovery, ClearConfirmedSwap, SaveObligation,
              BeginSwap, LinkObligation, Settling, ConfirmSend, ClearObligation, RelayReverted, FailSend,
              UndoObligation
<1>3. CASE Sending
  BY <1>3 DEF Sending, PinNonce, RecordAttempt, BroadcastAccepted, RecordHash, BroadcastRejected,
              BroadcastNonceSpent, BroadcastUnanswered, BroadcastAlreadyKnown, ReceiptFound,
              NonceSpentElsewhere, Bump, NotMined
<1>4. CASE Environment
  BY <1>4 DEF Environment, NewBlock, SpendElsewhere, Evict, Crash, AbortSend, ReceiptRpcFails, RecoveryFails
<1> QED
  BY <1>1, <1>2, <1>3, <1>4 DEF Next

\* The transactions of one intent compete for one nonce.
OneNonce == \A t, u \in pool : t.id = u.id => t.nonce = u.nonce

\* What has landed cannot be mined again.
NotAgain == \A t \in pool, r \in mined : r.id # t.id

LInv == GInv /\ LandsOnce /\ OneNonce /\ NotAgain

LEMMA NextLInv == ASSUME LInv, [Next]_vars PROVE LInv'
<1>0. GInv /\ TInv /\ GInv'
  BY NextGInv DEF LInv, GInv
<1>1. CASE UNCHANGED mined
  <2>1. ASSUME NEW t \in pool'
        PROVE  \/ \E u \in pool : u.id = t.id /\ u.nonce = t.nonce
               \/ \E e \in Current : /\ t = NewTx(e) /\ e.nonce >= chainNonce
                                     /\ UNCHANGED <<intents, active>>
    BY <1>0, PoolGrowth DEF journalVars
  <2>2. ASSUME NEW e \in Current, e.nonce >= chainNonce
        PROVE  /\ NewTx(e).id = e.id /\ NewTx(e).nonce = e.nonce
               /\ \A u \in pool : u.id = e.id => u.nonce = e.nonce
               /\ \A r \in mined : r.id # e.id
               /\ \A f \in Current : f = e
    <3>1. e \in intents /\ e \in Pending /\ e.nonce \in Int /\ chainNonce \in Int
      BY <1>0, CurrentIsPending, PendingFields DEF Current, TInv, BotTypeOK
    <3>2. \A r \in mined : r.id # e.id
      BY <2>2, <3>1 DEF LInv, GInv, MinedIsSpent
    <3>3. \A u \in pool : u.id = e.id => u.nonce = e.nonce
      BY <3>1 DEF LInv, GInv, PoolMatches
    <3>4. \A f \in Current : f = e
      BY <1>0, CurrentIsPending DEF Current
    <3> QED
      BY <3>2, <3>3, <3>4 DEF NewTx
  <2>3. OneNonce'
    BY <2>1, <2>2 DEF LInv, OneNonce
  <2>4. NotAgain'
    BY <1>1, <2>1, <2>2 DEF LInv, NotAgain
  <2> QED
    BY <1>0, <1>1, <2>3, <2>4 DEF LInv, LandsOnce
<1>2. CASE Mine
  <2> PICK t \in pool, ok \in BOOLEAN :
           /\ t.nonce = chainNonce
           /\ mined' = mined \cup {[id |-> t.id, try |-> t.try, effect |-> t.effect, ok |-> ok]}
           /\ pool' = {u \in pool : u.nonce > chainNonce}
    BY <1>0, <1>2, MineShape
  <2>1. PICK r : r.id = t.id /\ mined' = mined \cup {r}
    OBVIOUS
  <2>2. \A s \in mined : s.id # t.id
    BY DEF LInv, NotAgain
  <2>3. \A u \in pool' : u \in pool /\ u.id # t.id
    BY <1>0 DEF LInv, OneNonce, TInv, BotTypeOK
  <2> QED
    BY <1>0, <2>1, <2>2, <2>3 DEF LInv, LandsOnce, OneNonce, NotAgain
<1> QED
  BY <1>1, <1>2, OnlyMineLands

LEMMA InitLInv == ASSUME Init PROVE LInv
BY InitGInv DEF Init, LInv, LandsOnce, OneNonce, NotAgain

\* An operation lands at most once, with every fault of the environment at once:
\* its replacements share the nonce the journal pinned, and neither a lost
\* answer, nor a restart, nor an intent forgotten too early sends it again on
\* another.
THEOREM IntentsLandOnce == Spec => []LandsOnce
<1>1. LInv => LandsOnce
  BY DEF LInv
<1>2. LInv /\ [Next]_vars => LInv'
  BY NextLInv
<1>3. Init => LInv
  BY InitLInv
<1> QED
  BY <1>1, <1>2, <1>3, PTL DEF Spec

-----------------------------------------------------------------------------
(***************************************************************************)
(* The fence around every operation.                                       *)
(***************************************************************************)

\* Every first broadcast and every receipt poll is answered, and the kill
\* switch stays off while a transaction waits.
Answered ==
  Faults \cap {"sendTimeout", "alreadyKnown", "receiptRpc", "killSwitch", "legacyFees"} = {}

\* Nothing can be mined before the first broadcast, nor once a send has failed.
NothingInFlight == pc \in Unsent \cup {"nonceSpent", "error"} => pool = {}

FInv == GInv /\ Fence /\ NothingInFlight

\* Only the pending intent has transactions.
LEMMA GoneIsEmpty == ASSUME FInv, NEW e \in Pending, Gone(e.id) PROVE pool = {}
BY PendingFields DEF Gone, FInv, Fence, GInv

LEMMA NextFence == ASSUME FInv, [Next]_vars PROVE Fence'
<1> SUFFICES ASSUME NEW t \in pool' PROVE \E e \in Pending' : e.id = t.id
  BY DEF Fence
<1>1. CASE \E u \in pool : u.id = t.id
  <2>1. PICK e \in Pending : e.id = t.id
    BY <1>1 DEF FInv, Fence
  <2>2. ~Gone(e.id) /\ pc # "error"
    BY <1>1, <2>1 DEF Gone, FInv, NothingInFlight
  <2> QED
    BY <2>1, <2>2, LetGo DEF FInv
<1>2. CASE UNCHANGED journalVars /\ \E e \in Current : t = NewTx(e)
  <2>1. PICK e \in Current : t = NewTx(e)
    BY <1>2
  <2>2. e \in Pending
    BY CurrentIsPending DEF FInv, GInv, Current
  <2> QED
    BY <1>2, <2>1, <2>2 DEF NewTx, Pending, journalVars
<1> QED
  BY <1>1, <1>2, PoolGrowth DEF FInv

\* Where a send comes to rest, or has not begun, is reached only with nothing
\* in the mempools.
LEMMA NextNothingInFlight == ASSUME Answered, FInv, [Next]_vars PROVE NothingInFlight'
<1> SUFFICES ASSUME pc' \in Unsent \cup {"nonceSpent", "error"} PROVE pool' = {}
  BY DEF NothingInFlight
<1> USE DEF At, Goto
<1>1. CASE UNCHANGED pc
  <2>1. pool = {} /\ pc # "broadcast"
    BY <1>1 DEF FInv, NothingInFlight, Unsent
  <2> QED
    BY <2>1, PoolGrowth DEF FInv
<1>2. CASE BeginHedge \/ BeginSwapRecovery \/ BeginSwap \/ BeginRelay
  BY <1>2 DEF BeginHedge, BeginSwapRecovery, BeginSwap, BeginRelay, Begin, HasPendingIntent, chainVars,
              FInv, Fence
<1>3. CASE SaveObligation \/ LinkObligation \/ AbortSend \/ NonceSpentElsewhere
  BY <1>3 DEF SaveObligation, LinkObligation, AbortSend, NonceSpentElsewhere, chainVars, FInv,
              NothingInFlight, Unsent
<1>4. CASE ReceiptFound
  <2>1. PICK e \in Current : ReceiptsOf(e) # {}
    BY <1>4 DEF ReceiptFound
  <2>2. e \in Pending
    BY CurrentIsPending DEF FInv, GInv, Current
  <2> QED
    BY <1>4, <2>1, <2>2, ReceiptKills, GoneIsEmpty DEF FInv, ReceiptsOf, ReceiptFound, chainVars
<1>5. CASE BroadcastRejected \/ BroadcastNonceSpent
  <2>1. PICK e \in Current : e.attempts = 1 \/ e.nonce < chainNonce
    BY <1>5 DEF BroadcastRejected, BroadcastNonceSpent, Unsent
  <2>2. e \in Pending /\ e.id = active /\ e.rejected \in Nat
    BY CurrentIsPending, PendingFields DEF FInv, GInv, Current
  <2>3. pc = "broadcast" /\ UNCHANGED pool
    BY <1>5 DEF BroadcastRejected, BroadcastNonceSpent, chainVars
  <2> QED
    BY <2>1, <2>2, <2>3, SpentNonceKills, RejectionsKill, GoneIsEmpty DEF FInv
<1>6. ~(BroadcastUnanswered /\ pc' = "error") /\ ~BroadcastAlreadyKnown /\ ~ReceiptRpcFails
  BY DEF BroadcastUnanswered, BroadcastAlreadyKnown, ReceiptRpcFails, Answered
<1>7. ~(Bump /\ pc' = "error") /\ ~(NotMined /\ pc' = "error")
  BY DEF Bump, NotMined, Answered
<1>8. ASSUME RecoveryReceipts \/ RecoveryNonce \/ RecoveryMempool PROVE FALSE
  BY <1>8, RecoveryRound DEF FInv, Unsent
<1> QED
  BY <1>1, <1>2, <1>3, <1>4, <1>5, <1>6, <1>7, <1>8
     DEF Unsent, Next, vars, botVars, Start, StartCycle, Recovering, StartRecovery,
         NothingToRecover, NothingPending, Reconcile, Planning, EndCycle, ClearConfirmedSwap,
         Sending, PinNonce, RecordAttempt, BroadcastAccepted, BroadcastUnanswered, RecordHash,
         Bump, NotMined, Settling, ConfirmSend, ClearObligation, RelayReverted, FailSend,
         UndoObligation, Stale, ClearThen, Environment, NewBlock, Mine, SpendElsewhere, Evict, Crash, RecoveryFails

LEMMA InitFInv == ASSUME Init PROVE FInv
BY InitGInv DEF Init, FInv, Fence, NothingInFlight

LEMMA NextFInv == ASSUME Answered, FInv, [Next]_vars PROVE FInv'
BY NextGInv, NextFence, NextNothingInFlight DEF FInv

\* While every first broadcast and every receipt poll is answered, a
\* transaction that can still be mined belongs to the pending intent: through
\* crashes at any point, replacements, evictions, foreign transactions on the
\* nonce and reverts, the journal never lets go of an intent too early.
THEOREM FenceHolds == ASSUME Answered PROVE Spec => []Fence
<1>1. Answered
  OBVIOUS
<1>2. FInv => Fence
  BY DEF FInv
<1>3. FInv /\ [Next]_vars => FInv'
  BY <1>1, NextFInv
<1>4. Init => FInv
  BY InitFInv
<1> QED
  BY <1>2, <1>3, <1>4, PTL DEF Spec

-----------------------------------------------------------------------------
(***************************************************************************)
(* Part 3.  The off-venue pair.                                            *)
(***************************************************************************)

\* The dispatch the obligation names has landed.
CauseLanded == \E r \in Landed("dispatch") : r.id = obligation.dispatch

\* The obligation names intents that were begun.
ObligationIsOld == obligation.dispatch < nextId /\ obligation.swap < nextId

\* The intent the obligation is about to name is new: nothing of it was sent.
Opened ==
  pc \in {"save", "link"} => /\ \E e \in Pending : e.id = active
                             /\ \A x \in pool \cup mined : x.id # active
                             /\ op \in (IF pc = "save" THEN {"dispatch"} ELSE {"swap", "recovery"})

\* What the dispatch's intent sends and lands is a dispatch.
NamesDispatch == \A x \in pool \cup mined : x.id = obligation.dispatch => x.effect = "dispatch"

\* The intent the obligation names as its dispatch is sent as one, and from the
\* save on a dispatch is sent only under the obligation.
DispatchSends ==
  /\ pc \in SendLoc /\ active = obligation.dispatch => op = "dispatch"
  /\ pc \in SendLoc \ {"save"} /\ op = "dispatch" => active = obligation.dispatch

\* The journal confirms only what landed.
ConfirmedLanded == \A e \in Confirmed : \E r \in mined : r.id = e.id /\ r.ok

\* Where an obligation whose dispatch has not landed may stand: it is about to
\* be withdrawn or reconciled.
Unreconciled == {"down", "init", "initReconcile", "reconcile", "undo"}

\* Elsewhere its dispatch has landed, or is pending.
ObligationHasCause ==
  obligation # NoObligation => \/ CauseLanded
                               \/ pc \in Unreconciled
                               \/ \E e \in Pending : e.id = obligation.dispatch

\* A swap is opened and sent only under a landed dispatch.
SwapsHaveCause ==
  /\ pc \in SendLoc /\ op \in {"swap", "recovery"} => CauseLanded
  /\ pc = "next" => CauseLanded

CInv == /\ GInv /\ ObligationIsOld /\ Opened /\ NamesDispatch /\ DispatchSends
        /\ ConfirmedLanded /\ ObligationHasCause /\ SwapsHaveCause

-----------------------------------------------------------------------------
LEMMA IdsOfTransactions ==
  ASSUME TInv
  PROVE  /\ \A x \in pool \cup mined : x.id \in Nat /\ x.id # NoId
         /\ nextId \in Nat /\ obligation \in Obligation
         /\ obligation.dispatch \in Nat /\ obligation.swap \in Nat
         /\ \A e \in intents : e.id \in Nat /\ e.id < nextId /\ e.id # NoId
BY BoundsAssumption DEF TInv, BotTypeOK, JInv, JournalTypeOK, IdsAreUnique, Tx, Receipt, Obligation,
                        Entry, NoId

LEMMA OldObligationHasNoTransactions ==
  ASSUME TInv, obligation = NoObligation
  PROVE  ~CauseLanded /\ \A x \in pool \cup mined : x.id # obligation.dispatch /\ x.id # obligation.swap
BY IdsOfTransactions DEF NoObligation, CauseLanded, Landed

\* Steps that leave the chain, and the dispatch the obligation names, alone.
LEMMA CauseStep ==
  ASSUME CInv, GInv', UNCHANGED <<mined, nextId>>,
         \A t \in pool' : \E u \in pool : u.id = t.id /\ u.effect = t.effect,
         \/ UNCHANGED obligation
         \/ obligation'.dispatch = obligation.dispatch /\ obligation'.swap < nextId /\ CauseLanded,
         Confirmed' \subseteq Confirmed,
         \A e \in Pending : \/ \E f \in Pending' : f.id = e.id
                            \/ e.id = obligation.dispatch => CauseLanded \/ pc' \in Unreconciled,
         pc' \in SendLoc => \/ pc \in SendLoc \ {"save"} /\ UNCHANGED <<active, op>>
                            \/ UNCHANGED <<pc, active, op, Pending, obligation>>,
         pc' \in {"save", "link"} => UNCHANGED <<pc, Pending>>,
         pc' = "next" => CauseLanded,
         pc \in Unreconciled => pc' \in Unreconciled \/ obligation = NoObligation \/ CauseLanded
  PROVE  CInv'
<1>1. CauseLanded => CauseLanded'
  BY DEF CauseLanded, Landed
<1>2. ObligationIsOld' /\ NamesDispatch' /\ ConfirmedLanded'
  BY DEF CInv, ObligationIsOld, NamesDispatch, ConfirmedLanded
<1>3. Opened' /\ DispatchSends'
  BY DEF CInv, Opened, DispatchSends, SendLoc, Sendable
<1>4. ObligationHasCause' /\ SwapsHaveCause'
  BY <1>1 DEF CInv, ObligationHasCause, SwapsHaveCause, SendLoc, Sendable
<1> QED
  BY <1>2, <1>3, <1>4 DEF CInv

\* Steps that remove the obligation.
LEMMA CauseCleared ==
  ASSUME CInv, GInv', UNCHANGED <<journalVars, chainVars>>, obligation' = NoObligation,
         pc' \notin SendLoc \cup {"next"}
  PROVE  CInv'
<1>1. \A x \in pool' \cup mined' : x.id # obligation'.dispatch
  BY OldObligationHasNoTransactions, IdsOfTransactions DEF CInv, GInv, chainVars, NoObligation, NoId
<1>2. NamesDispatch' /\ ConfirmedLanded' /\ ObligationIsOld'
  BY <1>1, IdsOfTransactions
     DEF CInv, GInv, NamesDispatch, ConfirmedLanded, ObligationIsOld, journalVars, chainVars, Confirmed,
         NoObligation, NoId, TInv, JInv, JournalTypeOK
<1>3. Opened' /\ DispatchSends' /\ ObligationHasCause' /\ SwapsHaveCause'
  BY DEF Opened, DispatchSends, ObligationHasCause, SwapsHaveCause, SendLoc, Sendable
<1> QED
  BY <1>2, <1>3 DEF CInv

\* Opening an intent.
LEMMA CauseBegun ==
  ASSUME CInv, GInv', NEW a \in Action, Begin(a), UNCHANGED <<obligation, chainVars>>,
         pc' \in Unsent, op' = "dispatch" <=> pc' = "save",
         pc' = "link" => op' \in {"swap", "recovery"},
         op' \in {"swap", "recovery"} => CauseLanded,
         obligation = NoObligation \/ CauseLanded
  PROVE  CInv'
<1>1. /\ active' = nextId /\ nextId' = nextId + 1 /\ intents' = intents \cup {NewEntry(nextId, a)}
      /\ UNCHANGED <<pool, mined>> /\ nextId \in Nat
  BY IdsOfTransactions DEF Begin, CInv, GInv, chainVars
<1>2. \A x \in pool \cup mined : x.id < nextId /\ x.id # active'
  BY <1>1, IdsOfTransactions DEF CInv, GInv, PoolMatches, MinedIsSpent
<1>3. CauseLanded' = CauseLanded /\ Confirmed' = Confirmed /\ NewEntry(nextId, a) \in Pending'
  BY <1>1 DEF CauseLanded, Landed, Confirmed, Pending, NewEntry
<1>4. ObligationIsOld' /\ NamesDispatch' /\ ConfirmedLanded'
  BY <1>1, <1>3, IdsOfTransactions DEF CInv, GInv, ObligationIsOld, NamesDispatch, ConfirmedLanded
<1>5. Opened'
  BY <1>1, <1>2, <1>3 DEF Opened, NewEntry
<1>6. DispatchSends'
  BY <1>1, IdsOfTransactions DEF CInv, GInv, ObligationIsOld, DispatchSends, SendLoc, Sendable, Unsent
<1>7. ObligationHasCause' /\ SwapsHaveCause'
  BY <1>3 DEF ObligationHasCause, SwapsHaveCause, Unsent
<1> QED
  BY <1>4, <1>5, <1>6, <1>7 DEF CInv

LEMMA RecoveringCInv == ASSUME CInv, GInv', Recovering, Withdrawn PROVE CInv'
<1> USE DEF Goto, At, botVars, chainVars
<1>0. TInv /\ GInv
  BY DEF CInv, GInv
<1>1. CASE StartRecovery \/ NothingToRecover
  <2>1. /\ UNCHANGED <<obligation, nextId, pool, mined>> /\ Confirmed' \subseteq Confirmed
        /\ Pending' = Pending /\ pc \in {"init", "cycle"} /\ pc' \in {pc, "initReconcile"}
        /\ pc' = "initReconcile" => pc = "init"
    BY <1>1, PrunedKeepsPending
       DEF StartRecovery, RecoverStart, NothingToRecover, Confirmed, Pending
  <2> QED
    BY <2>1, CauseStep DEF SendLoc, Sendable, Unreconciled
<1>2. ASSUME RecoveryReceipts \/ RecoveryNonce \/ RecoveryMempool PROVE CInv'
  <2>1. /\ UNCHANGED <<obligation, nextId, pool, mined>>
        /\ pc \in {"init", "cycle"} /\ pc' \in {"init", "cycle", "initReconcile", "idle", "reconcile"}
        /\ recovery' = "off" \/ UNCHANGED pc
        /\ pc' \in {"init", "cycle"} => recovery' # "off"
        /\ pc' = "initReconcile" => pc = "init"
        /\ pc = "init" => pc' \in {"init", "initReconcile"}
        /\ pc = "cycle" /\ ~HasPendingIntent' /\ recovery' = "off" => pc' = "reconcile"
    BY <1>0, <1>2, RecoveryRound
       DEF RecoveryReceipts, RecoveryNonce, RecoveryMempool, AfterRecovery
  <2> PICK e \in Pending : Settles(e)
    BY <1>0, <1>2, RecoveryRound
  <2>2. CASE Drop(e) /\ recovery' = "off"
    <3>1. Pending' = {} /\ Confirmed' \subseteq Confirmed /\ pc' \in {"initReconcile", "reconcile"}
      BY <1>0, <2>1, <2>2, DropLeavesNothing DEF Confirmed, HasPendingIntent
    <3> QED
      BY <2>1, <3>1, CauseStep DEF SendLoc, Sendable, Unreconciled
  <2>3. CASE Hold \/ UNCHANGED <<intents, active>>
    <3>1. Pending' = Pending /\ Confirmed' \subseteq Confirmed
      BY <2>3, HoldKeepsPending DEF Confirmed, Pending
    <3> QED
      BY <2>1, <3>1, CauseStep DEF SendLoc, Sendable, Unreconciled
  <2>4. CASE recovery' = "off" /\ ConfirmEntry(e) /\ \E r \in ReceiptsOf(e) : r.ok
    <3>1. /\ Pending' = {} /\ pc' \in {"initReconcile", "reconcile"}
          /\ Confirmed' \subseteq Confirmed \cup {[e EXCEPT !.status = "confirmed"]}
      BY <1>0, <2>1, <2>4, ConfirmLeavesNothing, PrunedKeepsPending
         DEF HasPendingIntent, ConfirmEntry, Confirmed, Replaced
    <3>2. ConfirmedLanded'
      BY <1>0, <2>1, <2>4, <3>1, PendingFields DEF CInv, ConfirmedLanded, ReceiptsOf, Entry
    <3> QED
      BY <2>1, <3>1, <3>2
         DEF CInv, ObligationIsOld, NamesDispatch, Opened, DispatchSends, ObligationHasCause, SwapsHaveCause,
             SendLoc, Sendable, Unreconciled
  <2> QED
    BY <2>2, <2>3, <2>4 DEF Settles
<1>3. CASE NothingPending
  <2>1. UNCHANGED <<obligation, nextId, pool, mined, intents>> /\ pc = "cycle" /\ pc' = "plan"
        /\ Pending' = Pending /\ Confirmed' = Confirmed
    BY <1>3 DEF NothingPending, journalVars, Pending, Confirmed
  <2> QED
    BY <2>1, CauseStep DEF SendLoc, Sendable, Unreconciled
<1>4. CASE Reconcile
  <2>1. /\ UNCHANGED <<journalVars, chainVars>> /\ pc \in {"initReconcile", "reconcile"}
        /\ pc' \in {"idle", "plan", "down"}
    BY <1>4, ReconcileShape
  <2>2. \/ obligation' = NoObligation
        \/ UNCHANGED obligation /\ pc' = "down"
        \/ UNCHANGED obligation /\ CauseLanded
        \/ UNCHANGED obligation /\ obligation # NoObligation /\ CheckpointOf(obligation.dispatch)
    BY <1>4, ReconcileShape DEF Stale, Withdrawn, CauseLanded
  <2>3. CASE obligation' = NoObligation
    BY <2>1, <2>3, CauseCleared DEF SendLoc, Sendable
  <2>4. CASE UNCHANGED obligation /\ (pc' = "down" \/ CauseLanded)
    <3>1. Pending' = Pending /\ Confirmed' = Confirmed /\ UNCHANGED <<pool, mined, nextId>>
      BY <2>1 DEF journalVars, Pending, Confirmed
    <3> QED
      BY <2>1, <2>4, <3>1, CauseStep DEF SendLoc, Sendable, Unreconciled
  <2>5. obligation # NoObligation /\ CheckpointOf(obligation.dispatch) => CauseLanded
    <3> SUFFICES ASSUME CheckpointOf(obligation.dispatch) PROVE CauseLanded
      OBVIOUS
    <3>1. PICK e \in Latest(intents) : e.id = obligation.dispatch
      BY DEF CheckpointOf
    <3>2. PICK r \in mined : r.id = e.id /\ r.ok
      BY <3>1 DEF CInv, ConfirmedLanded, Confirmed, Latest
    <3> QED
      BY <3>1, <3>2 DEF CInv, NamesDispatch, CauseLanded, Landed
  <2> QED
    BY <2>2, <2>3, <2>4, <2>5
<1> QED
  BY <1>1, <1>2, <1>3, <1>4 DEF Recovering

LEMMA PlanningCInv ==
  ASSUME CInv, GInv', Planning \/ Start \/ StartCycle \/ BeginRelay PROVE CInv'
<1> USE DEF Goto, At
<1>0. TInv /\ GInv
  BY DEF CInv, GInv
<1>1. CASE BeginHedge
  BY <1>1, CauseBegun DEF BeginHedge, Action, Unsent
<1>2. CASE BeginSwapRecovery
  <2>1. CauseLanded
    BY <1>2 DEF BeginSwapRecovery, Begin, HasPendingIntent, CInv, ObligationHasCause, Unreconciled
  <2> QED
    BY <1>2, <2>1, CauseBegun DEF BeginSwapRecovery, Action, Unsent
<1>3. CASE BeginSwap
  BY <1>3, CauseBegun DEF BeginSwap, Action, Unsent, CInv, SwapsHaveCause
<1>4. CASE BeginRelay
  BY <1>4, CauseBegun DEF BeginRelay, Action, Unsent
<1>5. CASE SaveObligation
  <2>1. /\ pc = "save" /\ pc' = "prepare" /\ UNCHANGED <<intents, nextId, active, op, pool, mined>>
        /\ obligation' = [dispatch |-> active, swap |-> NoId]
        /\ Pending' = Pending /\ Confirmed' = Confirmed
    BY <1>5 DEF SaveObligation, journalVars, chainVars, Pending, Confirmed
  <2>2. /\ \E e \in Pending' : e.id = active
        /\ \A x \in pool' \cup mined' : x.id # active
        /\ op = "dispatch" /\ active < nextId /\ NoId < nextId
    BY <1>0, <2>1, PendingFields, IdsOfTransactions
       DEF CInv, Opened, NoId, TInv, JInv, JournalTypeOK
  <2>3. ObligationIsOld' /\ NamesDispatch' /\ ConfirmedLanded' /\ ObligationHasCause'
    BY <2>1, <2>2 DEF CInv, ObligationIsOld, NamesDispatch, ConfirmedLanded, ObligationHasCause
  <2>4. Opened' /\ DispatchSends' /\ SwapsHaveCause'
    BY <2>1, <2>2 DEF Opened, DispatchSends, SwapsHaveCause
  <2> QED
    BY <2>3, <2>4 DEF CInv
<1>6. CASE LinkObligation
  <2>1. /\ pc = "link" /\ pc' = "prepare" /\ UNCHANGED <<intents, nextId, active, op, pool, mined>>
        /\ obligation' = [obligation EXCEPT !.swap = active]
        /\ Pending' = Pending /\ Confirmed' = Confirmed
    BY <1>6 DEF LinkObligation, journalVars, chainVars, Pending, Confirmed
  <2>2. obligation'.dispatch = obligation.dispatch /\ obligation'.swap = active /\ active < nextId
    BY <1>0, <2>1, PendingFields, IdsOfTransactions DEF CInv, Opened, Obligation
  <2>3. CauseLanded
    BY <1>0, <2>1 DEF CInv, Opened, SwapsHaveCause, SendLoc, Sendable, ObligationHasCause
  <2> QED
    BY <2>1, <2>2, <2>3, CauseStep DEF SendLoc, Sendable, Unreconciled
<1>7. CASE ClearConfirmedSwap
  <2>1. UNCHANGED <<journalVars, chainVars>> /\ pc = "plan" /\ pc' = "idle"
    BY <1>7, ClearShape DEF ClearConfirmedSwap
  <2>2. CASE obligation' = NoObligation
    BY <2>1, <2>2, CauseCleared DEF SendLoc, Sendable
  <2>3. CASE UNCHANGED obligation
    <3>1. Pending' = Pending /\ Confirmed' = Confirmed /\ UNCHANGED <<pool, mined, nextId>>
      BY <2>1 DEF journalVars, chainVars, Pending, Confirmed
    <3> QED
      BY <2>1, <2>3, <3>1, CauseStep DEF SendLoc, Sendable, Unreconciled
  <2> QED
    BY <1>7, <2>2, <2>3, ClearShape
<1>8. CASE EndCycle \/ Start \/ StartCycle
  <2>1. /\ UNCHANGED <<intents, nextId, obligation, pool, mined>> /\ pc' \in {"idle", "init", "cycle"}
        /\ Pending' = Pending /\ Confirmed' = Confirmed
        /\ pc \in {"plan", "down", "idle"} /\ (pc = "down" => pc' = "init")
    BY <1>8 DEF EndCycle, Start, StartCycle, journalVars, chainVars, Pending, Confirmed
  <2> QED
    BY <2>1, CauseStep DEF SendLoc, Sendable, Unreconciled
<1> QED
  BY <1>1, <1>2, <1>3, <1>4, <1>5, <1>6, <1>7, <1>8 DEF Planning

LEMMA SettlingCInv == ASSUME CInv, GInv', Settling, Withdrawn PROVE CInv'
<1> USE DEF Goto, At
<1>0. TInv /\ GInv
  BY DEF CInv, GInv
<1>1. CASE ConfirmSend
  <2> PICK e \in Pending : /\ e.id = active /\ ConfirmEntry(e)
                           /\ \E r \in ReceiptsOf(e) : r.ok
    BY <1>0, <1>1, ConfirmSendShape
  <2>1. /\ UNCHANGED <<nextId, op, obligation, pool, mined>> /\ pc = "settled"
        /\ pc' = CASE op = "dispatch" -> "next" [] op = "relay" -> "idle" [] OTHER -> "clear"
    BY <1>1 DEF ConfirmSend, Confirm, chainVars
  <2>2. /\ Pending' = {}
        /\ Confirmed' \subseteq Confirmed \cup {[e EXCEPT !.status = "confirmed"]}
    BY <1>0, ConfirmLeavesNothing, PrunedKeepsPending DEF ConfirmEntry, Confirmed, Replaced
  <2>3. ConfirmedLanded'
    BY <1>0, <2>1, <2>2, PendingFields DEF CInv, ConfirmedLanded, ReceiptsOf, Entry
  <2>4. PICK r \in mined : r.id = e.id /\ r.ok
    BY DEF ReceiptsOf
  <2>5. e.id = obligation.dispatch => CauseLanded
    BY <2>4 DEF CInv, NamesDispatch, CauseLanded, Landed
  <2>6. pc' = "next" => CauseLanded
    BY <2>1, <2>5 DEF CInv, DispatchSends, SendLoc, Sendable
  <2>7. obligation # NoObligation => CauseLanded
    <3>1. Pending = {e}
      BY <1>0, PendingFields
    <3> QED
      BY <2>1, <2>5, <3>1 DEF CInv, ObligationHasCause, Unreconciled
  <2>8. CauseLanded => CauseLanded'
    BY <2>1 DEF CauseLanded, Landed
  <2> QED
    BY <2>1, <2>3, <2>6, <2>7, <2>8
       DEF CInv, ObligationIsOld, NamesDispatch, Opened, DispatchSends, ObligationHasCause, SwapsHaveCause,
           SendLoc, Sendable
<1>2. CASE ClearObligation \/ UndoObligation
  <2>1. UNCHANGED <<journalVars, chainVars>> /\ pc \in {"clear", "undo"} /\ pc' = "idle"
    BY <1>2, ClearShape DEF ClearObligation, UndoObligation
  <2>2. CASE obligation' = NoObligation
    BY <2>1, <2>2, CauseCleared DEF SendLoc, Sendable
  <2>3. CASE UNCHANGED obligation
    <3>1. Pending' = Pending /\ Confirmed' = Confirmed /\ UNCHANGED <<pool, mined, nextId>>
      BY <2>1 DEF journalVars, chainVars, Pending, Confirmed
    <3>2. pc = "undo" => obligation = NoObligation \/ CauseLanded
      BY <2>1, <2>3 DEF Withdrawn, CauseLanded
    <3> QED
      BY <2>1, <2>3, <3>1, <3>2, CauseStep DEF SendLoc, Sendable, Unreconciled
  <2> QED
    BY <1>2, <2>2, <2>3, ClearShape
<1>3. CASE FailSend
  <2>1. /\ UNCHANGED <<op, obligation, pool, mined>> /\ pc = "error"
        /\ pc' = (IF op = "dispatch" THEN "undo" ELSE "idle")
    BY <1>3 DEF FailSend, chainVars
  <2>2. CASE UNCHANGED journalVars
    <3>1. UNCHANGED nextId /\ Pending' = Pending /\ Confirmed' = Confirmed
      BY <2>2 DEF journalVars, Pending, Confirmed
    <3> QED
      BY <2>1, <3>1, CauseStep DEF SendLoc, Sendable, Unreconciled
  <2>3. CASE Fail
    <3> PICK e \in Pending : /\ e.id = active /\ intents' = intents \ {e} /\ Pending' = {}
                             /\ UNCHANGED nextId
      BY <1>0, <2>3, FailShape
    <3>1. Confirmed' \subseteq Confirmed
      BY DEF Confirmed
    <3>2. e.id = obligation.dispatch => pc' = "undo"
      BY <2>1 DEF CInv, DispatchSends, SendLoc
    <3>3. Pending = {e}
      BY <1>0, PendingFields
    <3> QED
      BY <2>1, <3>1, <3>2, <3>3, CauseStep DEF SendLoc, Sendable, Unreconciled
  <2> QED
    BY <1>3, <2>2, <2>3 DEF FailSend
<1>4. CASE RelayReverted
  <2>1. /\ UNCHANGED <<op, obligation, pool, mined>> /\ pc \in {"wait", "nonceSpent"}
        /\ pc' = "idle" /\ op = "relay" /\ Fail
    BY <1>4 DEF RelayReverted, chainVars
  <2> PICK e \in Pending : /\ e.id = active /\ intents' = intents \ {e} /\ Pending' = {}
                           /\ UNCHANGED nextId
    BY <1>0, <2>1, FailShape
  <2>2. Confirmed' \subseteq Confirmed
    BY DEF Confirmed
  <2>3. e.id # obligation.dispatch
    BY <2>1 DEF CInv, DispatchSends, SendLoc, Sendable
  <2>4. Pending = {e}
    BY <1>0, PendingFields
  <2> QED
    BY <2>1, <2>2, <2>3, <2>4, CauseStep DEF SendLoc, Sendable, Unreconciled
<1> QED
  BY <1>1, <1>2, <1>3, <1>4 DEF Settling

LEMMA SendingCInv == ASSUME CInv, GInv', Sending PROVE CInv'
<1> USE DEF Goto, At
<1>0. TInv /\ GInv
  BY DEF CInv, GInv
<1>1. CASE PinNonce \/ RecordAttempt \/ RecordHash \/ BroadcastRejected \/ BroadcastNonceSpent
  <2> PICK e \in Pending : \E f : Rewrites(e, f)
    BY <1>0, <1>1, SenderRewrites
  <2> PICK f : Rewrites(e, f)
    OBVIOUS
  <2>1. /\ pc \in {"prepare", "attempt", "broadcast", "record"}
        /\ pc' \in {"attempt", "broadcast", "wait", "error", "nonceSpent"}
    BY <1>1 DEF PinNonce, RecordAttempt, RecordHash, BroadcastRejected, BroadcastNonceSpent
  <2>2. Pending = {e} /\ Pending' = {f} /\ f.id = e.id
    BY <1>0, PendingFields DEF Rewrites
  <2>3. Confirmed' \subseteq Confirmed
    BY <2>2 DEF Rewrites, Replaced, Confirmed, Pending
  <2>4. UNCHANGED <<nextId, active, op, obligation, pool, mined>>
    BY DEF Rewrites, chainVars
  <2> QED
    BY <2>1, <2>2, <2>3, <2>4, CauseStep DEF SendLoc, Sendable, Unreconciled
<1>2. CASE BroadcastAccepted \/ BroadcastUnanswered \/ BroadcastAlreadyKnown
  <2>1. /\ UNCHANGED <<intents, nextId, active, op, obligation, mined>> /\ pc = "broadcast"
        /\ Pending' = Pending /\ Confirmed' = Confirmed
        /\ pc' \in {"record", "wait", "error", "nonceSpent"}
    BY <1>2 DEF BroadcastAccepted, BroadcastUnanswered, BroadcastAlreadyKnown, journalVars, Pending, Confirmed
  <2>2. NamesDispatch'
    <3> SUFFICES ASSUME NEW x \in pool' \cup mined', x.id = obligation.dispatch
                 PROVE  x.effect = "dispatch"
      BY <2>1 DEF NamesDispatch
    <3>1. \/ x \in pool \cup mined
          \/ \E e \in Current : x = NewTx(e)
      BY <1>2, <2>1 DEF BroadcastAccepted, BroadcastUnanswered, BroadcastAlreadyKnown
    <3>2. CASE \E e \in Current : x = NewTx(e)
      BY <2>1, <3>2 DEF NewTx, Current, CInv, DispatchSends, SendLoc, Sendable, EffectOf
    <3> QED
      BY <3>1, <3>2 DEF CInv, NamesDispatch
  <2>3. CauseLanded' = CauseLanded
    BY <2>1 DEF CauseLanded, Landed
  <2> QED
    BY <2>1, <2>2, <2>3
       DEF CInv, ObligationIsOld, ConfirmedLanded, Opened, DispatchSends, ObligationHasCause, SwapsHaveCause,
           SendLoc, Sendable, Unreconciled
<1>3. CASE ReceiptFound \/ NonceSpentElsewhere \/ Bump \/ NotMined
  <2>1. /\ UNCHANGED <<intents, nextId, active, op, obligation, pool, mined>>
        /\ Pending' = Pending /\ Confirmed' = Confirmed
        /\ pc \in {"wait", "nonceSpent"} /\ pc' \in {"settled", "error", "idle", "attempt"}
    BY <1>3 DEF ReceiptFound, NonceSpentElsewhere, Bump, NotMined, journalVars, chainVars, Pending, Confirmed
  <2> QED
    BY <2>1, CauseStep DEF SendLoc, Sendable, Unreconciled
<1> QED
  BY <1>1, <1>2, <1>3 DEF Sending

LEMMA EnvironmentCInv == ASSUME CInv, GInv', Environment PROVE CInv'
<1> USE DEF Goto, At
<1>0. TInv /\ GInv
  BY DEF CInv, GInv
<1>1. CASE NewBlock \/ SpendElsewhere \/ Evict
  <2>1. /\ UNCHANGED <<intents, nextId, active, pc, op, obligation, mined>>
        /\ Pending' = Pending /\ Confirmed' = Confirmed
    BY <1>1 DEF NewBlock, Tick, SpendElsewhere, Evict, journalVars, botVars, Pending, Confirmed
  <2>2. \A t \in pool' : \E u \in pool : u.id = t.id /\ u.effect = t.effect
    <3>1. pool \subseteq Tx
      BY <1>0 DEF TInv, BotTypeOK
    <3> QED
      BY <1>1, <3>1 DEF NewBlock, SpendElsewhere, SpendNonce, Evict, Tx
  <2> QED
    BY <2>1, <2>2, CauseStep DEF CInv, SwapsHaveCause
<1>2. CASE Mine
  <2> PICK t \in pool, ok \in BOOLEAN :
           /\ mined' = mined \cup {[id |-> t.id, try |-> t.try, effect |-> t.effect, ok |-> ok]}
           /\ pool' = {u \in pool : u.nonce > chainNonce} /\ UNCHANGED <<journalVars, botVars>>
    BY <1>0, <1>2, MineShape
  <2>1. /\ UNCHANGED <<intents, nextId, active, pc, op, obligation>>
        /\ Pending' = Pending /\ Confirmed' = Confirmed
    BY DEF journalVars, botVars, Pending, Confirmed
  <2>2. CauseLanded => CauseLanded'
    BY <2>1 DEF CauseLanded, Landed
  <2>3. NamesDispatch' /\ ConfirmedLanded' /\ ObligationIsOld'
    BY <2>1 DEF CInv, NamesDispatch, ConfirmedLanded, ObligationIsOld
  <2>4. Opened'
    BY <2>1 DEF CInv, Opened
  <2>5. DispatchSends' /\ ObligationHasCause' /\ SwapsHaveCause'
    BY <2>1, <2>2 DEF CInv, DispatchSends, ObligationHasCause, SwapsHaveCause
  <2> QED
    BY <2>3, <2>4, <2>5 DEF CInv
<1>3. CASE Crash \/ RecoveryFails \/ AbortSend \/ ReceiptRpcFails
  <2>1. /\ UNCHANGED <<intents, nextId, obligation, pool, mined>>
        /\ Pending' = Pending /\ Confirmed' = Confirmed
        /\ \/ pc' = "down"
           \/ pc' = "idle" /\ pc = "cycle"
           \/ pc' = "error" /\ pc \in {"prepare", "wait", "nonceSpent"} /\ UNCHANGED <<active, op>>
    BY <1>0, <1>3
       DEF Crash, LoseMemory, RecoveryFails, RecoverAbort, AbortSend, ReceiptRpcFails, journalVars,
           chainVars, Pending, Confirmed, TInv, RecoveryIsExclusive
  <2> QED
    BY <2>1, CauseStep DEF SendLoc, Sendable, Unreconciled
<1> QED
  BY <1>1, <1>2, <1>3 DEF Environment

LEMMA InitCInv == ASSUME Init PROVE CInv
<1>1. /\ pool = {} /\ mined = {} /\ intents = {} /\ pc = "down" /\ obligation = NoObligation
      /\ nextId = 1
  BY DEF Init, JournalInit
<1> QED
  BY <1>1, InitGInv
     DEF CInv, ObligationIsOld, Opened, NamesDispatch, DispatchSends, ConfirmedLanded, Confirmed,
         ObligationHasCause, SwapsHaveCause, SendLoc, Sendable, NoObligation, NoId

LEMMA NextCInv == ASSUME CInv, [Next /\ Withdrawn]_vars PROVE CInv'
<1>1. GInv'
  BY NextGInv DEF CInv
<1>2. CASE UNCHANGED vars
  <2>1. /\ UNCHANGED <<intents, nextId, active, pc, op, obligation, pool, mined>>
        /\ Pending' = Pending /\ Confirmed' = Confirmed
    BY <1>2 DEF vars, journalVars, botVars, chainVars, Pending, Confirmed
  <2> QED
    BY <1>1, <2>1, CauseStep DEF CInv, SwapsHaveCause
<1> QED
  BY <1>1, <1>2, RecoveringCInv, PlanningCInv, SendingCInv, SettlingCInv, EnvironmentCInv DEF Next

\* A swap is broadcast only under an obligation whose dispatch has landed, with
\* every other fault of the environment at once, through any number of crashes,
\* as long as no cycle fails to remove the obligation of a dispatch that has not
\* landed: no lost answer, restart or retried start turns a planned pair into a
\* lone swap.
THEOREM CauseHolds == WithdrawnSpec => []SwapHasCause
<1>1. CInv => SwapHasCause
  BY DEF CInv, SwapsHaveCause, SwapHasCause, CauseLanded, SendLoc, Sendable
<1>2. CInv /\ [Next /\ Withdrawn]_vars => CInv'
  BY NextCInv
<1>3. Init => CInv
  BY InitCInv
<1> QED
  BY <1>1, <1>2, <1>3, PTL DEF WithdrawnSpec

\* Where the obligation file can always be removed, every step is Withdrawn.
LEMMA RemovalWithdraws ==
  ASSUME "clearFails" \notin Faults, TInv, [Next]_vars PROVE Withdrawn
<1> SUFFICES ASSUME pc \in {"undo", "reconcile"}, pc' = "idle" PROVE obligation' = NoObligation
  BY DEF Withdrawn
<1> USE DEF At, Goto
<1>1. UndoObligation
  <2>1. recovery = "off"
    BY DEF TInv, RecoveryIsExclusive
  <2>2. ~Recovering
    BY <2>1, ReconcileShape
       DEF Recovering, StartRecovery, RecoveryReceipts, RecoverReceipts, RecoveryNonce, RecoverNonce,
           RecoveryMempool, RecoverMempool, NothingToRecover, NothingPending
  <2>3. ~Planning /\ ~Sending /\ ~(Start \/ StartCycle \/ BeginRelay)
    BY DEF Planning, EndCycle, BeginHedge, BeginSwapRecovery, ClearConfirmedSwap, SaveObligation,
           BeginSwap, LinkObligation, Sending, PinNonce, RecordAttempt, BroadcastAccepted, RecordHash,
           BroadcastRejected, BroadcastNonceSpent, BroadcastUnanswered, BroadcastAlreadyKnown,
           ReceiptFound, NonceSpentElsewhere, Bump, NotMined, Start, StartCycle, BeginRelay
  <2>4. ~Environment
    BY <2>1 DEF Environment, NewBlock, Mine, SpendElsewhere, Evict, Crash, AbortSend, ReceiptRpcFails,
                RecoveryFails, RecoverAbort, botVars
  <2>5. ~(ConfirmSend \/ ClearObligation \/ RelayReverted \/ FailSend) /\ ~UNCHANGED vars
    BY DEF ConfirmSend, ClearObligation, RelayReverted, FailSend, vars, botVars
  <2> QED
    BY <2>2, <2>3, <2>4, <2>5 DEF Next, Settling
<1> QED
  BY <1>1, ClearShape

\* Where the obligation file can always be removed, a swap has a cause whatever
\* else the environment does, with no restriction on the steps.
THEOREM CauseHoldsWhileRemoved ==
  ASSUME "clearFails" \notin Faults PROVE Spec => []SwapHasCause
<1>1. "clearFails" \notin Faults
  OBVIOUS
<1>2. TInv /\ [Next]_vars => TInv' /\ [Next /\ Withdrawn]_vars
  BY <1>1, NextTInv, RemovalWithdraws
<1>3. Init => TInv
  BY InitTInv
<1>4. Spec => WithdrawnSpec
  BY <1>2, <1>3, PTL DEF Spec, WithdrawnSpec
<1> QED
  BY <1>4, CauseHolds

-----------------------------------------------------------------------------
(***************************************************************************)
(* The obligation and the book.                                            *)
(***************************************************************************)

\* Every broadcast, every replacement and every receipt poll is answered.
AllAnswered == Answered /\ "resendTimeout" \notin Faults

SwapLanded == \E w \in Landed("swap") : w.id = obligation.swap

\* The obligation asks for a swap that has not landed.
Open == CauseLanded /\ ~SwapLanded

\* The book is unbalanced exactly while the obligation is open.
Book == IsFiniteSet(mined) /\ Owed = IF Open THEN 1 ELSE 0

\* Whatever can be mined or was mined has its hash in the journal, or is about to.
HashesRecorded ==
  \A x \in pool \cup mined : \A e \in intents :
    e.id = x.id => x.try \in e.hashes \/ (pc = "record" /\ e.id = active /\ x.try = e.attempts)

\* Between the rounds of the receipts and the nonce, the pending intent has none.
NoReceiptSeen == recovery = "nonce" => \A e \in Pending, r \in mined : r.id # e.id

\* A send that has failed has not landed.
NoLanding == pc = "error" => \A e \in Current, r \in mined : r.id = e.id => ~r.ok

\* Between two sends nothing is pending.
Resting == pc \in {"plan", "reconcile", "next", "undo", "clear"} => ~HasPendingIntent

\* Hedges and relays are sent under no obligation.
PlansUnowing ==
  pc = "save" \/ (pc \in SendLoc /\ op \notin {"dispatch", "swap", "recovery"}) => obligation = NoObligation

\* The obligation names the swap from the link on, and no swap before it.
SwapSends ==
  /\ pc \in SendLoc \ {"link"} /\ op \in {"swap", "recovery"} => active = obligation.swap
  /\ pc \in SendLoc /\ op = "dispatch" => obligation.swap = NoId
  /\ pc = "next" => obligation.swap = NoId

\* Of the pair, only what the obligation names can be mined.
PoolEffects ==
  \A t \in pool : /\ t.effect = "dispatch" => t.id = obligation.dispatch /\ obligation.swap = NoId
                  /\ t.effect = "swap" => t.id = obligation.swap /\ CauseLanded

NamesSwap == \A x \in pool \cup mined : x.id = obligation.swap => x.effect = "swap"

NamesActions ==
  \A e \in intents : /\ e.id = obligation.dispatch => e.action = "hedge"
                     /\ e.id = obligation.swap => e.action = "sfpm_swap"
                     /\ e.id = active /\ pc = "save" => e.action = "hedge"
                     /\ e.id = active /\ pc = "link" => e.action = "sfpm_swap"

LinkIsOpen == pc = "link" => Open
ClearIsShut == pc \in {"clear", "undo"} => ~Open

PendingIsNewest == \A e \in Pending, f \in intents : f.id <= e.id

\* Where a swap's intent may stand that the obligation does not name: about to
\* be linked, or left unlinked by a crash for recover() to drop.
Unlinked == pc = "link" \/ (pc \in {"down", "init"} /\ recovery \in {"off", "receipts"})

\* Under an obligation only its own pair is pending.
PendingIsNamed ==
  obligation # NoObligation =>
    \A e \in Pending : \/ e.id = obligation.dispatch /\ obligation.swap = NoId
                       \/ e.id = obligation.swap
                       \/ Unlinked /\ e.attempts = 0

\* What of the pair has landed last is pending or the checkpoint.
Known ==
  /\ SwapLanded => \E e \in Pending \cup Latest(intents) : e.id = obligation.swap
  /\ Open => \E e \in Pending \cup Latest(intents) : e.id = obligation.dispatch

\* What the process is doing.
SendInv == HashesRecorded /\ NoReceiptSeen /\ NoLanding /\ Resting /\ PlansUnowing /\ SwapSends

\* What the obligation names.
NameInv == PoolEffects /\ NamesSwap /\ NamesActions /\ PendingIsNewest /\ PendingIsNamed

BInv == /\ FInv /\ CInv /\ LInv /\ SendInv /\ NameInv
        /\ Book /\ LinkIsOpen /\ ClearIsShut /\ Known

-----------------------------------------------------------------------------
LEMMA BInvTypes == ASSUME BInv PROVE TInv /\ GInv /\ FInv /\ CInv
BY DEF BInv, CInv, GInv

\* Nothing pending, nothing in the mempools.
LEMMA RestingIsEmpty == ASSUME BInv, ~HasPendingIntent PROVE pool = {}
BY DEF BInv, FInv, Fence, HasPendingIntent

\* The checkpoint is one entry.
LEMMA LatestIsOne ==
  ASSUME TInv, NEW e \in Latest(intents), NEW f \in Latest(intents) PROVE e = f
<1>1. e \in intents /\ f \in intents /\ e.id \in Nat /\ f.id \in Nat /\ e.id <= f.id /\ f.id <= e.id
  BY IdsOfTransactions DEF Latest
<1> QED
  BY <1>1 DEF TInv, JInv, IdsAreUnique

\* The book moves only when a transaction is mined.
LEMMA BookFrame ==
  ASSUME BInv, UNCHANGED mined, Open' <=> Open PROVE Book'
BY DEF BInv, Book, Owed, Landed

\* A withdrawn obligation is closed.
LEMMA NoObligationIsShut == ASSUME TInv, obligation = NoObligation PROVE ~Open /\ ~SwapLanded /\ ~CauseLanded
BY OldObligationHasNoTransactions DEF Open, SwapLanded, CauseLanded, Landed

\* An intent without a landed receipt is no part of a landed pair.
LEMMA NotLanded ==
  ASSUME NEW e, \A r \in mined : r.id = e.id => ~r.ok
  PROVE  (SwapLanded => e.id # obligation.swap) /\ (CauseLanded => e.id # obligation.dispatch)
BY DEF SwapLanded, CauseLanded, Landed

\* Steps that leave the hashes alone.
LEMMA HashesKept ==
  ASSUME BInv, UNCHANGED mined,
         \A t \in pool' : \E u \in pool : u.id = t.id /\ u.try = t.try,
         \A f \in intents' : \E e \in intents :
            f.id = e.id /\ e.hashes \subseteq f.hashes,
         pc # "record"
  PROVE  HashesRecorded'
BY DEF BInv, SendInv, HashesRecorded

\* Steps that neither open an intent, nor broadcast, nor touch the obligation
\* or the receipts.
LEMMA BookStep ==
  ASSUME BInv, CInv', FInv', LInv', UNCHANGED <<obligation, mined, nextId>>,
         \A t \in pool' : \E u \in pool : u.id = t.id /\ u.effect = t.effect,
         \A f \in intents' : \E e \in intents : f.id = e.id /\ f.action = e.action,
         \A f \in Pending' : \E e \in Pending : f.id = e.id,
         \/ pc' \notin SendLoc
         \/ pc \in SendLoc \ {"save", "link"} /\ pc' \notin {"save", "link"} /\ UNCHANGED <<active, op>>
         \/ UNCHANGED <<pc, active, op>>,
         pc' = "next" => obligation.swap = NoId,
         pc' \in {"clear", "undo"} => ~Open,
         HashesRecorded', NoReceiptSeen', NoLanding', Resting', PendingIsNamed', Known'
  PROVE  BInv'
<1>1. Open' <=> Open
  BY DEF Open, CauseLanded, SwapLanded, Landed
<1>2. Book'
  BY <1>1, BookFrame
<1>3. LinkIsOpen' /\ ClearIsShut'
  BY <1>1 DEF BInv, LinkIsOpen, ClearIsShut, SendLoc, Sendable
<1>4. PlansUnowing' /\ SwapSends'
  BY DEF BInv, SendInv, PlansUnowing, SwapSends, SendLoc, Sendable
<1>5. PoolEffects' /\ NamesSwap'
  BY DEF BInv, NameInv, PoolEffects, NamesSwap, CauseLanded, Landed
<1>6. NamesActions' /\ PendingIsNewest'
  BY DEF BInv, NameInv, NamesActions, PendingIsNewest, SendLoc, Sendable
<1> QED
  BY <1>2, <1>3, <1>4, <1>5, <1>6 DEF BInv, SendInv, NameInv

\* Steps of the process, or of the mempools, that leave the journal's entries
\* and the receipts alone.
LEMMA BookMoves ==
  ASSUME BInv, CInv', FInv', LInv', UNCHANGED <<intents, nextId, obligation, mined>>,
         recovery' \in {recovery, "off", "receipts"},
         \A t \in pool' : \E u \in pool : u.id = t.id /\ u.effect = t.effect /\ u.try = t.try,
         \/ pc' \notin SendLoc
         \/ pc \in SendLoc \ {"save", "link"} /\ pc' \notin {"save", "link"} /\ UNCHANGED <<active, op>>
         \/ UNCHANGED <<pc, active, op>>,
         pc = "link" => pc' \in {"link", "down"},
         pc \in {"down", "init"} => pc' \in {"down", "init"} \/ ~HasPendingIntent,
         pc = "record" => UNCHANGED <<pc, active>>,
         pc' \in {"next", "clear", "undo"} => UNCHANGED pc,
         NoLanding', Resting'
  PROVE  BInv'
<1>1. Pending' = Pending /\ Latest(intents') = Latest(intents)
  BY DEF Pending, Latest
<1>2. (Open' <=> Open) /\ (SwapLanded' <=> SwapLanded)
  BY DEF Open, CauseLanded, SwapLanded, Landed
<1>3. Known'
  BY <1>1, <1>2 DEF BInv, Known
<1>4. HashesRecorded'
  BY DEF BInv, SendInv, HashesRecorded
<1>5. NoReceiptSeen'
  BY <1>1 DEF BInv, SendInv, NoReceiptSeen
<1>6. /\ pc' = "next" => obligation.swap = NoId
      /\ pc' \in {"clear", "undo"} => ~Open
  BY DEF BInv, SendInv, SwapSends, ClearIsShut
<1>7. PendingIsNamed'
  <2>1. pc = "link" => recovery = "off"
    BY BInvTypes DEF TInv, RecoveryIsExclusive
  <2>2. Unlinked => Unlinked' \/ ~HasPendingIntent
    BY <2>1 DEF Unlinked
  <2> QED
    BY <1>1, <2>2 DEF BInv, NameInv, PendingIsNamed, HasPendingIntent
<1> QED
  BY <1>1, <1>3, <1>4, <1>5, <1>6, <1>7, BookStep

\* Known survives a step that keeps the pending entry and the checkpoint, or
\* drops a pending entry that has not landed.
LEMMA KnownKept ==
  ASSUME BInv, UNCHANGED <<obligation, mined>>,
         \A e \in Latest(intents) : e \in Latest(intents'),
         \A e \in Pending : \/ \E f \in Pending' : f.id = e.id
                            \/ \A r \in mined : r.id = e.id => ~r.ok
  PROVE  Known'
<1>1. (Open' <=> Open) /\ (SwapLanded' <=> SwapLanded)
  BY DEF Open, CauseLanded, SwapLanded, Landed
<1>2. ASSUME SwapLanded PROVE \E e \in Pending' \cup Latest(intents') : e.id = obligation.swap
  BY <1>2, NotLanded DEF BInv, Known
<1>3. ASSUME Open PROVE \E e \in Pending' \cup Latest(intents') : e.id = obligation.dispatch
  BY <1>3, NotLanded DEF BInv, Known, Open
<1> QED
  BY <1>1, <1>2, <1>3 DEF Known

\* A pending intent that has landed was broadcast.
LEMMA LandedWasSent ==
  ASSUME BInv, NEW e \in Pending, NEW r \in mined, r.id = e.id PROVE e.attempts # 0
<1>1. e \in intents /\ e.hashes \subseteq 1..e.attempts /\ r.try \in 1..MaxAttempts
  BY BInvTypes, PendingFields DEF TInv, BotTypeOK, Receipt
<1>2. r.try \in e.hashes \/ r.try = e.attempts
  BY <1>1 DEF BInv, SendInv, HashesRecorded
<1> QED
  BY <1>1, <1>2

\* Under a landed swap only that swap can be pending, under an open obligation
\* only a member of its pair, as far as it was sent.
LEMMA PendingOfPair ==
  ASSUME BInv, NEW e \in Pending, e.attempts # 0
  PROVE  (SwapLanded => e.id = obligation.swap)
         /\ (CauseLanded => e.id = obligation.swap \/ e.id = obligation.dispatch)
<1>1. SwapLanded \/ CauseLanded => obligation # NoObligation
  BY BInvTypes, NoObligationIsShut
<1>2. SwapLanded => obligation.swap # NoId
  BY BInvTypes, IdsOfTransactions DEF SwapLanded, Landed
<1> QED
  BY <1>1, <1>2 DEF BInv, NameInv, PendingIsNamed

\* Confirming the pending entry makes it the checkpoint.
LEMMA KnownConfirmed ==
  ASSUME BInv, UNCHANGED <<obligation, mined>>, NEW e \in Pending, ConfirmEntry(e),
         NEW r \in mined, r.id = e.id, r.ok
  PROVE  Known'
<1> DEFINE c == [e EXCEPT !.status = "confirmed"]
           S == Replaced(e, c)
<1>0. TInv
  BY BInvTypes
<1>1. /\ e \in intents /\ e \in Entry /\ c.id = e.id /\ c.status = "confirmed"
      /\ \A f \in intents : f.id <= e.id
  BY <1>0, PendingFields DEF BInv, NameInv, PendingIsNewest, Entry
<1>2. intents' \in Pruned(S)
  BY DEF ConfirmEntry
<1> HIDE DEF c
<1>3. e.id <= e.id
  BY <1>1
<1>4. c \in Latest(S)
  BY <1>1, <1>3 DEF Latest, Replaced
<1>5. c \in intents' /\ intents' \subseteq S
  BY <1>2, <1>4, PrunedKeepsPending
<1>6. c \in Latest(intents')
  BY <1>4, <1>5 DEF Latest
<1>7. (Open' <=> Open) /\ (SwapLanded' <=> SwapLanded)
  BY DEF Open, CauseLanded, SwapLanded, Landed
<1>8. Open => e.id # obligation.swap
  BY DEF Open, SwapLanded, Landed, BInv, NameInv, NamesSwap
<1> QED
  BY <1>1, <1>6, <1>7, <1>8, LandedWasSent, PendingOfPair DEF Known, Open

\* A withdrawal of a closed obligation, with nothing in the mempools.
LEMMA BookCleared ==
  ASSUME BInv, CInv', FInv', LInv', UNCHANGED <<journalVars, chainVars>>, obligation' = NoObligation,
          ~Open, pool = {}, pc # "record", pc' = "idle" \/ (pc' = "plan" /\ ~HasPendingIntent)
  PROVE  BInv'
<1>1. UNCHANGED <<intents, nextId, active, recovery, pool, mined>> /\ Pending' = Pending
  BY DEF journalVars, chainVars, Pending
<1>2. /\ obligation'.dispatch = NoId /\ obligation'.swap = NoId
      /\ \A x \in pool \cup mined : x.id # NoId
      /\ \A e \in intents : e.id # NoId
  BY BInvTypes, IdsOfTransactions DEF NoObligation
<1>3. ~Open' /\ ~SwapLanded' /\ ~CauseLanded'
  BY <1>1, <1>2 DEF Open, SwapLanded, CauseLanded, Landed
<1>4. Book'
  BY <1>1, <1>3, BookFrame
<1>5. SendInv'
  <2>1. HashesRecorded'
    BY <1>1 DEF BInv, SendInv, HashesRecorded
  <2>2. NoReceiptSeen' /\ NoLanding' /\ Resting'
    BY <1>1 DEF BInv, SendInv, NoReceiptSeen, NoLanding, Resting, HasPendingIntent
  <2>3. PlansUnowing' /\ SwapSends'
    BY DEF PlansUnowing, SwapSends, SendLoc, Sendable
  <2> QED
    BY <2>1, <2>2, <2>3 DEF SendInv
<1>6. NameInv'
  <2>1. PoolEffects' /\ NamesSwap'
    BY <1>1, <1>2 DEF PoolEffects, NamesSwap
  <2>2. NamesActions'
    BY <1>1, <1>2 DEF NamesActions
  <2>3. PendingIsNewest' /\ PendingIsNamed'
    BY <1>1 DEF BInv, NameInv, PendingIsNewest, PendingIsNamed
  <2> QED
    BY <2>1, <2>2, <2>3 DEF NameInv
<1> QED
  BY <1>3, <1>4, <1>5, <1>6 DEF BInv, LinkIsOpen, ClearIsShut, Known

\* Opening an intent.
LEMMA BookBegun ==
  ASSUME BInv, CInv', FInv', LInv', NEW a \in Action, Begin(a), UNCHANGED <<obligation, chainVars>>,
         pc' \in Unsent,
         pc' = "save" => a = "hedge", pc' = "link" => a = "sfpm_swap" /\ Open,
         pc' # "link" => obligation = NoObligation,
         op' \in {"swap", "recovery"} => pc' = "link",
         op' \in {"hedge", "dispatch", "relay"} => pc' # "link"
  PROVE  BInv'
<1>0. TInv /\ GInv /\ TInv'
  BY BInvTypes DEF CInv, GInv
<1>1. /\ active' = nextId /\ nextId' = nextId + 1 /\ intents' = intents \cup {NewEntry(nextId, a)}
      /\ UNCHANGED <<pool, mined, recovery>> /\ nextId \in Nat /\ pool = {} /\ Pending = {}
      /\ obligation.dispatch < nextId /\ obligation.swap < nextId
      /\ recovery = "off" \/ pc \in {"init", "cycle"}
  BY <1>0, IdsOfTransactions, RestingIsEmpty
     DEF Begin, chainVars, HasPendingIntent, BInv, CInv, ObligationIsOld, TInv, RecoveryIsExclusive
<1>2. \A x \in mined : x.id < nextId /\ x.id \in Nat
  BY <1>0, IdsOfTransactions DEF GInv, MinedIsSpent
<1>3. \A e \in intents : e.id \in Nat /\ e.id < nextId
  BY <1>0, IdsOfTransactions
<1>4. Pending' = {NewEntry(nextId, a)} /\ Latest(intents') = Latest(intents)
  BY <1>1 DEF Pending, Latest, NewEntry
<1>5. (Open' <=> Open) /\ (SwapLanded' <=> SwapLanded) /\ (CauseLanded' <=> CauseLanded)
  BY <1>1 DEF Open, CauseLanded, SwapLanded, Landed
<1>6. Book'
  BY <1>1, <1>5, BookFrame
<1>7. HashesRecorded' /\ NoReceiptSeen'
  <2>1. \A e \in intents : e.id # active
    BY <1>0, <1>1, CurrentIsPending
  <2>2. NewEntry(nextId, a).id = nextId
    BY DEF NewEntry
  <2>3. HashesRecorded'
    BY <1>1, <1>2, <2>1, <2>2 DEF BInv, SendInv, HashesRecorded
  <2>4. NoReceiptSeen'
    BY <1>1, <1>2, <1>4, <2>2 DEF NoReceiptSeen
  <2> QED
    BY <2>3, <2>4
<1>8. NoLanding' /\ Resting' /\ PlansUnowing' /\ SwapSends'
  BY DEF NoLanding, Resting, PlansUnowing, SwapSends, Unsent, SendLoc, Sendable, NoObligation,
         CInv, Opened
<1>9. PoolEffects' /\ NamesSwap' /\ NamesActions'
  BY <1>1, <1>2, <1>3 DEF BInv, NameInv, PoolEffects, NamesSwap, NamesActions, NewEntry
<1>10. PendingIsNewest' /\ PendingIsNamed'
  BY <1>1, <1>3, <1>4 DEF PendingIsNewest, PendingIsNamed, Unlinked, NewEntry
<1>11. Known' /\ LinkIsOpen' /\ ClearIsShut'
  BY <1>1, <1>4, <1>5 DEF BInv, Known, LinkIsOpen, ClearIsShut, Unsent
<1> QED
  BY <1>6, <1>7, <1>8, <1>9, <1>10, <1>11 DEF BInv, SendInv, NameInv


-----------------------------------------------------------------------------
(***************************************************************************)
(* Every step keeps the obligation and the book in agreement.              *)
(***************************************************************************)

\* The hashes of the pending entry are all that can have landed of it.
LEMMA ReceiptsAreKnown ==
  ASSUME BInv, NEW e \in Pending, pc # "record"
  PROVE  \A r \in mined : r.id = e.id => r \in ReceiptsOf(e)
BY BInvTypes, PendingFields DEF BInv, SendInv, HashesRecorded, ReceiptsOf

\* A round of recover() drops the pending entry only if it has not landed.
LEMMA DroppedNotLanded ==
  ASSUME BInv, NEW e \in Pending, recovery # "off",
         recovery = "nonce" \/ \A r \in ReceiptsOf(e) : ~r.ok
  PROVE  \A r \in mined : r.id = e.id => ~r.ok
<1>1. pc # "record" /\ recovery \in {"receipts", "nonce", "mempool"}
  BY BInvTypes DEF TInv, RecoveryIsExclusive, JInv, JournalTypeOK
<1> QED
  BY <1>1, ReceiptsAreKnown DEF BInv, SendInv, NoReceiptSeen

LEMMA RecoveryBInv ==
  ASSUME BInv, CInv', FInv', LInv', RecoveryReceipts \/ RecoveryNonce \/ RecoveryMempool PROVE BInv'
<1>0. TInv /\ GInv
  BY BInvTypes
<1>1. /\ UNCHANGED <<nextId, chainVars, obligation>>
      /\ recovery # "off" /\ pc \in {"init", "cycle"}
      /\ pc' \in {"init", "cycle", "initReconcile", "idle", "reconcile"}
      /\ pc' = "init" => pc = "init"
      /\ pc' = "initReconcile" => pc = "init"
      /\ pc' = "reconcile" => ~HasPendingIntent'
  BY <1>0, RecoveryRound
<1>2. UNCHANGED <<pool, mined>>
  BY <1>1 DEF chainVars
<1>3. NoLanding' /\ Resting'
  BY <1>1 DEF NoLanding, Resting, BInv, SendInv
<1>4. ASSUME \A f \in intents' : \E g \in intents : f.id = g.id /\ f.action = g.action /\ g.hashes = f.hashes,
             Pending' \subseteq Pending, NoReceiptSeen', PendingIsNamed', Known'
      PROVE  BInv'
  <2>1. HashesRecorded'
    BY <1>1, <1>2, <1>4, HashesKept
  <2> QED
    BY <1>1, <1>2, <1>3, <1>4, <2>1, BookStep DEF SendLoc, Sendable
<1> PICK e \in Pending : Settles(e)
  BY <1>0, RecoveryRound
<1>5. CASE recovery' = "off" /\ ConfirmEntry(e) /\ \E r \in ReceiptsOf(e) : r.ok
  <2> DEFINE c == [e EXCEPT !.status = "confirmed"]
  <2>1. e \in intents /\ c.id = e.id /\ c.action = e.action /\ c.hashes = e.hashes
    BY <1>0, PendingFields DEF Entry
  <2>2. intents' \subseteq Replaced(e, c) /\ Pending' = {}
    BY <1>0, <1>5, ConfirmLeavesNothing, PrunedKeepsPending DEF ConfirmEntry
  <2>3. Known'
    BY <1>1, <1>2, <1>5, KnownConfirmed DEF ReceiptsOf
  <2>4. NoReceiptSeen' /\ PendingIsNamed'
    BY <1>5, <2>2 DEF NoReceiptSeen, PendingIsNamed
  <2> HIDE DEF c
  <2> QED
    BY <1>4, <2>1, <2>2, <2>3, <2>4 DEF Replaced
<1>6. CASE recovery' = "off" /\ Drop(e) /\ (recovery = "nonce" \/ \A r \in ReceiptsOf(e) : ~r.ok)
  <2>1. intents' \subseteq intents /\ Pending' = {} /\ Latest(intents) \subseteq intents'
    BY <1>0, <1>6, DropLeavesNothing
  <2>2. \A f \in Latest(intents) : f \in Latest(intents')
    BY <2>1 DEF Latest
  <2>3. \A f \in Pending : \A r \in mined : r.id = f.id => ~r.ok
    BY <1>0, <1>1, <1>6, DroppedNotLanded, PendingFields
  <2>4. Known'
    BY <1>1, <1>2, <2>2, <2>3, KnownKept
  <2>5. NoReceiptSeen' /\ PendingIsNamed'
    BY <1>6, <2>1 DEF NoReceiptSeen, PendingIsNamed
  <2> QED
    BY <1>4, <2>1, <2>4, <2>5
<1>7. CASE /\ Hold \/ UNCHANGED <<intents, active>>
           /\ recovery' # "off" => ReceiptsOf(e) = {} \/ recovery' = "mempool"
           /\ recovery' = "mempool" => recovery = "nonce"
           /\ recovery = "receipts" => e.attempts # 0
  <2>1. intents' \subseteq intents /\ Pending' = Pending /\ Latest(intents) \subseteq intents'
    BY <1>7, HoldKeepsPending DEF Pending, Latest
  <2>2. \A f \in Latest(intents) : f \in Latest(intents')
    BY <2>1 DEF Latest
  <2>3. Known'
    BY <1>1, <1>2, <2>1, <2>2, KnownKept
  <2>4. NoReceiptSeen'
    <3>1. recovery' = "nonce" => \A r \in mined : r.id # e.id
      BY <1>1, <1>7, ReceiptsAreKnown
    <3> QED
      BY <1>0, <1>2, <2>1, <3>1, PendingFields DEF NoReceiptSeen
  <2>5. PendingIsNamed'
    <3>1. Pending = {e} /\ (Unlinked => e.attempts # 0)
      BY <1>0, <1>1, <1>7, PendingFields DEF Unlinked
    <3> QED
      BY <1>1, <2>1, <3>1 DEF BInv, NameInv, PendingIsNamed
  <2> QED
    BY <1>4, <2>1, <2>3, <2>4, <2>5
<1> QED
  BY <1>5, <1>6, <1>7 DEF Settles

\* A mined transaction is of the pending intent, and of an intent not mined yet.
LEMMA MineIsNews ==
  ASSUME BInv, NEW t \in pool
  PROVE  /\ \E e \in Pending : e.id = t.id /\ e \in intents
         /\ \A r \in mined : r.id # t.id
         /\ pc \notin {"error", "link", "save", "clear", "undo"}
<1>1. PICK e \in Pending : e.id = t.id
  BY DEF BInv, FInv, Fence
<1>2. \A r \in mined : r.id # t.id
  BY <1>1, BInvTypes, ReceiptKills DEF Gone
<1> QED
  BY <1>1, <1>2, RestingIsEmpty
     DEF Pending, BInv, FInv, NothingInFlight, Unsent, SendInv, Resting, HasPendingIntent

\* What reconciling and the recovery of the swap read off the checkpoint.
LEMMA CheckpointTells ==
  ASSUME BInv, \A e \in Pending : e.id # obligation.dispatch
  PROVE  /\ Open => /\ CheckpointOf(obligation.dispatch) /\ ~CheckpointIsSwap(obligation.swap)
                    /\ ~(\E e \in Latest(intents) : e.action = "sfpm_swap")
         /\ SwapLanded /\ ~HasPendingIntent => CheckpointIsSwap(obligation.swap)
         /\ CheckpointIsSwap(obligation.swap) => SwapLanded
<1>0. TInv /\ Latest(intents) \subseteq intents
  BY BInvTypes DEF Latest
<1>1. ASSUME Open
      PROVE  /\ CheckpointOf(obligation.dispatch)
             /\ \A e \in Latest(intents) : e.action # "sfpm_swap"
  <2>1. PICK e \in Latest(intents) : e.id = obligation.dispatch
    BY <1>0, <1>1 DEF BInv, Known
  <2>2. e.action = "hedge" /\ \A f \in Latest(intents) : f = e
    BY <1>0, <2>1, LatestIsOne DEF BInv, NameInv, NamesActions
  <2> QED
    BY <2>1, <2>2 DEF CheckpointOf
<1>2. ASSUME SwapLanded, ~HasPendingIntent PROVE CheckpointIsSwap(obligation.swap)
  BY <1>0, <1>2 DEF BInv, Known, NameInv, NamesActions, CheckpointIsSwap, HasPendingIntent
<1>3. ASSUME CheckpointIsSwap(obligation.swap) PROVE SwapLanded
  <2>1. PICK e \in Latest(intents) : e.id = obligation.swap
    BY <1>3 DEF CheckpointIsSwap
  <2>2. PICK r \in mined : r.id = e.id /\ r.ok
    BY <1>0, <2>1 DEF BInv, CInv, ConfirmedLanded, Confirmed, Latest
  <2> QED
    BY <2>1, <2>2 DEF BInv, NameInv, NamesSwap, SwapLanded, Landed
<1> QED
  BY <1>1, <1>2, <1>3 DEF CheckpointIsSwap

\* At a reconciliation, with the dispatch no longer pending, only the swap of an
\* open obligation can be in the mempools.
LEMMA UnnamedIsEmpty ==
  ASSUME BInv, pc \in {"initReconcile", "reconcile"}, ~Open, obligation # NoObligation,
         \A e \in Pending : e.id # obligation.dispatch
  PROVE  pool = {}
<1> SUFFICES ASSUME NEW t \in pool PROVE FALSE
  OBVIOUS
<1>1. PICK e \in Pending : e.id = t.id
  BY DEF BInv, FInv, Fence
<1>2. t.id = obligation.swap
  BY <1>1 DEF BInv, NameInv, PendingIsNamed, Unlinked
<1>3. t.effect = "swap"
  BY <1>2 DEF BInv, NameInv, NamesSwap
<1>4. SwapLanded
  BY <1>3 DEF BInv, NameInv, PoolEffects, Open
<1> QED
  BY <1>2, <1>4, MineIsNews DEF SwapLanded, Landed

LEMMA RecoveringBInv == ASSUME BInv, CInv', FInv', LInv', Recovering, Orderly PROVE BInv'
<1> USE DEF Goto, At, botVars, chainVars
<1>1. CASE StartRecovery \/ NothingPending
  <2>1. /\ UNCHANGED <<intents, nextId, active, op, obligation, pool, mined>>
        /\ pc \in {"init", "cycle"} /\ pc' \in {pc, "plan"} /\ recovery' \in {recovery, "receipts"}
        /\ pc' = "plan" => ~HasPendingIntent
    BY <1>1 DEF StartRecovery, RecoverStart, NothingPending, journalVars
  <2>2. NoLanding' /\ Resting'
    BY <2>1 DEF NoLanding, Resting, BInv, SendInv, HasPendingIntent, Pending
  <2> QED
    BY <2>1, <2>2, BookMoves DEF SendLoc, Sendable
<1>2. CASE NothingToRecover
  <2>1. /\ UNCHANGED <<nextId, obligation, pool, mined, recovery>> /\ intents' \in Pruned(intents)
        /\ pc = "init" /\ pc' = "initReconcile" /\ recovery = "off"
    BY <1>2 DEF NothingToRecover
  <2>2. intents' \subseteq intents /\ Pending' = Pending /\ Latest(intents) \subseteq intents'
    BY <2>1, PrunedKeepsPending DEF Pending, Latest
  <2>3. \A f \in Latest(intents) : f \in Latest(intents')
    BY <2>2 DEF Latest
  <2>4. Known'
    BY <2>1, <2>2, <2>3, KnownKept
  <2>5. NoLanding' /\ Resting' /\ NoReceiptSeen' /\ PendingIsNamed'
    BY <1>2, <2>1, <2>2
       DEF NoLanding, Resting, NoReceiptSeen, PendingIsNamed, NothingToRecover, HasPendingIntent
  <2>6. HashesRecorded'
    BY <2>1, <2>2, HashesKept
  <2> QED
    BY <2>1, <2>2, <2>4, <2>5, <2>6, BookStep DEF SendLoc, Sendable
<1>3. CASE Reconcile
  <2>1. /\ UNCHANGED <<journalVars, chainVars, op>> /\ pc' \in {"idle", "plan", "down"}
        /\ pc \in {"initReconcile", "reconcile"} /\ (pc' = "plan" => pc = "reconcile")
    BY <1>3, ReconcileShape
  <2>2. CASE UNCHANGED obligation
    <3>1. UNCHANGED <<intents, nextId, active, recovery, pool, mined>>
      BY <2>1 DEF journalVars
    <3>2. NoLanding' /\ Resting'
      BY <2>1, <3>1 DEF NoLanding, Resting, BInv, SendInv, HasPendingIntent, Pending
    <3> QED
      BY <2>1, <2>2, <3>1, <3>2, BookMoves DEF SendLoc, Sendable
  <2>3. CASE obligation' # obligation
    <3>1. /\ obligation' = NoObligation /\ Stale
          /\ pc' = (IF pc = "initReconcile" THEN "idle" ELSE "plan")
      BY <1>3, <2>3, ReconcileShape
    <3>2. \A e \in Pending : e.id # obligation.dispatch
      BY <2>1, <3>1 DEF Orderly, BInv, SendInv, Resting, HasPendingIntent
    <3>3. ~Open
      BY <3>1, <3>2, CheckpointTells DEF Stale
    <3>4. pool = {}
      BY <2>1, <2>3, <3>1, <3>2, <3>3, UnnamedIsEmpty
    <3>5. pc = "reconcile" => ~HasPendingIntent
      BY DEF BInv, SendInv, Resting
    <3> QED
      BY <2>1, <3>1, <3>3, <3>4, <3>5, BookCleared
  <2> QED
    BY <2>2, <2>3
<1> QED
  BY <1>1, <1>2, <1>3, RecoveryBInv DEF Recovering

LEMMA PlanningBInv ==
  ASSUME BInv, CInv', FInv', LInv', Planning \/ Start \/ StartCycle \/ BeginRelay PROVE BInv'
<1> USE DEF Goto, At
<1>0. TInv /\ GInv
  BY BInvTypes
<1>1. CASE EndCycle \/ Start \/ StartCycle
  <2>1. /\ UNCHANGED <<intents, nextId, active, recovery, op, obligation, pool, mined>>
        /\ pc \in {"plan", "down", "idle"} /\ pc' \in {"idle", "init", "cycle"}
        /\ pc' = "init" <=> pc = "down"
    BY <1>1 DEF EndCycle, Start, StartCycle, journalVars, chainVars
  <2>2. NoLanding' /\ Resting'
    BY <2>1 DEF NoLanding, Resting, BInv, SendInv
  <2> QED
    BY <2>1, <2>2, BookMoves DEF SendLoc, Sendable
<1>2. CASE BeginHedge
  BY <1>2, BookBegun DEF BeginHedge, Action, Unsent
<1>3. CASE BeginRelay
  BY <1>3, BookBegun DEF BeginRelay, Action, Unsent
<1>4. CASE BeginSwapRecovery
  <2>1. ~HasPendingIntent /\ CauseLanded
    BY <1>4 DEF BeginSwapRecovery, Begin, HasPendingIntent, BInv, CInv, ObligationHasCause, Unreconciled
  <2>2. ~SwapLanded
    <3>1. SwapLanded => obligation.swap # NoId
      BY <1>0, IdsOfTransactions DEF SwapLanded, Landed
    <3> QED
      BY <1>4, <2>1, <3>1, CheckpointTells DEF BeginSwapRecovery, HasPendingIntent
  <2> QED
    BY <1>4, <2>1, <2>2, BookBegun DEF BeginSwapRecovery, Action, Unsent, Open
<1>5. CASE BeginSwap
  <2>1. CauseLanded /\ obligation.swap = NoId
    BY <1>5 DEF BeginSwap, BInv, CInv, SwapsHaveCause, SendInv, SwapSends
  <2>2. Open
    BY <1>0, <2>1, IdsOfTransactions DEF Open, SwapLanded, Landed
  <2> QED
    BY <1>5, <2>2, BookBegun DEF BeginSwap, Action, Unsent
<1>6. CASE ClearConfirmedSwap
  <2>1. /\ UNCHANGED <<journalVars, chainVars>> /\ pc = "plan" /\ pc' = "idle"
        /\ CheckpointIsSwap(obligation.swap)
    BY <1>6, ClearShape DEF ClearConfirmedSwap
  <2>2. ~HasPendingIntent
    BY <2>1 DEF BInv, SendInv, Resting
  <2>3. ~Open
    BY <2>1, <2>2, CheckpointTells DEF HasPendingIntent
  <2>4. CASE obligation' = NoObligation
    BY <2>1, <2>2, <2>3, <2>4, RestingIsEmpty, BookCleared
  <2>5. CASE UNCHANGED obligation
    <3>1. UNCHANGED <<intents, nextId, recovery, pool, mined>>
      BY <2>1 DEF journalVars, chainVars
    <3>2. NoLanding' /\ Resting'
      BY <2>1 DEF NoLanding, Resting
    <3> QED
      BY <2>1, <2>5, <3>1, <3>2, BookMoves DEF SendLoc, Sendable
  <2> QED
    BY <1>6, <2>4, <2>5, ClearShape
<1>7. CASE SaveObligation
  <2>1. /\ pc = "save" /\ pc' = "prepare" /\ UNCHANGED <<intents, nextId, active, op, recovery, pool, mined>>
        /\ obligation'.dispatch = active /\ obligation'.swap = NoId
        /\ Pending' = Pending /\ Latest(intents') = Latest(intents)
    BY <1>7 DEF SaveObligation, journalVars, chainVars, Pending, Latest
  <2>2. /\ \A x \in mined : x.id # active /\ x.id # NoId
        /\ \A e \in intents : e.id # NoId
        /\ pool = {} /\ op = "dispatch" /\ obligation = NoObligation
    BY <1>0, <2>1, IdsOfTransactions
       DEF BInv, CInv, Opened, FInv, NothingInFlight, Unsent, SendInv, PlansUnowing
  <2>3. PICK e \in Pending : e.id = active /\ Pending = {e}
    BY <1>0, <2>1, PendingFields DEF BInv, CInv, Opened
  <2>4. ~Open' /\ ~SwapLanded' /\ ~Open
    BY <1>0, <2>1, <2>2, NoObligationIsShut DEF Open, SwapLanded, CauseLanded, Landed
  <2>5. Book'
    BY <2>1, <2>4, BookFrame
  <2>6. SendInv'
    <3>1. HashesRecorded' /\ NoReceiptSeen'
      BY <2>1, <2>2 DEF BInv, SendInv, HashesRecorded, NoReceiptSeen
    <3>2. NoLanding' /\ Resting'
      BY <2>1 DEF NoLanding, Resting
    <3>3. PlansUnowing' /\ SwapSends'
      BY <2>1, <2>2 DEF PlansUnowing, SwapSends
    <3> QED
      BY <3>1, <3>2, <3>3 DEF SendInv
  <2>7. NameInv'
    <3>1. PoolEffects' /\ NamesSwap'
      BY <2>1, <2>2 DEF PoolEffects, NamesSwap
    <3>2. NamesActions'
      BY <2>1, <2>2 DEF NamesActions, BInv, NameInv
    <3>3. PendingIsNewest' /\ PendingIsNamed'
      BY <2>1, <2>3 DEF PendingIsNewest, PendingIsNamed, BInv, NameInv
    <3> QED
      BY <3>1, <3>2, <3>3 DEF NameInv
  <2> QED
    BY <2>1, <2>4, <2>5, <2>6, <2>7 DEF BInv, LinkIsOpen, ClearIsShut, Known
<1>8. CASE LinkObligation
  <2>1. /\ pc = "link" /\ pc' = "prepare" /\ UNCHANGED <<intents, nextId, active, op, recovery, pool, mined>>
        /\ obligation'.dispatch = obligation.dispatch /\ obligation'.swap = active
        /\ Pending' = Pending /\ Latest(intents') = Latest(intents)
    BY <1>0, <1>8, IdsOfTransactions
       DEF LinkObligation, journalVars, chainVars, Pending, Latest, Obligation
  <2>2. /\ \A x \in mined : x.id # active
        /\ pool = {} /\ op \in {"swap", "recovery"} /\ Open
    BY <2>1 DEF BInv, CInv, Opened, FInv, NothingInFlight, Unsent, LinkIsOpen
  <2>3. PICK e \in Pending : e.id = active /\ Pending = {e}
    BY <1>0, <2>1, PendingFields DEF BInv, CInv, Opened
  <2>4. Open' /\ ~SwapLanded'
    BY <2>1, <2>2 DEF Open, SwapLanded, CauseLanded, Landed
  <2>5. Book'
    BY <2>1, <2>2, <2>4, BookFrame
  <2>6. SendInv'
    <3>1. HashesRecorded' /\ NoReceiptSeen'
      BY <2>1, <2>2 DEF BInv, SendInv, HashesRecorded, NoReceiptSeen
    <3>2. NoLanding' /\ Resting'
      BY <2>1 DEF NoLanding, Resting
    <3>3. PlansUnowing' /\ SwapSends'
      BY <2>1, <2>2 DEF PlansUnowing, SwapSends
    <3> QED
      BY <3>1, <3>2, <3>3 DEF SendInv
  <2>7. NameInv'
    <3>1. PoolEffects' /\ NamesSwap'
      BY <2>1, <2>2 DEF PoolEffects, NamesSwap
    <3>2. NamesActions'
      BY <2>1, <2>2 DEF NamesActions, BInv, NameInv
    <3>3. PendingIsNewest' /\ PendingIsNamed'
      BY <2>1, <2>3 DEF PendingIsNewest, PendingIsNamed, BInv, NameInv
    <3> QED
      BY <3>1, <3>2, <3>3 DEF NameInv
  <2>8. Known' /\ LinkIsOpen' /\ ClearIsShut'
    BY <2>1, <2>2, <2>4 DEF BInv, Known, LinkIsOpen, ClearIsShut
  <2> QED
    BY <2>5, <2>6, <2>7, <2>8 DEF BInv
<1> QED
  BY <1>1, <1>2, <1>3, <1>4, <1>5, <1>6, <1>7, <1>8 DEF Planning

\* The sender rewrites the pending entry.
LEMMA BookRewritten ==
  ASSUME BInv, CInv', FInv', LInv', NEW e \in Pending, NEW f, Rewrites(e, f),
         pc \in SendLoc \ {"save", "link"}, pc' \in SendLoc \ {"save", "link"},
         HashesRecorded', NoLanding'
  PROVE  BInv'
<1>1. /\ Pending = {e} /\ Pending' = {f} /\ f.id = e.id /\ f.action = e.action /\ e \in intents
      /\ intents' = Replaced(e, f) /\ Latest(intents') = Latest(intents)
      /\ UNCHANGED <<nextId, active, recovery, op, obligation, pool, mined>>
  BY BInvTypes, PendingFields DEF Rewrites, chainVars
<1>2. (Open' <=> Open) /\ (SwapLanded' <=> SwapLanded)
  BY <1>1 DEF Open, CauseLanded, SwapLanded, Landed
<1>3. Known'
  BY <1>1, <1>2 DEF BInv, Known
<1>4. NoReceiptSeen'
  BY <1>1 DEF BInv, SendInv, NoReceiptSeen
<1>5. Resting'
  BY DEF Resting, SendLoc, Sendable
<1>6. \A g \in intents' : \E h \in intents : g.id = h.id /\ g.action = h.action
  BY <1>1 DEF Replaced
<1>7. PendingIsNamed'
  BY <1>1 DEF BInv, NameInv, PendingIsNamed, Unlinked, SendLoc, Sendable
<1> QED
  BY <1>1, <1>3, <1>4, <1>5, <1>6, <1>7, BookStep DEF SendLoc, Sendable

\* A rejected first attempt, or none, has not landed.
LEMMA RejectedNotLanded ==
  ASSUME BInv, NEW e \in Pending, pc # "record",
         e.attempts <= e.rejected + (IF pc = "broadcast" /\ e.id = active THEN 1 ELSE 0)
  PROVE  \A r \in mined : r.id # e.id
<1>1. GInv /\ TInv
  BY BInvTypes
<1>2. MayLand(e) = {} /\ e.hashes \subseteq 1..e.attempts
  BY <1>1, RejectionsKill, PendingFields
<1>3. e.hashes = {}
  BY <1>2 DEF MayLand
<1> QED
  BY <1>3, ReceiptsAreKnown DEF ReceiptsOf

LEMMA SendingBInv == ASSUME AllAnswered, BInv, CInv', FInv', LInv', Sending PROVE BInv'
<1> USE DEF Goto, At
<1>0. TInv /\ GInv
  BY BInvTypes
<1>1. CASE PinNonce
  <2>1. PICK n \in PendingCounts : ObserveTransaction(n, {})
    BY <1>1 DEF PinNonce
  <2>2. PICK e \in intents : /\ e.id = active /\ e.nonce \in {NoNonce, n}
                             /\ intents' = Replaced(e, [e EXCEPT !.nonce = n, !.hashes = {}])
    BY <2>1 DEF ObserveTransaction
  <2>3. e \in Pending /\ Pending = {e} /\ e \in Entry /\ \A g \in intents : g.id = e.id => g = e
    BY <1>0, <2>2, CurrentIsPending, PendingFields
  <2>4. n >= chainNonce /\ n \in Int /\ chainNonce \in Int
    BY <1>0 DEF PendingCounts, TInv, BotTypeOK
  <2>5. \A r \in mined : r.id # e.id
    BY <1>0, <2>2, <2>4 DEF GInv, MinedIsSpent, NoNonce
  <2> DEFINE f == [e EXCEPT !.nonce = n, !.hashes = {}]
  <2>6. f.id = e.id /\ f.action = e.action /\ f.status = e.status /\ f.attempts = e.attempts
    BY <2>3 DEF Entry
  <2> HIDE DEF f
  <2>7. /\ pc = "prepare" /\ pc' = "attempt" /\ pool = {}
        /\ UNCHANGED <<nextId, active, absent, recovery, chainVars, op, obligation, pool, mined>>
    BY <1>1, <2>1 DEF PinNonce, ObserveTransaction, chainVars, BInv, FInv, NothingInFlight, Unsent
  <2>8. Rewrites(e, f)
    <3>1. PICK g \in Pending : \E h : Rewrites(g, h)
      BY <1>0, <1>1, SenderRewrites
    <3>2. Latest(intents') = Latest(intents)
      BY <3>1 DEF Rewrites
    <3>3. Pending' = {f}
      BY <2>2, <2>3, <2>6 DEF Pending, Replaced, f
    <3> QED
      BY <2>2, <2>6, <2>7, <3>2, <3>3 DEF Rewrites, f
  <2>9. HashesRecorded'
    BY <2>3, <2>5, <2>6, <2>7, <2>8
       DEF BInv, SendInv, HashesRecorded, Rewrites, Replaced
  <2> QED
    BY <2>3, <2>7, <2>8, <2>9, BookRewritten DEF SendLoc, Sendable, NoLanding
<1>2. CASE RecordAttempt \/ RecordHash \/ BroadcastRejected \/ BroadcastNonceSpent
  <2> PICK e \in Pending : \E f : Rewrites(e, f)
    BY <1>0, <1>2, SenderRewrites
  <2> PICK f : Rewrites(e, f)
    OBVIOUS
  <2>1. /\ pc \in {"attempt", "broadcast", "record"}
        /\ pc' \in {"broadcast", "wait", "error", "nonceSpent"}
        /\ pc' = "error" => pc = "broadcast" /\ \E g \in Current : g.attempts = 1
    BY <1>2 DEF RecordAttempt, RecordHash, BroadcastRejected, BroadcastNonceSpent
  <2>2. /\ Pending = {e} /\ Current = {e} /\ e \in intents /\ f.id = e.id /\ e.id = active
        /\ intents' = Replaced(e, f) /\ UNCHANGED <<pool, mined, active>>
        /\ \A g \in intents : g.id = e.id => g = e
        /\ e.attempts \in Nat /\ e.rejected \in Nat
    BY <1>0, PendingFields, CurrentIsPending DEF Rewrites, chainVars
  <2>3. \/ pc = "record" /\ f.hashes = e.hashes \cup {e.attempts}
        \/ pc # "record" /\ f.hashes = e.hashes
    BY <2>1 DEF Rewrites
  <2>4. HashesRecorded'
    BY <2>2, <2>3 DEF BInv, SendInv, HashesRecorded, Replaced
  <2>5. NoLanding'
    <3>1. pc' = "error" => \A r \in mined : r.id # e.id
      BY <2>1, <2>2, RejectedNotLanded
    <3> QED
      BY <2>2, <3>1 DEF NoLanding, Current
  <2> QED
    BY <2>1, <2>4, <2>5, BookRewritten DEF SendLoc, Sendable
<1>3. CASE BroadcastAccepted
  <2>1. PICK e \in Current : e.nonce >= chainNonce /\ pool' = pool \cup {NewTx(e)}
    BY <1>3 DEF BroadcastAccepted
  <2>2. /\ pc = "broadcast" /\ pc' = "record"
        /\ UNCHANGED <<intents, nextId, active, recovery, op, obligation, mined>>
        /\ Pending' = Pending /\ Latest(intents') = Latest(intents)
    BY <1>3 DEF BroadcastAccepted, journalVars, Pending, Latest
  <2>3. /\ e \in intents /\ e.id = active /\ e.id # NoId
        /\ \A g \in intents : g.id = e.id => g = e
        /\ op # "none" /\ op \in Op
    BY <1>0, <2>2, CurrentIsPending, PendingFields, IdsOfTransactions
       DEF Current, TInv, SendsAreCounted, Sendable, BotTypeOK
  <2>4. NewTx(e).id = active /\ NewTx(e).try = e.attempts /\ NewTx(e).effect = EffectOf(op)
    BY <2>3 DEF NewTx
  <2>5. /\ op \in {"swap", "recovery"} => active = obligation.swap /\ CauseLanded
        /\ op = "dispatch" => active = obligation.dispatch /\ obligation.swap = NoId
        /\ op \in {"hedge", "relay"} => obligation = NoObligation
    BY <2>2 DEF BInv, SendInv, SwapSends, PlansUnowing, CInv, DispatchSends, SwapsHaveCause, SendLoc,
                Sendable
  <2>6. PoolEffects' /\ NamesSwap'
    <3>1. /\ EffectOf(op) = "dispatch" => op = "dispatch"
          /\ EffectOf(op) = "swap" => op \in {"swap", "recovery"}
          /\ op \in {"swap", "recovery"} => EffectOf(op) = "swap"
      BY DEF EffectOf
    <3>2. CauseLanded' <=> CauseLanded
      BY <2>2 DEF CauseLanded, Landed
    <3>3. PoolEffects'
      BY <2>1, <2>2, <2>4, <2>5, <3>1, <3>2 DEF BInv, NameInv, PoolEffects
    <3>4. active = obligation.swap => op \in {"swap", "recovery"}
      BY <2>3, <2>5 DEF NoObligation, Op
    <3>5. NamesSwap'
      BY <2>1, <2>2, <2>4, <3>1, <3>4 DEF BInv, NameInv, NamesSwap
    <3> QED
      BY <3>3, <3>5
  <2>7. (Open' <=> Open) /\ (SwapLanded' <=> SwapLanded)
    BY <2>2 DEF Open, CauseLanded, SwapLanded, Landed
  <2>8. Book' /\ Known' /\ LinkIsOpen' /\ ClearIsShut'
    BY <2>2, <2>7, BookFrame DEF BInv, Known, LinkIsOpen, ClearIsShut
  <2>9. HashesRecorded'
    BY <2>1, <2>2, <2>3, <2>4 DEF BInv, SendInv, HashesRecorded
  <2>10. NoReceiptSeen' /\ NoLanding' /\ Resting' /\ PlansUnowing' /\ SwapSends'
    BY <2>2 DEF BInv, SendInv, NoReceiptSeen, NoLanding, Resting, PlansUnowing, SwapSends,
                SendLoc, Sendable
  <2>11. NamesActions' /\ PendingIsNewest' /\ PendingIsNamed'
    BY <2>2 DEF BInv, NameInv, NamesActions, PendingIsNewest, PendingIsNamed, Unlinked
  <2> QED
    BY <2>6, <2>8, <2>9, <2>10, <2>11 DEF BInv, SendInv, NameInv
<1>4. CASE BroadcastUnanswered \/ BroadcastAlreadyKnown
  <2>1. FALSE
    BY <1>4 DEF BroadcastUnanswered, BroadcastAlreadyKnown, AllAnswered, Answered
  <2> QED
    BY <2>1
<1>5. CASE ReceiptFound \/ NonceSpentElsewhere \/ Bump \/ NotMined
  <2>1. /\ UNCHANGED <<intents, nextId, active, recovery, op, obligation, pool, mined>>
        /\ pc \in {"wait", "nonceSpent"} /\ pc' \in {"settled", "error", "idle", "attempt"}
    BY <1>5 DEF ReceiptFound, NonceSpentElsewhere, Bump, NotMined, journalVars, chainVars
  <2>2. NoLanding'
    <3> SUFFICES ASSUME pc' = "error", NEW e \in Current, NEW s \in mined, s.id = e.id PROVE ~s.ok
      BY <2>1 DEF NoLanding, Current
    <3>1. e \in Pending /\ Current = {e}
      BY <1>0, CurrentIsPending DEF Current
    <3>2. s \in ReceiptsOf(e)
      BY <2>1, <3>1, ReceiptsAreKnown
    <3>3. CASE ReceiptFound
      <4>1. PICK r \in ReceiptsOf(e) : ~r.ok
        BY <3>1, <3>3 DEF ReceiptFound
      <4> QED
        BY <3>2, <4>1 DEF ReceiptsOf, BInv, LInv, LandsOnce
    <3>4. CASE NonceSpentElsewhere
      BY <3>2, <3>4 DEF NonceSpentElsewhere
    <3>5. CASE Bump \/ NotMined
      BY <3>5 DEF Bump, NotMined, AllAnswered, Answered
    <3> QED
      BY <1>5, <3>3, <3>4, <3>5
  <2>3. Resting'
    BY <2>1 DEF Resting
  <2> QED
    BY <2>1, <2>2, <2>3, BookMoves DEF SendLoc, Sendable
<1> QED
  BY <1>1, <1>2, <1>3, <1>4, <1>5 DEF Sending

\* Deleting the intent of a send that has not landed.
LEMMA BookFailed ==
  ASSUME BInv, CInv', FInv', LInv', Fail, UNCHANGED <<op, obligation, pool, mined>>,
         pc \in SendLoc \ {"save", "record"},
         pc' = "idle" \/ (pc' = "undo" /\ op = "dispatch"),
         \A e \in Current, r \in mined : r.id = e.id => ~r.ok
  PROVE  BInv'
<1>0. TInv /\ GInv
  BY BInvTypes
<1> PICK e \in Pending : /\ e.id = active /\ intents' = intents \ {e} /\ Pending' = {}
                         /\ UNCHANGED <<nextId, recovery>>
  BY <1>0, FailShape
<1>1. e \in intents /\ Pending = {e} /\ e.status = "pending" /\ e \in Current
  BY <1>0, PendingFields DEF Pending, Current
<1>2. \A r \in mined : r.id = e.id => ~r.ok
  BY <1>1
<1>3. \A f \in Latest(intents) : f \in Latest(intents')
  BY <1>1 DEF Latest
<1>4. Known'
  BY <1>1, <1>2, <1>3, KnownKept
<1>5. pc' = "undo" => ~Open
  BY <1>2, NotLanded DEF BInv, CInv, DispatchSends, Open
<1>6. NoReceiptSeen' /\ NoLanding' /\ Resting' /\ PendingIsNamed'
  BY DEF NoReceiptSeen, NoLanding, Resting, PendingIsNamed, HasPendingIntent
<1>7. HashesRecorded'
  BY HashesKept
<1> QED
  BY <1>1, <1>4, <1>5, <1>6, <1>7, BookStep DEF SendLoc, Sendable

LEMMA SettlingBInv == ASSUME BInv, CInv', FInv', LInv', Settling PROVE BInv'
<1> USE DEF Goto, At
<1>0. TInv /\ GInv
  BY BInvTypes
<1>1. CASE ConfirmSend
  <2> PICK e \in Pending : /\ e.id = active /\ ConfirmEntry(e)
                           /\ \E r \in ReceiptsOf(e) : r.ok
    BY <1>0, <1>1, ConfirmSendShape
  <2>1. PICK r \in mined : r.id = active /\ r.ok
    BY DEF ReceiptsOf
  <2>2. /\ UNCHANGED <<nextId, recovery, op, obligation, pool, mined>> /\ pc = "settled"
        /\ pc' = CASE op = "dispatch" -> "next" [] op = "relay" -> "idle" [] OTHER -> "clear"
    BY <1>1 DEF ConfirmSend, Confirm, chainVars
  <2> DEFINE c == [e EXCEPT !.status = "confirmed"]
  <2>3. e \in intents /\ c.id = e.id /\ c.action = e.action /\ c.hashes = e.hashes
    BY <1>0, PendingFields DEF Entry
  <2>4. intents' \subseteq Replaced(e, c) /\ Pending' = {}
    BY <1>0, ConfirmLeavesNothing, PrunedKeepsPending DEF ConfirmEntry
  <2> HIDE DEF c
  <2>5. \A f \in intents' : \E g \in intents : f.id = g.id /\ f.action = g.action /\ g.hashes = f.hashes
    BY <2>3, <2>4 DEF Replaced
  <2>6. HashesRecorded'
    BY <2>2, <2>5, HashesKept
  <2>7. Known'
    BY <2>1, <2>2, KnownConfirmed
  <2>8. NoReceiptSeen' /\ NoLanding' /\ Resting' /\ PendingIsNamed'
    BY <2>2, <2>4 DEF NoReceiptSeen, NoLanding, Resting, PendingIsNamed, HasPendingIntent
  <2>9. pc' = "next" => obligation.swap = NoId
    BY <2>2 DEF BInv, SendInv, SwapSends, SendLoc
  <2>10. pc' = "clear" => ~Open
    <3>1. CASE op \in {"swap", "recovery"}
      <4>1. active = obligation.swap
        BY <2>2, <3>1 DEF BInv, SendInv, SwapSends, SendLoc
      <4> QED
        BY <2>1, <4>1 DEF BInv, NameInv, NamesSwap, Open, SwapLanded, Landed
    <3>2. CASE op \notin {"dispatch", "swap", "recovery"}
      BY <1>0, <2>2, <3>2, NoObligationIsShut DEF BInv, SendInv, PlansUnowing, SendLoc
    <3> QED
      BY <2>2, <3>1, <3>2
  <2> QED
    BY <2>2, <2>4, <2>5, <2>6, <2>7, <2>8, <2>9, <2>10, BookStep DEF SendLoc, Sendable
<1>2. CASE ClearObligation \/ UndoObligation
  <2>1. /\ UNCHANGED <<journalVars, chainVars>> /\ pc \in {"clear", "undo"} /\ pc' = "idle"
        /\ obligation' = NoObligation \/ UNCHANGED obligation
    BY <1>2, ClearShape DEF ClearObligation, UndoObligation
  <2>2. CASE obligation' = NoObligation
    <3>1. ~Open /\ pool = {}
      BY <2>1, RestingIsEmpty DEF BInv, ClearIsShut, SendInv, Resting
    <3> QED
      BY <2>1, <2>2, <3>1, BookCleared
  <2>3. CASE UNCHANGED obligation
    <3>1. UNCHANGED <<intents, nextId, recovery, pool, mined>>
      BY <2>1 DEF journalVars, chainVars
    <3>2. NoLanding' /\ Resting'
      BY <2>1 DEF NoLanding, Resting
    <3> QED
      BY <2>1, <2>3, <3>1, <3>2, BookMoves DEF SendLoc, Sendable
  <2> QED
    BY <2>1, <2>2, <2>3
<1>3. CASE FailSend
  <2>1. /\ UNCHANGED <<op, obligation, pool, mined>> /\ pc = "error"
        /\ pc' = (IF op = "dispatch" THEN "undo" ELSE "idle")
        /\ op = "dispatch" => Fail
        /\ UNCHANGED journalVars \/ Fail
    BY <1>3 DEF FailSend, chainVars
  <2>2. CASE UNCHANGED journalVars /\ op # "dispatch"
    <3>1. UNCHANGED <<intents, nextId, recovery>>
      BY <2>2 DEF journalVars
    <3>2. NoLanding' /\ Resting'
      BY <2>1, <2>2 DEF NoLanding, Resting
    <3> QED
      BY <2>1, <2>2, <3>1, <3>2, BookMoves DEF SendLoc, Sendable
  <2>3. CASE Fail
    <3>1. ASSUME NEW e \in Current, NEW r \in mined, r.id = e.id PROVE ~r.ok
      BY <2>1, <3>1 DEF BInv, SendInv, NoLanding
    <3> QED
      BY <2>1, <2>3, <3>1, BookFailed DEF SendLoc, Sendable
  <2> QED
    BY <2>1, <2>2, <2>3
<1>4. CASE RelayReverted
  <2>1. /\ UNCHANGED <<op, obligation, pool, mined>> /\ pc \in {"wait", "nonceSpent"}
        /\ pc' = "idle" /\ op = "relay" /\ Fail
    BY <1>4 DEF RelayReverted, chainVars
  <2>2. ASSUME NEW e \in Current, NEW r \in mined, r.id = e.id PROVE ~r.ok
    <3>1. PICK g \in Current : \E q \in ReceiptsOf(g) : ~q.ok
      BY <1>4 DEF RelayReverted
    <3>2. PICK q \in mined : q.id = active /\ ~q.ok
      BY <3>1 DEF ReceiptsOf, Current
    <3> QED
      BY <2>2, <3>2 DEF Current, BInv, LInv, LandsOnce
  <2> QED
    BY <2>1, <2>2, BookFailed DEF SendLoc, Sendable
<1> QED
  BY <1>1, <1>2, <1>3, <1>4 DEF Settling

\* What mining does to the receipts of an effect.
LEMMA LandedGrows ==
  ASSUME IsFiniteSet(mined), NEW r, r \notin mined, mined' = mined \cup {r}, NEW x
  PROVE  /\ r.ok /\ r.effect = x => /\ Landed(x)' = Landed(x) \cup {r}
                                    /\ Cardinality(Landed(x)') = Cardinality(Landed(x)) + 1
         /\ ~(r.ok /\ r.effect = x) => Landed(x)' = Landed(x)
         /\ Cardinality(Landed(x)) \in Nat
         /\ IsFiniteSet(mined')
<1>1. IsFiniteSet(Landed(x)) /\ r \notin Landed(x)
  BY FS_Subset DEF Landed
<1>2. Cardinality(Landed(x)) \in Nat /\ Cardinality(Landed(x) \cup {r}) = Cardinality(Landed(x)) + 1
  BY <1>1, FS_AddElement, FS_CardinalityType
<1>3. r.ok /\ r.effect = x => Landed(x)' = Landed(x) \cup {r}
  BY DEF Landed
<1>4. ~(r.ok /\ r.effect = x) => Landed(x)' = Landed(x)
  BY DEF Landed
<1>5. IsFiniteSet(mined')
  BY FS_AddElement
<1> QED
  BY <1>2, <1>3, <1>4, <1>5

LEMMA MineBInv == ASSUME BInv, CInv', FInv', LInv', Mine, Orderly PROVE BInv'
<1>0. TInv /\ GInv
  BY BInvTypes
<1> PICK t \in pool, ok \in BOOLEAN :
         /\ mined' = mined \cup {[id |-> t.id, try |-> t.try, effect |-> t.effect, ok |-> ok]}
         /\ pool' = {u \in pool : u.nonce > chainNonce}
         /\ UNCHANGED <<journalVars, botVars>>
  BY <1>0, MineShape
<1> DEFINE r == [id |-> t.id, try |-> t.try, effect |-> t.effect, ok |-> ok]
<1>1. /\ mined' = mined \cup {r} /\ pool' \subseteq pool
      /\ r.id = t.id /\ r.try = t.try /\ r.effect = t.effect /\ r.ok = ok
      /\ UNCHANGED <<intents, nextId, active, recovery, pc, op, obligation>>
      /\ Pending' = Pending /\ Latest(intents') = Latest(intents)
  BY DEF journalVars, botVars, Pending, Latest
<1> HIDE DEF r
<1>2. PICK e \in Pending : e.id = t.id /\ e \in intents
  BY MineIsNews
<1>3. /\ \A s \in mined : s.id # t.id
      /\ r \notin mined
      /\ pc \notin {"error", "link", "save", "clear", "undo"}
  BY <1>1, MineIsNews
<1>4. /\ CauseLanded => CauseLanded'
      /\ recovery # "nonce"
  BY <1>1, <1>3 DEF CauseLanded, Landed, Orderly
<1>5. SendInv'
  <2>1. HashesRecorded' /\ NoReceiptSeen' /\ NoLanding'
    BY <1>1, <1>3, <1>4 DEF BInv, SendInv, HashesRecorded, NoReceiptSeen, NoLanding
  <2>2. Resting' /\ PlansUnowing' /\ SwapSends'
    BY <1>1 DEF BInv, SendInv, Resting, PlansUnowing, SwapSends, HasPendingIntent
  <2> QED
    BY <2>1, <2>2 DEF SendInv
<1>6. NameInv'
  <2>1. PoolEffects' /\ NamesSwap'
    BY <1>1, <1>4 DEF BInv, NameInv, PoolEffects, NamesSwap
  <2>2. NamesActions' /\ PendingIsNewest' /\ PendingIsNamed'
    BY <1>1 DEF BInv, NameInv, NamesActions, PendingIsNewest, PendingIsNamed, Unlinked
  <2> QED
    BY <2>1, <2>2 DEF NameInv
<1>7. LinkIsOpen' /\ ClearIsShut'
  BY <1>1, <1>3 DEF BInv, LinkIsOpen, ClearIsShut
<1>8. IsFiniteSet(mined)
  BY DEF BInv, Book
<1>9. /\ \A x \in {"dispatch", "swap"} : Cardinality(Landed(x)) \in Nat
      /\ IsFiniteSet(mined')
  BY <1>1, <1>3, <1>8, LandedGrows
<1>10. CASE ok /\ t.effect = "dispatch"
  <2>1. t.id = obligation.dispatch /\ obligation.swap = NoId
    BY <1>10 DEF BInv, NameInv, PoolEffects
  <2>2. /\ Landed("dispatch")' = Landed("dispatch") \cup {r} /\ Landed("swap")' = Landed("swap")
        /\ Cardinality(Landed("dispatch")') = Cardinality(Landed("dispatch")) + 1
    BY <1>1, <1>3, <1>8, <1>10, LandedGrows
  <2>3. ~Open /\ Open' /\ ~SwapLanded'
    <3>1. ~CauseLanded /\ CauseLanded'
      BY <1>1, <1>3, <2>1, <2>2 DEF CauseLanded, Landed
    <3>2. ~SwapLanded'
      BY <1>0, <1>1, <2>1, <2>2, IdsOfTransactions DEF SwapLanded, Landed
    <3> QED
      BY <3>1, <3>2 DEF Open
  <2>4. Owed' = Owed + 1
    BY <1>9, <2>2 DEF Owed
  <2>5. Book'
    BY <1>9, <2>3, <2>4 DEF BInv, Book
  <2>6. Known'
    BY <1>1, <1>2, <2>1, <2>3 DEF Known
  <2> QED
    BY <1>5, <1>6, <1>7, <2>5, <2>6 DEF BInv
<1>11. CASE ok /\ t.effect = "swap"
  <2>1. t.id = obligation.swap /\ CauseLanded
    BY <1>11 DEF BInv, NameInv, PoolEffects
  <2>2. /\ Landed("swap")' = Landed("swap") \cup {r} /\ Landed("dispatch")' = Landed("dispatch")
        /\ Cardinality(Landed("swap")') = Cardinality(Landed("swap")) + 1
    BY <1>1, <1>3, <1>8, <1>11, LandedGrows
  <2>3. Open /\ ~Open'
    BY <1>1, <1>3, <1>4, <2>1, <2>2 DEF Open, SwapLanded, Landed
  <2>4. Owed' = Owed - 1
    BY <1>9, <2>2 DEF Owed
  <2>5. Book'
    BY <1>9, <2>3, <2>4 DEF BInv, Book
  <2>6. Known'
    BY <1>1, <1>2, <2>1, <2>3 DEF Known
  <2> QED
    BY <1>5, <1>6, <1>7, <2>5, <2>6 DEF BInv
<1>12. CASE ~(ok /\ t.effect \in {"dispatch", "swap"})
  <2>1. Landed("swap")' = Landed("swap") /\ Landed("dispatch")' = Landed("dispatch")
    BY <1>1, <1>3, <1>8, <1>12, LandedGrows
  <2>2. (Open' <=> Open) /\ (SwapLanded' <=> SwapLanded) /\ Owed' = Owed
    BY <1>1, <2>1 DEF Open, CauseLanded, SwapLanded, Owed
  <2> QED
    BY <1>1, <1>5, <1>6, <1>7, <1>9, <2>2 DEF BInv, Book, Known
<1> QED
  BY <1>10, <1>11, <1>12

LEMMA EnvironmentBInv ==
  ASSUME AllAnswered, BInv, CInv', FInv', LInv', Environment, Orderly PROVE BInv'
<1> USE DEF Goto, At
<1>0. TInv /\ GInv
  BY BInvTypes
<1>1. CASE NewBlock \/ SpendElsewhere \/ Evict
  <2>1. UNCHANGED <<intents, nextId, active, pc, op, obligation, mined, recovery>>
    BY <1>1 DEF NewBlock, Tick, SpendElsewhere, Evict, journalVars, botVars
  <2>2. \A t \in pool' : \E u \in pool : u.id = t.id /\ u.effect = t.effect /\ u.try = t.try
    <3>1. pool \subseteq Tx
      BY <1>0 DEF TInv, BotTypeOK
    <3> QED
      BY <1>1, <3>1 DEF NewBlock, SpendElsewhere, SpendNonce, Evict, Tx
  <2>3. NoLanding' /\ Resting'
    BY <2>1 DEF BInv, SendInv, NoLanding, Resting, Current, HasPendingIntent, Pending
  <2> QED
    BY <2>1, <2>2, <2>3, BookMoves
<1>2. CASE AbortSend
  <2>1. /\ UNCHANGED <<intents, nextId, active, recovery, op, obligation, pool, mined>>
        /\ pc = "prepare" /\ pc' = "error"
    BY <1>2 DEF AbortSend, journalVars, chainVars
  <2>2. NoLanding'
    <3> SUFFICES ASSUME NEW e \in Current PROVE \A r \in mined : r.id # e.id
      BY <2>1 DEF NoLanding, Current
    <3>1. e \in Pending /\ e.attempts = 0 /\ e.rejected \in Nat
      BY <1>0, <2>1, CurrentIsPending, PendingFields DEF Current, GInv, FirstSendIsFresh, Unsent
    <3> QED
      BY <2>1, <3>1, RejectedNotLanded
  <2>3. Resting'
    BY <2>1 DEF Resting
  <2> QED
    BY <2>1, <2>2, <2>3, BookMoves DEF SendLoc, Sendable
<1>3. CASE RecoveryFails
  <2>1. /\ UNCHANGED <<intents, nextId, active, op, obligation, pool, mined>>
        /\ recovery' = "off" /\ pc \in {"init", "cycle"}
        /\ pc' = (IF pc = "init" THEN "down" ELSE "idle")
    BY <1>0, <1>3 DEF RecoveryFails, RecoverAbort, chainVars, TInv, RecoveryIsExclusive
  <2>2. NoLanding' /\ Resting'
    BY <2>1 DEF NoLanding, Resting, BInv, SendInv
  <2> QED
    BY <2>1, <2>2, BookMoves DEF SendLoc, Sendable
<1>4. CASE Crash
  <2>1. /\ UNCHANGED <<intents, nextId, obligation, pool, mined>>
        /\ recovery' = "off" /\ pc' = "down" /\ pc # "record"
    BY <1>4 DEF Crash, LoseMemory, chainVars, Orderly
  <2>2. NoLanding' /\ Resting'
    BY <2>1 DEF NoLanding, Resting
  <2> QED
    BY <2>1, <2>2, BookMoves DEF SendLoc, Sendable
<1>5. ~ReceiptRpcFails
  BY DEF ReceiptRpcFails, AllAnswered, Answered
<1> QED
  BY <1>1, <1>2, <1>3, <1>4, <1>5, MineBInv DEF Environment

LEMMA InitBInv == ASSUME Init PROVE BInv
<1>1. /\ pool = {} /\ mined = {} /\ intents = {} /\ pc = "down" /\ obligation = NoObligation
      /\ nextId = 1 /\ op = "none"
  BY DEF Init, JournalInit
<1>2. Landed("dispatch") = {} /\ Landed("swap") = {} /\ Pending = {} /\ Current = {}
  BY <1>1 DEF Landed, Pending, Current
<1>3. ~Open /\ ~SwapLanded /\ Owed = 0 /\ IsFiniteSet(mined)
  BY <1>1, <1>2, FS_EmptySet DEF Open, CauseLanded, SwapLanded, Owed
<1>4. SendInv
  BY <1>1, <1>2
     DEF SendInv, HashesRecorded, NoReceiptSeen, NoLanding, Resting, PlansUnowing, SwapSends,
         SendLoc, Sendable
<1>5. NameInv
  BY <1>1, <1>2
     DEF NameInv, PoolEffects, NamesSwap, NamesActions, PendingIsNewest, PendingIsNamed
<1> QED
  BY <1>1, <1>3, <1>4, <1>5, InitFInv, InitCInv, InitLInv
     DEF BInv, Book, LinkIsOpen, ClearIsShut, Known

LEMMA NextBInv == ASSUME AllAnswered, BInv, [Next /\ Orderly]_vars PROVE BInv'
<1>1. CInv' /\ FInv' /\ LInv'
  BY NextCInv, NextFInv, NextLInv, BInvTypes DEF BInv, AllAnswered, Orderly
<1>2. CASE UNCHANGED vars
  <2>1. UNCHANGED <<intents, nextId, active, recovery, pc, op, obligation, pool, mined>>
    BY <1>2 DEF vars, journalVars, botVars, chainVars
  <2>2. NoLanding' /\ Resting'
    BY <2>1 DEF BInv, SendInv, NoLanding, Resting, Current, HasPendingIntent, Pending
  <2> QED
    BY <1>1, <2>1, <2>2, BookMoves
<1> QED
  BY <1>1, <1>2, RecoveringBInv, PlanningBInv, SendingBInv, SettlingBInv, EnvironmentBInv DEF Next

LEMMA BInvHolds == ASSUME AllAnswered PROVE OrderlySpec => []BInv
BY InitBInv, NextBInv, PTL DEF OrderlySpec

-----------------------------------------------------------------------------
(***************************************************************************)
(* What follows for the pair, and for the protocol.                        *)
(***************************************************************************)

\* While it is answered, outside the four windows of Orderly, a landed dispatch
\* whose swap has not landed is named by the durable obligation: no crash, no
\* failed, rejected, reverted or evicted transaction and no abandoned recovery
\* makes the keeper forget the swap it owes.
THEOREM ObligationIsKept == ASSUME AllAnswered PROVE OrderlySpec => []ObligationKept
<1>1. BInv => ObligationKept
  BY DEF BInv, Book, Open, CauseLanded, ObligationKept
<1> QED
  BY <1>1, BInvHolds, PTL

\* No obligation is discharged twice, before or after a restart, nor one whose
\* dispatch failed: outside the windows of Orderly, the one in which a cycle
\* cannot remove such an obligation among them, the book never holds more landed
\* swaps than dispatches.
THEOREM SwapsOnce == ASSUME AllAnswered PROVE OrderlySpec => []SwapOnce
<1>1. BInv => SwapOnce
  BY DEF BInv, Book, SwapOnce
<1> QED
  BY <1>1, BInvHolds, PTL

\* A new plan, or a relayed transaction of the owners, is first sent on a
\* balanced book.
THEOREM PlansOnBalancedBook == ASSUME AllAnswered PROVE OrderlySpec => []PlansWhenBalanced
<1>1. ASSUME BInv, pc = "broadcast", op \in {"hedge", "dispatch", "relay"},
             NEW e \in Current, e.attempts = 1
      PROVE  Owed <= 0
  <2>1. e \in Pending /\ e.id = active /\ e.rejected \in Nat
    BY <1>1, BInvTypes, CurrentIsPending, PendingFields DEF Current
  <2>2. \A r \in mined : r.id # e.id
    BY <1>1, <2>1, RejectedNotLanded
  <2>3. op = "dispatch" => ~CauseLanded
    BY <1>1, <2>1, <2>2 DEF BInv, CInv, DispatchSends, SendLoc, Sendable, CauseLanded, Landed
  <2>4. op # "dispatch" => ~CauseLanded
    BY <1>1, BInvTypes, NoObligationIsShut DEF BInv, SendInv, PlansUnowing, SendLoc, Sendable
  <2> QED
    BY <1>1, <2>3, <2>4 DEF BInv, Book, Open
<1>2. BInv => PlansWhenBalanced
  BY <1>1 DEF PlansWhenBalanced
<1> QED
  BY <1>2, BInvHolds, PTL

\* Intents with a transaction that may still be mined, and with a receipt.
Live == {t.id : t \in pool}
Done == {r.id : r \in mined}

\* Every step of hedge execution is a step of the protocol, or a stutter.
LEMMA NextImplements ==
  ASSUME BInv, BInv', [Next]_vars PROVE [Abstract!Next]_(Abstract!vars)
<1>0. TInv /\ GInv /\ Owed \in {0, 1} /\ Owed' \in {0, 1}
  BY BInvTypes DEF BInv, Book
<1>1. \A i, j \in Live : i = j
  BY <1>0, PendingFields DEF Live, BInv, FInv, Fence
<1>2. CASE Mine
  <2> PICK t \in pool, ok \in BOOLEAN :
           /\ t.nonce = chainNonce
           /\ mined' = mined \cup {[id |-> t.id, try |-> t.try, effect |-> t.effect, ok |-> ok]}
           /\ pool' = {u \in pool : u.nonce > chainNonce}
    BY <1>0, <1>2, MineShape
  <2>1. PICK e \in Pending : e.id = t.id /\ Pending = {e}
    BY <1>0, PendingFields DEF BInv, FInv, Fence
  <2>2. \A u \in pool : u.nonce = t.nonce
    BY <1>0, <2>1, TransactionsOf DEF BInv, FInv, Fence
  <2>3. pool' = {}
    BY <1>0, <2>2 DEF TInv, BotTypeOK
  <2>4. Live = {t.id} /\ Live' = {}
    BY <1>1, <2>3 DEF Live
  <2> DEFINE r == [id |-> t.id, try |-> t.try, effect |-> t.effect, ok |-> ok]
  <2>7. mined' = mined \cup {r} /\ r.id = t.id
    OBVIOUS
  <2> HIDE DEF r
  <2>8. Done' = Done \cup {t.id}
    BY <2>7 DEF Done
  <2>5. t.id \in 1..MaxIntents
    BY <1>0 DEF TInv, BotTypeOK, Tx
  <2>6. Abstract!Land(t.id)
    BY <1>0, <2>4, <2>8 DEF Abstract!Land, Live, Done
  <2> QED
    BY <2>5, <2>6 DEF Abstract!Next
<1>3. CASE UNCHANGED mined
  <2>1. Done' = Done /\ Owed' = Owed
    BY <1>3 DEF Done, Owed, Landed
  <2>2. CASE Live' = Live
    BY <2>1, <2>2 DEF Abstract!vars, Live, Done
  <2>3. CASE Live' = {}
    BY <2>1, <2>3 DEF Abstract!Next, Abstract!Die, Live, Done
  <2>4. CASE Live' # Live /\ Live' # {}
    <3>1. \A i, j \in Live' : i = j
      <4>1. Fence' /\ OnePending'
        BY DEF BInv, FInv, GInv, TInv, JInv
      <4> QED
        BY <4>1 DEF Live, Fence, OnePending
    <3>2. PICK t \in pool' : t.id \notin Live
      BY <1>1, <2>4, <3>1 DEF Live
    <3>3. PICK e \in Current : /\ t = NewTx(e) /\ e.nonce >= chainNonce
                               /\ pc = "broadcast"
      BY <1>0, <3>2, PoolGrowth DEF Live
    <3>4. e \in intents /\ Pending = {e} /\ t.id = e.id
      BY <1>0, <3>3, CurrentIsPending DEF Current, NewTx
    <3>5. Live' = {e.id} /\ Live \subseteq {e.id}
      BY <3>1, <3>2, <3>4 DEF Live, BInv, FInv, Fence
    <3>6. e.id \notin Done
      BY <1>0, <3>3, <3>4 DEF Done, GInv, MinedIsSpent, TInv, BotTypeOK, JInv, JournalTypeOK, Entry, NoNonce
    <3>7. e.id \in 1..MaxIntents
      BY <1>0, <3>4 DEF TInv, JInv, JournalTypeOK, Entry
    <3>8. Abstract!Send(e.id)
      BY <2>1, <3>5, <3>6 DEF Abstract!Send, Live, Done
    <3> QED
      BY <3>7, <3>8 DEF Abstract!Next
  <2> QED
    BY <2>2, <2>3, <2>4
<1> QED
  BY <1>2, <1>3, OnlyMineLands

LEMMA InitImplements == ASSUME Init PROVE Abstract!Init
<1>1. pool = {} /\ mined = {}
  BY DEF Init
<1>2. Landed("dispatch") = {} /\ Landed("swap") = {}
  BY <1>1 DEF Landed
<1> QED
  BY <1>1, <1>2, FS_EmptySet DEF Abstract!Init, Owed

\* Hedge execution implements its protocol: transactions of one intent at a
\* time can land, each intent lands once, and dispatches and the swaps that
\* balance them alternate, whatever the number of intents, replacements,
\* crashes, reverts, evictions, foreign nonces and abandoned recoveries, outside
\* the windows of Orderly.
THEOREM ProtocolImplemented == ASSUME AllAnswered PROVE OrderlySpec => ImplementsProtocol
<1>1. Init => Abstract!Init
  BY InitImplements
<1>2. BInv /\ BInv' /\ [Next]_vars => [Abstract!Next]_(Abstract!vars)
  BY NextImplements
<1> QED
  BY <1>1, <1>2, BInvHolds, PTL DEF OrderlySpec, ImplementsProtocol, Abstract!Spec
-----------------------------------------------------------------------------
(***************************************************************************)
(* A keeper that does not die and can remove its obligation file, with no  *)
(* block between two rounds of recover(), never leaves the orderly steps.  *)
(***************************************************************************)

Steady == AllAnswered /\ Faults \cap {"crash", "mineDuringRecovery", "clearFails"} = {}

\* The only start is the first one, on an empty journal.
FirstStart == pc \in {"down", "init", "initReconcile"} => intents = {}

LEMMA SteadyStep ==
  ASSUME Steady, GInv, FirstStart, [Next]_vars PROVE FirstStart' /\ [Next /\ Orderly]_vars
<1> USE DEF At, Goto, botVars, vars, journalVars
<1>1. pc = "init" => recovery = "off"
  BY DEF FirstStart, GInv, TInv, RecoveryIsExclusive, HasPendingIntent, Pending
<1>2. ~Crash /\ (recovery = "nonce" => ~Mine)
  BY DEF Crash, Mine, ChainMayMove, Steady
<1>3. pc' \in {"down", "init", "initReconcile"} =>
        \/ UNCHANGED <<pc, intents>>
        \/ pc = "down" /\ UNCHANGED intents
        \/ pc = "init" /\ intents' \subseteq intents
  <2>1. CASE RecoveryReceipts \/ RecoveryNonce \/ RecoveryMempool
    BY <1>1, <2>1, RecoveryRound
  <2>2. CASE NothingToRecover
    BY <2>2, PrunedKeepsPending DEF NothingToRecover
  <2>3. CASE RecoveryFails
    BY <1>1, <2>3 DEF RecoveryFails, RecoverAbort
  <2>4. CASE BeginHedge \/ BeginSwapRecovery \/ BeginSwap \/ BeginRelay
    BY <2>4 DEF BeginHedge, BeginSwapRecovery, BeginSwap, BeginRelay
  <2>5. CASE Sending
    BY <2>5 DEF Sending, PinNonce, RecordAttempt, BroadcastAccepted, RecordHash, BroadcastRejected,
                BroadcastNonceSpent, BroadcastUnanswered, BroadcastAlreadyKnown, ReceiptFound,
                NonceSpentElsewhere, Bump, NotMined
  <2>6. CASE Settling
    BY <2>6, ClearShape DEF Settling, ConfirmSend, RelayReverted, FailSend
  <2>7. CASE Reconcile \/ ClearConfirmedSwap
    BY <2>7, ReconcileShape, ClearShape DEF Steady
  <2> QED
    BY <1>2, <2>1, <2>2, <2>3, <2>4, <2>5, <2>6, <2>7
       DEF Next, Start, StartCycle, Recovering, StartRecovery, RecoverStart, NothingPending,
           Planning, EndCycle, SaveObligation, LinkObligation, Environment,
           NewBlock, Tick, Mine, SpendElsewhere, Evict, AbortSend, ReceiptRpcFails
<1>4. FirstStart'
  BY <1>3 DEF FirstStart
<1>5. recovery = "nonce" => UNCHANGED mined
  BY <1>2, OnlyMineLands
<1>6. pc = "initReconcile" => Pending = {}
  BY DEF FirstStart, Pending
<1>7. Withdrawn
  BY RemovalWithdraws DEF Steady, GInv
<1>8. pc = "record" => pc' # "down"
  BY <1>3
<1>9. Orderly
  BY <1>5, <1>6, <1>7, <1>8 DEF Orderly
<1> QED
  BY <1>4, <1>9

LEMMA SteadyIsOrderly == ASSUME Steady PROVE Spec => OrderlySpec
<1>1. Steady
  OBVIOUS
<1>2. Init => GInv /\ FirstStart
  BY InitGInv DEF Init, JournalInit, FirstStart
<1>3. GInv /\ FirstStart /\ [Next]_vars => (GInv /\ FirstStart)' /\ [Next /\ Orderly]_vars
  BY <1>1, NextGInv, SteadyStep
<1> QED
  BY <1>2, <1>3, PTL DEF Spec, OrderlySpec

\* The same protocol is implemented without any restriction on the steps, while
\* the process lives, the obligation file can be removed, and no block comes
\* between two rounds of recover().
THEOREM ProtocolWhileAlive == ASSUME Steady PROVE Spec => ImplementsProtocol
<1>1. AllAnswered
  BY DEF Steady
<1> QED
  BY <1>1, SteadyIsOrderly, ProtocolImplemented
=============================================================================
