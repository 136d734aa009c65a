---------------------------- MODULE HedgeJournal ----------------------------
(***************************************************************************)
(* The durable write-ahead journal of src/runtime/hedgeJournal.ts.         *)
(*                                                                         *)
(* Every transaction the keeper sends for the Safe is preceded by an       *)
(* intent.  At most one intent is pending; while it is, nothing else may   *)
(* be planned.  recover() settles a pending intent from what the chain and *)
(* the RPC mempools show.                                                  *)
(*                                                                         *)
(* intents is the array of journal entries.  Entries are only ever pushed  *)
(* at the end, so the order of the array is the order of the ids and a set *)
(* of entries loses nothing.  A transaction hash is the number of the      *)
(* broadcast attempt it came from; sender, target and calldata are those   *)
(* of the one send() that owns the intent, so the nonce stands for the     *)
(* whole immutable identity.  Block heights enter the code only as         *)
(* differences, so the model keeps the differences: age is the number of   *)
(* blocks since submittedAtBlock of the pending intent, absent says whether*)
(* the all-absent observation of the pending intent was made in this block *)
(* or in an earlier one.                                                   *)
(*                                                                         *)
(* recover() reads the receipts, then the nonce, then the mempools, in     *)
(* three RPC rounds: recovery says which round comes next.                 *)
(***************************************************************************)
EXTENDS Integers, FiniteSets

CONSTANTS
  MaxIntents,        \* bound: intents begun in a behaviour
  MaxAttempts,       \* bound: broadcasts of one intent
  NonceStallBlocks   \* nonceStallBlocks: the recovery window, in blocks

ASSUME BoundsAssumption == MaxIntents \in Nat /\ MaxAttempts \in Nat

ASSUME StallAssumption == NonceStallBlocks \in Nat

VARIABLES
  intents,   \* data.intents, durable
  nextId,    \* the next randomUUID()
  active,    \* activeIntentId, lost at a restart
  age,       \* blocks since the pending intent was submitted, saturated
  absent,    \* absentAtBlock of the pending intent, lost at a restart
  recovery,  \* where a running recover() stands
  stalled    \* the age recover() computed from the head it read first

journalVars == <<intents, nextId, active, age, absent, recovery, stalled>>

-----------------------------------------------------------------------------

NoId    == 0
NoNonce == -1

\* "hedge" stands for the dispatches, collateral swaps, redeposits and burns,
\* which the journal does not tell apart.
Action == {"hedge", "sfpm_swap", "safe_relay"}

Entry == [id       : 1..MaxIntents,
          action   : Action,
          nonce    : Nat \cup {NoNonce},
          attempts : 0..MaxAttempts,
          rejected : 0..MaxAttempts,
          hashes   : SUBSET (1..MaxAttempts),
          status   : {"pending", "confirmed"}]

NewEntry(id, a) == [id |-> id, action |-> a, nonce |-> NoNonce, attempts |-> 0,
                    rejected |-> 0, hashes |-> {}, status |-> "pending"]

JournalTypeOK ==
  /\ intents \subseteq Entry
  /\ nextId \in 1..(MaxIntents + 1)
  /\ active \in 0..MaxIntents
  /\ age \in 0..NonceStallBlocks
  /\ absent \in {"never", "thisBlock", "earlier"}
  /\ recovery \in {"off", "receipts", "nonce", "mempool"}
  /\ stalled \in BOOLEAN

Pending   == {e \in intents : e.status = "pending"}
Confirmed == {e \in intents : e.status = "confirmed"}

HasPendingIntent == Pending # {}

\* The confirmed entry nearest the end of the array, as a set of at most one.
Latest(S) == {e \in S : /\ e.status = "confirmed"
                        /\ \A f \in S : f.status = "confirmed" => f.id <= e.id}

CheckpointOf(id)     == \E e \in Latest(intents) : e.id = id
CheckpointIsSwap(id) == \E e \in Latest(intents) : e.action = "sfpm_swap" /\ e.id = id

\* Every attempt has left a hash or an explicit rejection.
OutcomesKnown(e) == Cardinality(e.hashes) + e.rejected = e.attempts

\* pruneTerminalIntents keeps the pending entries, the latest confirmed one
\* and those confirmed within confirmedRecheckBlocks.  The heights of older
\* confirmations are abstracted: any of them may be past the window.
Pruned(S) ==
  {S \ old : old \in SUBSET {e \in S : e.status = "confirmed" /\ e \notin Latest(S)}}

Replaced(e, f) == (intents \ {e}) \cup {f}
-----------------------------------------------------------------------------
(***************************************************************************)
(* Operations the executors call.                                          *)
(***************************************************************************)

\* Mutant of Begin: does not look for a pending intent.
BeginUnguarded(a) ==
  /\ nextId <= MaxIntents
  /\ intents' = intents \cup {NewEntry(nextId, a)}
  /\ active' = nextId
  /\ nextId' = nextId + 1
  /\ UNCHANGED <<age, absent, recovery, stalled>>

\* begin(): refuses while any intent is pending.
Begin(a) ==
  /\ ~HasPendingIntent
  /\ nextId <= MaxIntents
  /\ intents' = intents \cup {NewEntry(nextId, a)}
  /\ active' = nextId
  /\ nextId' = nextId + 1
  /\ UNCHANGED <<age, absent, recovery, stalled>>

\* observeTransaction(): the first call fixes the identity, later calls must
\* repeat it; the hash list is replaced by hs.
ObserveTransaction(n, hs) ==
  /\ \E e \in intents :
       /\ e.id = active
       /\ e.nonce \in {NoNonce, n}
       /\ intents' = Replaced(e, [e EXCEPT !.nonce = n, !.hashes = hs])
       /\ age' = IF e.nonce = NoNonce THEN 0 ELSE age
  /\ UNCHANGED <<nextId, active, absent, recovery, stalled>>

\* recordBroadcastAttempt(): durable marker ahead of each broadcast.
RecordBroadcastAttempt ==
  /\ \E e \in intents :
       /\ e.id = active
       /\ e.nonce # NoNonce
       /\ e.attempts < MaxAttempts
       /\ intents' = Replaced(e, [e EXCEPT !.attempts = @ + 1])
  /\ UNCHANGED <<nextId, active, age, absent, recovery, stalled>>

\* recordBroadcastRejection(): resolves the latest marker.
RecordBroadcastRejection ==
  /\ \E e \in intents :
       /\ e.id = active
       /\ Cardinality(e.hashes) + e.rejected < e.attempts
       /\ intents' = Replaced(e, [e EXCEPT !.rejected = @ + 1])
  /\ UNCHANGED <<nextId, active, age, absent, recovery, stalled>>

\* What confirm() and fail() do to entry e.
ConfirmEntry(e) ==
  /\ intents' \in Pruned(Replaced(e, [e EXCEPT !.status = "confirmed"]))
  /\ active' = NoId
  /\ absent' = "never"

\* Mutant of FailEntry: marks the entry, as version 1 of the file did.
FailEntryMarked(e) ==
  /\ intents' = Replaced(e, [e EXCEPT !.status = "failed"])
  /\ active' = NoId
  /\ absent' = "never"

FailEntry(e) ==
  /\ intents' = intents \ {e}
  /\ active' = NoId
  /\ absent' = "never"

Confirm(h) ==
  /\ \E e \in intents : e.id = active /\ h \in e.hashes /\ ConfirmEntry(e)
  /\ UNCHANGED <<nextId, age, recovery, stalled>>

Fail ==
  /\ \E e \in intents : e.id = active /\ FailEntry(e)
  /\ UNCHANGED <<nextId, age, recovery, stalled>>
-----------------------------------------------------------------------------
(***************************************************************************)
(* recover(), one RPC round per action.  The caller supplies what the      *)
(* round returned.  A pass that ends without settling the pending intent   *)
(* holds it.                                                               *)
(***************************************************************************)

RecoverStart ==
  /\ recovery = "off"
  /\ HasPendingIntent
  /\ recovery' = "receipts"
  /\ stalled' = (age = NonceStallBlocks)
  /\ UNCHANGED <<intents, nextId, active, age, absent>>

\* fail() inside recover(), and the prune that ends the pass.
Drop(e) ==
  /\ intents' \in Pruned(intents \ {e})
  /\ active' = NoId
  /\ absent' = "never"

Hold == intents' \in Pruned(intents) /\ UNCHANGED active

\* Receipts of the recorded hashes: "success", "reverted" or "none".
RecoverReceipts(r) ==
  /\ recovery = "receipts"
  /\ \E e \in Pending :
       LET neverBroadcast == e.attempts = 0 \/ e.nonce = NoNonce
           allRejected    == e.hashes = {} /\ e.rejected = e.attempts
       IN \/ r = "success" /\ e.hashes # {} /\ ConfirmEntry(e) /\ recovery' = "off"
          \/ r = "reverted" /\ e.hashes # {} /\ Drop(e) /\ recovery' = "off"
          \/ r = "none" /\ (neverBroadcast \/ allRejected) /\ Drop(e) /\ recovery' = "off"
          \/ /\ r = "none" /\ ~neverBroadcast /\ ~allRejected
             /\ recovery' = "nonce"
             /\ UNCHANGED <<intents, active, absent>>
  /\ UNCHANGED <<nextId, age, stalled>>

\* The sender's nonce: a spent one drops the entry whatever landed on it.
RecoverNonce(spent) ==
  /\ recovery = "nonce"
  /\ \E e \in Pending :
       \/ spent /\ Drop(e) /\ recovery' = "off"
       \/ ~spent /\ ~stalled /\ Hold /\ recovery' = "off" /\ UNCHANGED absent
       \/ ~spent /\ stalled /\ ~OutcomesKnown(e) /\ Hold /\ recovery' = "off" /\ absent' = "never"
       \/ /\ ~spent /\ stalled /\ OutcomesKnown(e)
          /\ recovery' = "mempool"
          /\ UNCHANGED <<intents, active, absent>>
  /\ UNCHANGED <<nextId, age, stalled>>

\* Mutant of RecoverMempool: one observation is enough.
RecoverMempoolOnce(visible) ==
  /\ recovery = "mempool"
  /\ recovery' = "off"
  /\ \E e \in Pending :
       \/ visible /\ Hold /\ absent' = "never"
       \/ ~visible /\ Drop(e)
  /\ UNCHANGED <<nextId, age, stalled>>

\* Mutant of RecoverMempool: every pass restarts the proof of absence.
RecoverMempoolRestarting(visible) ==
  /\ recovery = "mempool"
  /\ recovery' = "off"
  /\ \E e \in Pending :
       \/ visible /\ Hold /\ absent' = "never"
       \/ ~visible /\ absent = "earlier" /\ Hold /\ absent' = "thisBlock"
       \/ ~visible /\ absent # "earlier" /\ Hold /\ absent' = "thisBlock"
  /\ UNCHANGED <<nextId, age, stalled>>

\* The observers' mempools: absent from all of them twice, in two blocks,
\* releases the nonce.
RecoverMempool(visible) ==
  /\ recovery = "mempool"
  /\ recovery' = "off"
  /\ \E e \in Pending :
       \/ visible /\ Hold /\ absent' = "never"
       \/ ~visible /\ absent = "earlier" /\ Drop(e)
       \/ ~visible /\ absent # "earlier" /\ Hold /\ absent' = "thisBlock"
  /\ UNCHANGED <<nextId, age, stalled>>

\* An RPC error propagates out of recover() and leaves the journal alone.
RecoverAbort ==
  /\ recovery # "off"
  /\ recovery' = "off"
  /\ UNCHANGED <<intents, nextId, active, age, absent, stalled>>
-----------------------------------------------------------------------------
(***************************************************************************)
(* What happens to the journal from outside.                               *)
(***************************************************************************)

\* The process dies: the file survives, the object's fields do not.
LoseMemory ==
  /\ active' = NoId
  /\ absent' = "never"
  /\ recovery' = "off"
  /\ UNCHANGED <<intents, nextId, age, stalled>>

\* A new head.
Tick ==
  /\ age' = IF age < NonceStallBlocks THEN age + 1 ELSE age
  /\ absent' = IF absent = "thisBlock" THEN "earlier" ELSE absent
  /\ UNCHANGED <<intents, nextId, active, recovery, stalled>>

JournalInit ==
  /\ intents = {}
  /\ nextId = 1
  /\ active = NoId
  /\ age = 0
  /\ absent = "never"
  /\ recovery = "off"
  /\ stalled = FALSE
=============================================================================
