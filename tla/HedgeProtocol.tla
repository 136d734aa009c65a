---------------------------- MODULE HedgeProtocol ----------------------------
(***************************************************************************)
(* What hedge execution promises, whatever the sender, the journal, the    *)
(* nodes and the chain do in between:                                      *)
(*                                                                         *)
(*   - transactions of one intent only are able to land at a time;         *)
(*   - an intent lands at most once;                                       *)
(*   - off-venue dispatches and the swaps that balance them alternate.     *)
(***************************************************************************)
EXTENDS Integers

CONSTANT Intents

VARIABLES
  live,   \* intents with a transaction that may still be mined
  done,   \* intents with a mined transaction
  owed    \* landed dispatches whose swap has not landed

vars == <<live, done, owed>>

Init == live = {} /\ done = {} /\ owed = 0

\* First broadcast, replacement, or rebroadcast of an intent's transaction.
Send(i) ==
  /\ live \subseteq {i}
  /\ i \notin done
  /\ live' = {i}
  /\ UNCHANGED <<done, owed>>

\* No node remembers the transaction, or its nonce was spent by another one.
Die ==
  /\ live' = {}
  /\ UNCHANGED <<done, owed>>

\* A transaction is mined: without effect on the balance of the book, as a
\* dispatch on a balanced book, or as the swap that balances it.
Land(i) ==
  /\ live = {i}
  /\ live' = {}
  /\ done' = done \cup {i}
  /\ \/ owed' = owed
     \/ owed = 0 /\ owed' = 1
     \/ owed = 1 /\ owed' = 0

Next == Die \/ \E i \in Intents : Send(i) \/ Land(i)

Spec == Init /\ [][Next]_vars
=============================================================================
