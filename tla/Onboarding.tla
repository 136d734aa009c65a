----------------------------- MODULE Onboarding -----------------------------
(***************************************************************************)
(* Onboarding, resuming, repairing and discarding a setup                  *)
(* (scripts/setup.ts, scripts/lib/deployCore.ts and existingSafe.ts,       *)
(* scripts/onboardCleanup.ts), beside everything of RuntimeGate.           *)
(*                                                                         *)
(* The terminal op walks through one session at a time.  A step is one     *)
(* write of a file, one transaction, or one answer from the chain or the   *)
(* owner, and the session may end before any of them: a refusal, an error, *)
(* a timeout or a crash leave the files and the mempool as they are.  What *)
(* a session knows is mem; deploy-state.json is the part of it that a      *)
(* resume finds.                                                           *)
(*                                                                         *)
(* One Safe; the address a random salt gives is the next unused one; a     *)
(* second key appears only while nothing has been granted to the first.    *)
(***************************************************************************)
EXTENDS RuntimeGate

CONSTANTS
    Old,        \* a modifier that an existing Safe may have already
    Keys,       \* the keys the operator can generate or import
    ForceFlag,  \* onboard runs with --force
    MaxRuns,    \* bound on the sessions the operator starts
    MaxFlight   \* bound on the transactions in the mempool

ASSUME OnboardingAssumption ==
    /\ Old \in Modifiers
    /\ Keys # {} /\ NoKey \notin Keys
    /\ ForceFlag \in BOOLEAN
    /\ {MaxRuns, MaxFlight} \subseteq Nat

VARIABLES
    state,      \* deploy-state.json
    mem,        \* what the session at the terminal knows
    flight,     \* the bot's transactions in the mempool, by nonce
    landed,     \* the session has the receipt of the one it waits for
    funded,     \* history: the keys that were sent funds
    discarded,  \* history: the keys the operator agreed to destroy
    proposals,  \* the batches exported for the owner
    runs        \* the sessions started

setupVars == <<state, mem, flight, landed, funded, discarded, proposals, runs>>
vars == <<chainVars, gateVars, setupVars>>

gate == <<kill, marker, bot, candidate, deact, approved, quiet>>
ledger == <<funded, discarded, proposals, runs>>

\* stale and prev, the modifier to disable and its predecessor, and repair
\* are of the session only.
NoState ==
    [existing |-> FALSE, storage |-> "none", key |-> NoKey, safe |-> FALSE,
     modifier |-> NoModifier, salt |-> NoModifier,
     stale |-> NoModifier, prev |-> NoModifier, repair |-> FALSE]

Persisted(m) == [m EXCEPT !.stale = NoModifier, !.prev = NoModifier]

\* Nothing set up yet, with or without a Safe of the user's; or a setup that
\* is complete, on the modifier that was there.
NothingSetUp ==
    /\ \/ safe = NoSafe
       \/ \E modules \in {<<>>, <<Old>>} : safe = [owner |-> "user", modules |-> modules, approvals |-> FALSE]
    /\ \E old \in {Empty, Reviewed, [Reviewed EXCEPT !.stray = TRUE], [Reviewed EXCEPT !.dispatch = "all"]} :
          grants = [m \in Modifiers |-> IF m = Old THEN old ELSE Empty]
    /\ env = NoEnv /\ keystore = NoKey /\ funded = {}

SetUp ==
    /\ safe = [owner |-> "user", modules |-> <<Old>>, approvals |-> TRUE]
    /\ grants = [m \in Modifiers |-> IF m = Old THEN Reviewed ELSE Empty]
    /\ env = [modifier |-> Old, sfpm |-> FALSE, dry |-> TRUE, storage |-> "keystore", key |-> NoKey]
    /\ keystore = CHOOSE k \in Keys : TRUE
    /\ funded = {keystore}

Init ==
    /\ NothingSetUp \/ SetUp
    /\ deployed = {Old}
    /\ kill = FALSE /\ marker = NoPolicy
    /\ bot = Off /\ op = "idle" /\ candidate = NoCandidate /\ deact = "idle"
    /\ approved = {} /\ quiet = FALSE
    /\ state = NoState /\ mem = NoState /\ flight = <<>> /\ landed = FALSE
    /\ discarded = {} /\ proposals = {} /\ runs = 0

\* A session ends; whoever waited for a transaction no longer does.
Forgotten(txs) == [i \in DOMAIN txs |-> [txs[i] EXCEPT !.awaited = FALSE]]

Done ==
    /\ op' = "idle" /\ mem' = NoState /\ landed' = FALSE
    /\ flight' = Forgotten(flight)

-----------------------------------------------------------------------------
(* Starting a session.                                                     *)

Started == op = "idle" /\ runs < MaxRuns /\ runs' = runs + 1

\* The address that a fresh salt will give.
FreshAddress ==
    LET pending == {flight[i].modifier : i \in DOMAIN flight} \cup {state.salt}
        unused  == Modifiers \ (deployed \cup pending)
    IN IF unused = {} THEN NoModifier ELSE CHOOSE m \in unused : TRUE

\* A second key must not inherit what was granted to the first.
FreshKeys ==
    LET used    == ({keystore} \cup discarded \cup funded) \ {NoKey}
        granted == proposals # {} \/ \E m \in Modifiers : grants[m].member
    IN IF used # {} /\ granted THEN {} ELSE Keys \ used

\* The key of the keystore, or a new one stored one way or the other.
Signers ==
    (IF keystore = NoKey THEN {} ELSE {[storage |-> "keystore", key |-> keystore]})
    \cup [storage : {"keystore", "plaintext"}, key : FreshKeys]

Begin ==
    /\ Started
    /\ state = NoState \/ ForceFlag
    /\ env = NoEnv \/ ForceFlag
    /\ \E signer \in Signers, existing \in BOOLEAN, modifier \in deployed \cup {NoModifier} :
          /\ IF existing THEN safe.owner = "user"   \* the bot must not own it
             ELSE ~SafeExists /\ flight = <<>> /\ modifier = NoModifier
          /\ mem' = [NoState EXCEPT !.existing = existing, !.storage = signer.storage,
                                    !.key = signer.key, !.safe = existing,
                                    !.modifier = modifier, !.salt = FreshAddress]
          /\ op' = IF signer.key = keystore THEN "state" ELSE "persist"
    /\ UNCHANGED <<chainVars, env, keystore, gate, state, flight, landed,
                   funded, discarded, proposals>>

Resume ==
    /\ Started
    /\ state # NoState /\ keystore = state.key
    /\ mem' = state
    /\ op' = IF state.existing THEN "audit" ELSE "safe"
    /\ UNCHANGED <<chainVars, env, keystore, gate, state, flight, landed,
                   funded, discarded, proposals>>

\* Repair works on the files a finished setup left.
Repair ==
    /\ Started
    /\ env # NoEnv /\ state = NoState /\ KeyReadable
    /\ mem' = [NoState EXCEPT !.existing = TRUE, !.safe = TRUE, !.repair = TRUE,
                              !.modifier = env.modifier, !.salt = FreshAddress]
    /\ op' = "repairKill"
    /\ UNCHANGED <<chainVars, env, keystore, gate, state, flight, landed,
                   funded, discarded, proposals>>

\* onboardCleanup.ts --confirm removes one file after the other.
Cleanup ==
    /\ Started
    /\ state # NoState \/ keystore # NoKey
    /\ state' = NoState
    /\ keystore' \in {NoKey, keystore}
    /\ discarded' = (discarded \cup {keystore}) \ {NoKey}
    /\ UNCHANGED <<chainVars, env, gate, op, mem, flight, landed, funded, proposals>>

\* The end of a session ahead of its last step, for whatever reason.
Working ==
    {"persist", "state", "fund", "safe", "safeWait", "audit", "modifier", "moduleWait",
     "configure", "configureWait", "ready", "owner", "verify", "env", "cleanState", "cleanKey",
     "repairKill", "repairUnmark", "repairDry", "repairEnv"}

SessionEnds ==
    /\ op \in Working
    /\ Done
    /\ UNCHANGED <<chainVars, env, keystore, gate, state, ledger>>

-----------------------------------------------------------------------------
(* The key and the resume state, before the bot is funded.                 *)

\* An encrypted copy is kept whatever the storage.  Replacing another key
\* asks for consent, unless the key itself goes to .env.
PersistKey ==
    /\ op = "persist"
    /\ keystore' = mem.key
    /\ discarded' = IF keystore # NoKey /\ mem.storage = "keystore"
                    THEN discarded \cup {keystore} ELSE discarded
    /\ op' = "state"
    /\ UNCHANGED <<chainVars, env, gate, state, mem, flight, landed, funded, proposals, runs>>

\* The bot needs gas unless all that is left to do is the owner's.
SaveState ==
    /\ op = "state"
    /\ state' = Persisted(mem)
    /\ op' = CASE mem.modifier # NoModifier -> "audit" [] OTHER -> "fund"
    /\ UNCHANGED <<chainVars, env, keystore, gate, mem, flight, landed, ledger>>

Fund ==
    /\ op = "fund"
    /\ mem.key \in funded
    /\ op' = IF mem.existing THEN "audit" ELSE "safe"
    /\ UNCHANGED <<chainVars, env, keystore, gate, state, mem, flight, landed, ledger>>

\* The operator sends gas once onboarding says that it is safe to.
TopUp ==
    /\ state # NoState /\ state.key \notin funded
    /\ funded' = funded \cup {state.key}
    /\ UNCHANGED <<chainVars, gateVars, state, mem, flight, landed, discarded, proposals, runs>>

-----------------------------------------------------------------------------
(* The bot's transactions: sent in order of nonce, mined in that order, or *)
(* dropped; a session may give up waiting and the transaction still lands. *)

CanPay == mem.repair \/ mem.key \in funded

Send(kind, modifier) ==
    /\ CanPay /\ Len(flight) < MaxFlight
    /\ flight' = Append(flight, [kind |-> kind, modifier |-> modifier, awaited |-> TRUE])

MineTx(tx) ==
    /\ CASE tx.kind = "safe"      -> CreateSafe
         [] tx.kind = "module"    -> DeployModifier(tx.modifier)
         [] tx.kind = "configure" -> IF safe.owner = "bot"
                                     THEN Execute(ConfigureCalls(tx.modifier, TRUE, TRUE))
                                     ELSE UNCHANGED chainVars
    /\ landed' = (landed \/ (tx.awaited /\ chainVars' # chainVars))

Mine ==
    /\ flight # <<>>
    /\ MineTx(Head(flight))
    /\ flight' = Tail(flight)
    /\ UNCHANGED <<gateVars, state, mem, ledger>>

Evict ==
    /\ flight # <<>>
    /\ flight' = Front(flight)
    /\ UNCHANGED <<chainVars, gateVars, state, mem, landed, ledger>>

-----------------------------------------------------------------------------
(* A new Safe: deployed, configured in one batch, handed over.             *)

SafeStep ==
    /\ op = "safe"
    /\ IF mem.safe
       THEN op' = "modifier" /\ UNCHANGED flight
       ELSE op' = "safeWait" /\ Send("safe", NoModifier)
    /\ UNCHANGED <<chainVars, env, keystore, gate, state, mem, landed, ledger>>

\* onDeployed(): the address is written down as soon as it has landed.
SafeLanded ==
    /\ op = "safeWait" /\ landed
    /\ mem' = [mem EXCEPT !.safe = TRUE]
    /\ state' = Persisted(mem')
    /\ landed' = FALSE
    /\ op' = "modifier"
    /\ UNCHANGED <<chainVars, env, keystore, gate, flight, ledger>>

\* A module that is enabled stands for the whole batch, which is atomic.
Configure ==
    /\ op = "configure"
    /\ IF IsModuleEnabled(mem.modifier)
       THEN op' = "verify" /\ UNCHANGED flight
       ELSE /\ safe.owner = "bot" /\ Outcome(ConfigureCalls(mem.modifier, TRUE, TRUE)).ok
            /\ op' = "configureWait" /\ Send("configure", mem.modifier)
    /\ UNCHANGED <<chainVars, env, keystore, gate, state, mem, landed, ledger>>

ConfigureLanded ==
    /\ op = "configureWait" /\ landed /\ safe.owner # "bot"
    /\ landed' = FALSE
    /\ op' = "verify"
    /\ UNCHANGED <<chainVars, env, keystore, gate, state, mem, flight, ledger>>

-----------------------------------------------------------------------------
(* An existing Safe: audited, and configured by its owner.                 *)

\* A supplied modifier with permissions outside the profile is replaced, and
\* disabled if the Safe has it enabled.
Audit ==
    /\ op = "audit" /\ safe.owner # "bot"
    /\ LET m == mem.modifier
           outside == m # NoModifier /\ Changed(grants[m]) \cup Unexpected(grants[m]) # {}
       IN mem' = IF ~outside THEN mem
                 ELSE IF IsModuleEnabled(m)
                 THEN [mem EXCEPT !.modifier = NoModifier, !.stale = m,
                                  !.prev = ModulePredecessor(safe.modules, m)]
                 ELSE [mem EXCEPT !.modifier = NoModifier]
    /\ op' = "modifier"
    /\ UNCHANGED <<chainVars, env, keystore, gate, state, flight, landed, ledger>>

\* deployRolesModifier(), skipped when there is one: both kinds of Safe.
ModifierStep ==
    /\ op = "modifier"
    /\ IF mem.modifier # NoModifier
       THEN op' = (IF mem.existing THEN "ready" ELSE "configure") /\ UNCHANGED flight
       ELSE op' = "moduleWait" /\ mem.salt # NoModifier /\ Send("module", mem.salt)
    /\ UNCHANGED <<chainVars, env, keystore, gate, state, mem, landed, ledger>>

\* Written to deploy-state.json, or into .env by a repair.
ModifierLanded ==
    /\ op = "moduleWait" /\ landed
    /\ mem' = [mem EXCEPT !.modifier = mem.salt]
    /\ IF mem.repair
       THEN /\ env' = [env EXCEPT !.modifier = mem.salt, !.dry = TRUE, !.sfpm = FALSE]
            /\ UNCHANGED state
       ELSE state' = Persisted(mem') /\ UNCHANGED env
    /\ landed' = FALSE
    /\ op' = IF mem.existing THEN "ready" ELSE "configure"
    /\ UNCHANGED <<chainVars, keystore, gate, flight, ledger>>

IsReady ==
    /\ IsModuleEnabled(mem.modifier) /\ LoanOnlyVerified(grants[mem.modifier])
    /\ safe.approvals
    /\ mem.stale # NoModifier => ~IsModuleEnabled(mem.stale)

\* The stale modifier is disabled before enableModule moves the list's head.
OwnerCalls ==
    (IF mem.stale # NoModifier THEN <<Disable(mem.stale, mem.prev)>> ELSE <<>>)
    \o ConfigureCalls(mem.modifier, ~IsModuleEnabled(mem.modifier), FALSE)

AfterReady == IF mem.repair THEN "repairEnv" ELSE "verify"

Ready ==
    /\ op = "ready"
    /\ IF IsReady
       THEN op' = AfterReady /\ UNCHANGED proposals
       ELSE op' = "owner" /\ proposals' = proposals \cup {OwnerCalls}
    /\ UNCHANGED <<chainVars, env, keystore, gate, state, mem, flight, landed,
                   funded, discarded, runs>>

OwnerExecutes ==
    /\ safe.owner = "user"
    /\ \E calls \in proposals : Outcome(calls).ok /\ Execute(calls)
    /\ UNCHANGED <<gateVars, setupVars>>

\* The owner presses Enter and the Safe is read again.
OwnerDone ==
    /\ op = "owner" /\ IsReady /\ safe.owner # "bot"
    /\ op' = AfterReady
    /\ UNCHANGED <<chainVars, env, keystore, gate, state, mem, flight, landed, ledger>>

\* The owner also uses the modifier for something else, between sessions and
\* while nothing is activated.
OwnerGrants ==
    /\ op = "idle" /\ bot = Off /\ marker = NoPolicy
    /\ env # NoEnv /\ IsModuleEnabled(env.modifier)
    /\ grants' = [grants EXCEPT ![env.modifier].stray = TRUE]
    /\ UNCHANGED <<safe, deployed, gateVars, setupVars>>

-----------------------------------------------------------------------------
(* The end: the boundary is verified, .env written, the rest cleaned up.   *)

Verify ==
    /\ op = "verify" /\ LoanOnlyVerified(grants[mem.modifier])
    /\ op' = "env"
    /\ UNCHANGED <<chainVars, env, keystore, gate, state, mem, flight, landed, ledger>>

WriteEnv ==
    /\ op = "env"
    /\ \E dry \in BOOLEAN :
          env' = [modifier |-> mem.modifier, sfpm |-> FALSE, dry |-> dry, storage |-> mem.storage,
                  key |-> IF mem.storage = "plaintext" THEN mem.key ELSE NoKey]
    /\ op' = "cleanState"
    /\ UNCHANGED <<chainVars, keystore, gate, state, mem, flight, landed, ledger>>

\* Mutant: the recovery keystore is taken for temporary whatever the storage.
CleanStateAlways ==
    /\ op = "cleanState"
    /\ state' \in {state, NoState}
    /\ op' = "cleanKey"
    /\ UNCHANGED <<chainVars, env, keystore, gate, mem, flight, landed, ledger>>

\* A removal that fails is a warning.
CleanState ==
    /\ op = "cleanState"
    /\ state' \in {state, NoState}
    /\ IF mem.storage = "plaintext"
       THEN op' = "cleanKey" /\ UNCHANGED <<mem, flight, landed>> ELSE Done
    /\ UNCHANGED <<chainVars, env, keystore, gate, ledger>>

CleanKey ==
    /\ op = "cleanKey"
    /\ keystore' \in {keystore, NoKey}
    /\ Done
    /\ UNCHANGED <<chainVars, env, gate, state, ledger>>

-----------------------------------------------------------------------------
(* A repair stops every send first: the kill switch, the marker, .env.     *)

RepairKill ==
    /\ op = "repairKill"
    /\ kill' = TRUE
    /\ op' = "repairUnmark"
    /\ UNCHANGED <<chainVars, env, keystore, marker, bot, candidate, deact, approved, quiet,
                   setupVars>>

RepairUnmark ==
    /\ op = "repairUnmark"
    /\ marker' = NoPolicy
    /\ op' = "repairDry"
    /\ UNCHANGED <<chainVars, env, keystore, kill, bot, candidate, deact, approved, quiet,
                   setupVars>>

RepairDry ==
    /\ op = "repairDry"
    /\ env' = [env EXCEPT !.dry = TRUE, !.sfpm = FALSE]
    /\ op' = "audit"
    /\ UNCHANGED <<chainVars, keystore, gate, setupVars>>

RepairEnv ==
    /\ op = "repairEnv"
    /\ env' = [env EXCEPT !.modifier = mem.modifier, !.dry = TRUE, !.sfpm = FALSE]
    /\ Done
    /\ UNCHANGED <<chainVars, keystore, gate, state, ledger>>

-----------------------------------------------------------------------------

RuntimeNext ==
    \/ GateSteps /\ UNCHANGED setupVars
    \/ /\ GateSessions
       /\ runs < MaxRuns /\ runs' = runs + 1
       /\ UNCHANGED <<state, mem, flight, landed, funded, discarded, proposals>>

Next ==
    \/ RuntimeNext
    \/ Begin \/ Resume \/ Repair \/ Cleanup \/ SessionEnds
    \/ PersistKey \/ SaveState \/ Fund \/ TopUp
    \/ Mine \/ Evict
    \/ SafeStep \/ SafeLanded \/ Configure \/ ConfigureLanded
    \/ Audit \/ ModifierStep \/ ModifierLanded
    \/ Ready \/ OwnerExecutes \/ OwnerDone \/ OwnerGrants
    \/ Verify \/ WriteEnv \/ CleanState \/ CleanKey
    \/ RepairKill \/ RepairUnmark \/ RepairDry \/ RepairEnv

Spec == Init /\ [][Next]_vars

-----------------------------------------------------------------------------
(* Properties.                                                             *)

\* The key of a funded address is on disk, or the operator agreed to destroy
\* it: whatever crash, retry, second setup or cleanup comes in between
\* (scripts/setup.ts:930-948, 1347-1366).
KeyOutlivesFunds == funded \subseteq {keystore, env.key} \cup discarded

\* A bot that can send sends through a modifier that grants it what was
\* reviewed and nothing else, in a Safe that the bot does not own
\* (scripts/lib/existingSafe.ts:345-387, scripts/lib/diagnostics/checks.ts).
TradesInsideScope ==
    CanSend /\ IsModuleEnabled(bot.modifier) => grants[bot.modifier] = Reviewed

=============================================================================
