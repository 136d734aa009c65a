---------------------------- MODULE RuntimeGate ----------------------------
(***************************************************************************)
(* What stands between a configuration and a live transaction: the .env    *)
(* file, the activation marker, the kill switch, and the checks a process  *)
(* makes when it starts and before it sends (src/src/main.ts,              *)
(* src/src/runtime/activation.ts and deactivation.ts).                     *)
(*                                                                         *)
(* Three processes share those files: the bot, which parses its            *)
(* configuration once; the operator's terminal op, here with the guided    *)
(* activation and in Onboarding with everything else; and an emergency     *)
(* deactivation from a second terminal, at any time.  Each write of a file *)
(* is a step, so a crash or the other process may come between two.        *)
(*                                                                         *)
(* A policy is what the marker's fingerprints bind: the modifier, and the  *)
(* off-venue switch sfpm for every other setting.                          *)
(***************************************************************************)
EXTENDS RolesGrants

VARIABLES
    env,        \* the .env file
    keystore,   \* the key in bot-keystore.json
    kill,       \* .hedger-disabled.json exists
    marker,     \* the policy of .hedger-activated.json
    bot,        \* the bot's process and the configuration it holds
    op,         \* what the operator's terminal does next
    candidate,  \* the policy under activation, and whether .env is read-only
    deact,      \* the emergency deactivation: "idle", "alone" or "racing"
    approved,   \* history: the policies the operator has confirmed
    quiet       \* history: a deactivation is the operator's last decision

gateVars == <<env, keystore, kill, marker, bot, op, candidate, deact, approved, quiet>>

NoKey == 0

Policies == [modifier : Modifiers, sfpm : BOOLEAN]
NoPolicy == [modifier |-> NoModifier, sfpm |-> FALSE]
PolicyOf(config) == [modifier |-> config.modifier, sfpm |-> config.sfpm]

NoEnv == [modifier |-> NoModifier, sfpm |-> FALSE, dry |-> TRUE, storage |-> "none", key |-> NoKey]
Configured == env # NoEnv

Off == [phase |-> "off", modifier |-> NoModifier, sfpm |-> FALSE, dry |-> TRUE]

NoCandidate == [policy |-> NoPolicy, readOnly |-> FALSE]

\* resolveBotAccount() finds a key, in .env or in the keystore it names.
KeyReadable ==
    env.storage = "plaintext" \/ (env.storage = "keystore" /\ keystore # NoKey)

-----------------------------------------------------------------------------
(* The bot.                                                                *)

\* The configuration is parsed once, ahead of the prompt for a passphrase.
BotParses ==
    /\ bot = Off /\ Configured /\ KeyReadable
    /\ bot' = [phase |-> "parsed", modifier |-> env.modifier, sfpm |-> env.sfpm, dry |-> env.dry]
    /\ UNCHANGED <<chainVars, env, keystore, kill, marker, op, candidate, deact, approved, quiet>>

\* Mutant: the marker's fingerprint leaves the off-venue settings out.
ActivatedByAddress == ~kill /\ marker.modifier = bot.modifier

\* The marker must match the parsed configuration.
Activated == ~kill /\ marker = PolicyOf(bot)

\* Without evidence from the chain the bot starts dry as well.
BotStarts ==
    /\ bot.phase = "parsed"
    /\ \E evidence \in BOOLEAN :
          bot' = [bot EXCEPT !.phase = "running", !.dry = @ \/ ~(evidence /\ Activated)]
    /\ UNCHANGED <<chainVars, env, keystore, kill, marker, op, candidate, deact, approved, quiet>>

BotStops ==
    /\ bot # Off
    /\ bot' = Off
    /\ UNCHANGED <<chainVars, env, keystore, kill, marker, op, candidate, deact, approved, quiet>>

\* What is checked before each broadcast, replacements included.
CanSend == bot.phase = "running" /\ ~bot.dry /\ ~kill /\ safe.owner # "bot"

-----------------------------------------------------------------------------
(* The guided activation.                                                  *)

\* runDoctorChecks(): everything about the chain that fails an activation.
SafeWired(policy) ==
    /\ SafeExists /\ safe.owner # "bot"
    /\ policy.modifier \in deployed /\ IsModuleEnabled(policy.modifier)

ManifestExact(policy) == Exact(grants[policy.modifier])

Doctor(policy) ==
    /\ SafeWired(policy)
    /\ LoanOnlyVerified(grants[policy.modifier])
    /\ ManifestExact(policy)

\* The candidate comes from .env as it is now; a read-only configuration is
\* taken as it stands and must not be dry.
ActivationBegins ==
    /\ op = "idle" /\ Configured
    /\ \E readOnly, sfpm \in BOOLEAN :
          /\ readOnly => ~env.dry /\ sfpm = env.sfpm
          /\ candidate' = [policy |-> [modifier |-> env.modifier, sfpm |-> sfpm],
                           readOnly |-> readOnly]
    /\ op' = "doctor"
    /\ UNCHANGED <<chainVars, env, keystore, kill, marker, bot, deact, approved, quiet>>

DoctorPasses ==
    /\ op = "doctor" /\ Doctor(candidate.policy)
    /\ op' = "confirm"
    /\ UNCHANGED <<chainVars, env, keystore, kill, marker, bot, candidate, deact, approved, quiet>>

Confirm ==
    /\ op = "confirm"
    /\ op' = "marker"
    /\ approved' = approved \cup {candidate.policy}
    /\ quiet' = FALSE
    /\ deact' = IF deact = "alone" THEN "racing" ELSE deact
    /\ UNCHANGED <<chainVars, env, keystore, kill, marker, bot, candidate>>

\* The marker first, while .env is still dry; the kill switch last.
WriteActivation ==
    /\ op = "marker"
    /\ marker' = candidate.policy
    /\ op' = IF candidate.readOnly THEN "clear" ELSE "live"
    /\ UNCHANGED <<chainVars, env, keystore, kill, bot, candidate, deact, approved, quiet>>

UpdateEnv ==
    /\ op = "live"
    /\ env' = [env EXCEPT !.dry = FALSE, !.sfpm = candidate.policy.sfpm]
    /\ op' = "clear"
    /\ UNCHANGED <<chainVars, keystore, kill, marker, bot, candidate, deact, approved, quiet>>

ClearDeactivation ==
    /\ op = "clear"
    /\ kill' = FALSE
    /\ op' = "idle" /\ candidate' = NoCandidate
    /\ UNCHANGED <<chainVars, env, keystore, marker, bot, deact, approved, quiet>>

Persisting == {"marker", "live", "clear"}
Activating == {"doctor", "confirm"} \cup Persisting

\* A failed check, an answer of no, an interrupt or a crash.
ActivationEnds ==
    /\ op \in Activating
    /\ op' = "idle" /\ candidate' = NoCandidate
    /\ UNCHANGED <<chainVars, env, keystore, kill, marker, bot, deact, approved, quiet>>

-----------------------------------------------------------------------------
(* The emergency deactivation: the kill switch, then the marker.           *)

\* Mutant: a deactivation only removes the activation.
WriteDeactivationForNextStart ==
    /\ deact = "idle" /\ Configured
    /\ deact' = IF op \in Persisting THEN "racing" ELSE "alone"
    /\ UNCHANGED <<chainVars, env, keystore, kill, marker, bot, op, candidate, approved, quiet>>

WriteDeactivation ==
    /\ deact = "idle" /\ Configured
    /\ kill' = TRUE
    /\ deact' = IF op \in Persisting THEN "racing" ELSE "alone"
    /\ UNCHANGED <<chainVars, env, keystore, marker, bot, op, candidate, approved, quiet>>

ClearActivation ==
    /\ deact # "idle"
    /\ marker' = NoPolicy
    /\ quiet' = (quiet \/ deact = "alone")
    /\ deact' = "idle"
    /\ UNCHANGED <<chainVars, env, keystore, kill, bot, op, candidate, approved>>

DeactivationCrashes ==
    /\ deact # "idle"
    /\ deact' = "idle"
    /\ UNCHANGED <<chainVars, env, keystore, kill, marker, bot, op, candidate, approved, quiet>>

-----------------------------------------------------------------------------
(* The operator's edits: tune changes the settings, a text editor anything.*)

Tune ==
    /\ op = "idle" /\ Configured
    /\ env' = [env EXCEPT !.sfpm = ~@]
    /\ UNCHANGED <<chainVars, keystore, kill, marker, bot, op, candidate, deact, approved, quiet>>

EditDryRun ==
    /\ op = "idle" /\ Configured
    /\ env' = [env EXCEPT !.dry = ~@]
    /\ UNCHANGED <<chainVars, keystore, kill, marker, bot, op, candidate, deact, approved, quiet>>

\* What the operator starts at the terminal, and every other step.
GateSessions == ActivationBegins \/ Tune \/ EditDryRun

GateSteps ==
    \/ BotParses \/ BotStarts \/ BotStops
    \/ DoctorPasses \/ Confirm
    \/ WriteActivation \/ UpdateEnv \/ ClearDeactivation \/ ActivationEnds
    \/ WriteDeactivation \/ ClearActivation \/ DeactivationCrashes

-----------------------------------------------------------------------------
(* Properties.                                                             *)

\* The bot trades only under a policy the operator has seen and confirmed,
\* whatever was edited, interrupted or written to the files meanwhile
\* (src/src/main.ts:134-140, src/src/runtime/activation.ts:274-288).
ApprovedOnly == CanSend => PolicyOf(bot) \in approved

\* After an emergency deactivation has returned, no process can send before
\* the operator confirms an activation again; the exception is a deactivation
\* that runs beside an activation already confirmed
\* (src/src/runtime/deactivation.ts:47-50).
QuietAfterDeactivation == quiet => ~CanSend

=============================================================================
