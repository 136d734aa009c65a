-------------------------- MODULE Onboarding_proofs --------------------------
(***************************************************************************)
(* What Onboarding guarantees for every set of keys and modifiers, and any *)
(* number of sessions, crashes and interleavings: an emergency             *)
(* deactivation silences the bot, the bot trades only under a policy the   *)
(* operator confirmed and inside the scope that was reviewed, and, without *)
(* --force, a funded key is on disk until the operator agrees to destroy   *)
(* it.                                                                     *)
(***************************************************************************)
EXTENDS Onboarding, TLAPS

-----------------------------------------------------------------------------
(***************************************************************************)
(* The emergency deactivation.  Once it has thrown the kill switch beside  *)
(* no confirmed activation, the switch stays: only an activation that the  *)
(* operator confirms takes it back, and none is past its confirmation.     *)
(***************************************************************************)

Silenced == quiet \/ deact = "alone"

QInv == Silenced => kill /\ op \notin Persisting

USE DEF chainVars, gateVars, setupVars, gate, ledger

LEMMA QuietInit == Init => QInv
BY DEF Init, QInv, Silenced

\* Every step keeps it.
LEMMA QuietStep == QInv /\ [Next]_vars => QInv'
<1> SUFFICES ASSUME QInv, [Next]_vars PROVE QInv'
  OBVIOUS
<1> USE DEF QInv, Silenced, Persisting, Done, Started
<1>1. CASE BotParses /\ UNCHANGED setupVars
  BY <1>1 DEF BotParses
<1>2. CASE BotStarts /\ UNCHANGED setupVars
  BY <1>2 DEF BotStarts
<1>3. CASE BotStops /\ UNCHANGED setupVars
  BY <1>3 DEF BotStops
<1>4. CASE DoctorPasses /\ UNCHANGED setupVars
  BY <1>4 DEF DoctorPasses
<1>5. CASE Confirm /\ UNCHANGED setupVars
  BY <1>5 DEF Confirm
<1>6. CASE WriteActivation /\ UNCHANGED setupVars
  BY <1>6 DEF WriteActivation
<1>7. CASE UpdateEnv /\ UNCHANGED setupVars
  BY <1>7 DEF UpdateEnv
<1>8. CASE ClearDeactivation /\ UNCHANGED setupVars
  BY <1>8 DEF ClearDeactivation
<1>9. CASE ActivationEnds /\ UNCHANGED setupVars
  BY <1>9 DEF ActivationEnds, Activating
<1>10. CASE WriteDeactivation /\ UNCHANGED setupVars
  BY <1>10 DEF WriteDeactivation
<1>11. CASE ClearActivation /\ UNCHANGED setupVars
  BY <1>11 DEF ClearActivation
<1>12. CASE DeactivationCrashes /\ UNCHANGED setupVars
  BY <1>12 DEF DeactivationCrashes
<1>13. CASE ActivationBegins /\ UNCHANGED <<state, mem, flight, landed, funded, discarded, proposals>>
  BY <1>13 DEF ActivationBegins
<1>14. CASE Tune /\ UNCHANGED <<state, mem, flight, landed, funded, discarded, proposals>>
  BY <1>14 DEF Tune
<1>15. CASE EditDryRun /\ UNCHANGED <<state, mem, flight, landed, funded, discarded, proposals>>
  BY <1>15 DEF EditDryRun
<1>16. CASE Begin
  BY <1>16 DEF Begin
<1>17. CASE Resume
  BY <1>17 DEF Resume
<1>18. CASE Repair
  BY <1>18 DEF Repair
<1>19. CASE Cleanup
  BY <1>19 DEF Cleanup
<1>20. CASE SessionEnds
  BY <1>20 DEF SessionEnds, Working
<1>21. CASE PersistKey
  BY <1>21 DEF PersistKey
<1>22. CASE SaveState
  BY <1>22 DEF SaveState
<1>23. CASE Fund
  BY <1>23 DEF Fund
<1>24. CASE TopUp
  BY <1>24 DEF TopUp
<1>25. CASE Mine
  BY <1>25 DEF Mine
<1>26. CASE Evict
  BY <1>26 DEF Evict
<1>27. CASE SafeStep
  BY <1>27 DEF SafeStep
<1>28. CASE SafeLanded
  BY <1>28 DEF SafeLanded
<1>29. CASE Configure
  BY <1>29 DEF Configure
<1>30. CASE ConfigureLanded
  BY <1>30 DEF ConfigureLanded
<1>31. CASE Audit
  BY <1>31 DEF Audit
<1>32. CASE ModifierStep
  BY <1>32 DEF ModifierStep
<1>33. CASE ModifierLanded
  BY <1>33 DEF ModifierLanded
<1>34. CASE Ready
  BY <1>34 DEF Ready, AfterReady
<1>35. CASE OwnerExecutes
  BY <1>35 DEF OwnerExecutes
<1>36. CASE OwnerDone
  BY <1>36 DEF OwnerDone, AfterReady
<1>37. CASE OwnerGrants
  BY <1>37 DEF OwnerGrants
<1>38. CASE Verify
  BY <1>38 DEF Verify
<1>39. CASE WriteEnv
  BY <1>39 DEF WriteEnv
<1>40. CASE CleanState
  BY <1>40 DEF CleanState
<1>41. CASE CleanKey
  BY <1>41 DEF CleanKey
<1>42. CASE RepairKill
  BY <1>42 DEF RepairKill
<1>43. CASE RepairUnmark
  BY <1>43 DEF RepairUnmark
<1>44. CASE RepairDry
  BY <1>44 DEF RepairDry
<1>45. CASE RepairEnv
  BY <1>45 DEF RepairEnv
<1>46. CASE UNCHANGED vars
  BY <1>46 DEF vars
<1> QED
  BY <1>1, <1>2, <1>3, <1>4, <1>5, <1>6, <1>7, <1>8, <1>9, <1>10, <1>11, <1>12, <1>13, <1>14, <1>15, <1>16, <1>17, <1>18, <1>19, <1>20, <1>21, <1>22, <1>23, <1>24, <1>25, <1>26, <1>27, <1>28, <1>29, <1>30, <1>31, <1>32, <1>33, <1>34, <1>35, <1>36, <1>37, <1>38, <1>39, <1>40, <1>41, <1>42, <1>43, <1>44, <1>45, <1>46 DEF Next, RuntimeNext, GateSteps, GateSessions

\* After an emergency deactivation has returned, no process can send before
\* the operator confirms an activation again
\* (src/src/runtime/deactivation.ts:47-50).
THEOREM DeactivationSilences == Spec => []QuietAfterDeactivation
<1>1. QInv => QuietAfterDeactivation
  BY DEF QInv, Silenced, QuietAfterDeactivation, CanSend
<1> QED BY <1>1, QuietInit, QuietStep, PTL DEF Spec

-----------------------------------------------------------------------------
(***************************************************************************)
(* The activation.  What the marker holds was confirmed, and a bot that    *)
(* trades read a marker equal to its configuration.  A configuration names *)
(* a modifier, so it is never taken for the absence of a marker: a session *)
(* has a modifier once it is past the step that deploys one.               *)
(***************************************************************************)

SessionFields == DOMAIN NoState

Shapes ==
  /\ DOMAIN env = DOMAIN NoEnv /\ DOMAIN bot = DOMAIN Off
  /\ DOMAIN mem = SessionFields /\ DOMAIN state = SessionFields

WithModifier ==
  {"configure", "configureWait", "ready", "owner", "verify", "env", "repairEnv"}

Finishing == {"cleanState", "cleanKey"}

ModifierKnown ==
  /\ op = "moduleWait" => mem.salt # NoModifier
  /\ op \in WithModifier => mem.modifier # NoModifier
  /\ op \in Activating \cup Finishing => env.modifier # NoModifier
  /\ env = NoEnv \/ env.modifier # NoModifier
  /\ bot.phase = "parsed" => bot.modifier # NoModifier

Confirmed ==
  /\ op \in Persisting => candidate.policy \in approved
  /\ marker = NoPolicy \/ marker \in approved
  /\ bot.phase = "running" /\ ~bot.dry => PolicyOf(bot) \in approved

AInv == Shapes /\ ModifierKnown /\ Confirmed

LEMMA ActivationInit == Init => AInv
<1> SUFFICES ASSUME Init PROVE AInv
  OBVIOUS
<1>1. DOMAIN env = DOMAIN NoEnv /\ (env = NoEnv \/ env.modifier # NoModifier)
  BY ModifiersAssumption, OnboardingAssumption DEF Init, NothingSetUp, SetUp, NoEnv
<1>2. Shapes
  BY <1>1 DEF Init, Shapes, SessionFields
<1>3. op = "idle" /\ bot.phase = "off" /\ marker = NoPolicy
  BY DEF Init, Off
<1> QED
  BY <1>1, <1>2, <1>3
     DEF AInv, ModifierKnown, Confirmed, WithModifier, Finishing, Activating, Persisting

\* Every step keeps it.
LEMMA ActivationStep == AInv /\ [Next]_vars => AInv'
<1> SUFFICES ASSUME AInv, [Next]_vars PROVE AInv'
  OBVIOUS
<1> USE OnboardingAssumption DEF AInv, Shapes, SessionFields, ModifierKnown, Confirmed, WithModifier,
        Finishing, Persisting, Activating, Done, Started, NoEnv, NoState, Off, PolicyOf, NoPolicy, Configured, Persisted
<1>1. CASE BotParses /\ UNCHANGED setupVars
  BY <1>1 DEF BotParses
<1>2. CASE BotStarts /\ UNCHANGED setupVars
  <2>1. PICK evidence \in BOOLEAN :
          bot' = [bot EXCEPT !.phase = "running", !.dry = @ \/ ~(evidence /\ Activated)]
    BY <1>2 DEF BotStarts
  <2>2. DOMAIN bot' = DOMAIN bot /\ PolicyOf(bot') = PolicyOf(bot)
    BY <2>1
  <2>3. ~bot'.dry => Activated
    BY <2>1
  <2>4. Activated => PolicyOf(bot) \in approved
    BY <1>2 DEF BotStarts, Activated
  <2>5. bot'.phase # "parsed"
    BY <2>1
  <2> QED BY <1>2, <2>2, <2>3, <2>4, <2>5 DEF BotStarts
<1>3. CASE BotStops /\ UNCHANGED setupVars
  BY <1>3 DEF BotStops
<1>4. CASE DoctorPasses /\ UNCHANGED setupVars
  BY <1>4 DEF DoctorPasses
<1>5. CASE Confirm /\ UNCHANGED setupVars
  BY <1>5 DEF Confirm
<1>6. CASE WriteActivation /\ UNCHANGED setupVars
  BY <1>6 DEF WriteActivation
<1>7. CASE UpdateEnv /\ UNCHANGED setupVars
  BY <1>7 DEF UpdateEnv
<1>8. CASE ClearDeactivation /\ UNCHANGED setupVars
  BY <1>8 DEF ClearDeactivation
<1>9. CASE ActivationEnds /\ UNCHANGED setupVars
  BY <1>9 DEF ActivationEnds, Activating
<1>10. CASE WriteDeactivation /\ UNCHANGED setupVars
  BY <1>10 DEF WriteDeactivation
<1>11. CASE ClearActivation /\ UNCHANGED setupVars
  BY <1>11 DEF ClearActivation
<1>12. CASE DeactivationCrashes /\ UNCHANGED setupVars
  BY <1>12 DEF DeactivationCrashes
<1>13. CASE ActivationBegins /\ UNCHANGED <<state, mem, flight, landed, funded, discarded, proposals>>
  BY <1>13 DEF ActivationBegins
<1>14. CASE Tune /\ UNCHANGED <<state, mem, flight, landed, funded, discarded, proposals>>
  BY <1>14 DEF Tune
<1>15. CASE EditDryRun /\ UNCHANGED <<state, mem, flight, landed, funded, discarded, proposals>>
  BY <1>15 DEF EditDryRun
<1>16. CASE Begin
  BY <1>16 DEF Begin
<1>17. CASE Resume
  BY <1>17 DEF Resume
<1>18. CASE Repair
  BY <1>18 DEF Repair
<1>19. CASE Cleanup
  BY <1>19 DEF Cleanup
<1>20. CASE SessionEnds
  BY <1>20 DEF SessionEnds, Working
<1>21. CASE PersistKey
  BY <1>21 DEF PersistKey
<1>22. CASE SaveState
  BY <1>22 DEF SaveState
<1>23. CASE Fund
  BY <1>23 DEF Fund
<1>24. CASE TopUp
  BY <1>24 DEF TopUp
<1>25. CASE Mine
  BY <1>25 DEF Mine
<1>26. CASE Evict
  BY <1>26 DEF Evict
<1>27. CASE SafeStep
  BY <1>27 DEF SafeStep
<1>28. CASE SafeLanded
  BY <1>28 DEF SafeLanded
<1>29. CASE Configure
  BY <1>29 DEF Configure
<1>30. CASE ConfigureLanded
  BY <1>30 DEF ConfigureLanded
<1>31. CASE Audit
  BY <1>31 DEF Audit
<1>32. CASE ModifierStep
  BY <1>32 DEF ModifierStep
<1>33. CASE ModifierLanded
  BY <1>33 DEF ModifierLanded
<1>34. CASE Ready
  BY <1>34 DEF Ready, AfterReady
<1>35. CASE OwnerExecutes
  BY <1>35 DEF OwnerExecutes
<1>36. CASE OwnerDone
  BY <1>36 DEF OwnerDone, AfterReady
<1>37. CASE OwnerGrants
  BY <1>37 DEF OwnerGrants
<1>38. CASE Verify
  BY <1>38 DEF Verify
<1>39. CASE WriteEnv
  BY <1>39 DEF WriteEnv
<1>40. CASE CleanState
  BY <1>40 DEF CleanState
<1>41. CASE CleanKey
  BY <1>41 DEF CleanKey
<1>42. CASE RepairKill
  BY <1>42 DEF RepairKill
<1>43. CASE RepairUnmark
  BY <1>43 DEF RepairUnmark
<1>44. CASE RepairDry
  <2>1. DOMAIN env' = DOMAIN env /\ env'.modifier = env.modifier
    BY <1>44 DEF RepairDry
  <2>2. ASSUME env = NoEnv PROVE env' = NoEnv
    <3>1. env' = [NoEnv EXCEPT !.dry = TRUE, !.sfpm = FALSE]
      BY <1>44, <2>2, Zenon DEF RepairDry
    <3> QED BY ONLY <3>1 DEF NoEnv
  <2>3. Shapes'
    BY <1>44, <2>1 DEF RepairDry
  <2> QED BY <1>44, <2>1, <2>2, <2>3 DEF RepairDry
<1>45. CASE RepairEnv
  <2>1. DOMAIN env' = DOMAIN env /\ env'.modifier = mem.modifier
    BY <1>45 DEF RepairEnv
  <2>2. env'.modifier # NoModifier /\ mem' = NoState /\ op' = "idle"
    BY <1>45, <2>1 DEF RepairEnv
  <2>3. Shapes'
    BY <1>45, <2>1, <2>2 DEF RepairEnv
  <2> QED BY <1>45, <2>2, <2>3 DEF RepairEnv
<1>46. CASE UNCHANGED vars
  BY <1>46 DEF vars
<1> QED
  BY <1>1, <1>2, <1>3, <1>4, <1>5, <1>6, <1>7, <1>8, <1>9, <1>10, <1>11, <1>12, <1>13, <1>14, <1>15, <1>16, <1>17, <1>18, <1>19, <1>20, <1>21, <1>22, <1>23, <1>24, <1>25, <1>26, <1>27, <1>28, <1>29, <1>30, <1>31, <1>32, <1>33, <1>34, <1>35, <1>36, <1>37, <1>38, <1>39, <1>40, <1>41, <1>42, <1>43, <1>44, <1>45, <1>46 DEF Next, RuntimeNext, GateSteps, GateSessions

\* The bot trades only under a policy the operator has confirmed, whatever was
\* edited, interrupted or written to the files meanwhile
\* (src/src/main.ts:134-140, src/src/runtime/activation.ts:274-288).
THEOREM TradesAsConfirmed == Spec => []ApprovedOnly
<1>1. AInv => ApprovedOnly
  BY DEF AInv, Confirmed, ApprovedOnly, CanSend
<1> QED BY <1>1, ActivationInit, ActivationStep, PTL DEF Spec

-----------------------------------------------------------------------------
(***************************************************************************)
(* The key.  A session that may replace the keystore found neither state   *)
(* nor configuration, and then no funded key is left that the operator has *)
(* not agreed to destroy; from the moment the keystore is written to the   *)
(* end of the session it holds the session's key, which is also that of    *)
(* the state file and, if it is there at all, of the configuration.        *)
(***************************************************************************)

\* Sessions that create a setup, from the keystore to the configuration.
Creating ==
  {"fund", "safe", "safeWait", "configure", "configureWait", "verify", "env"}

\* Steps that they share with a repair.
Shared == {"audit", "modifier", "moduleWait", "ready", "owner"}

Repairing == {"repairKill", "repairUnmark", "repairDry"}

SessionHasKey ==
  /\ op \in Repairing => mem.repair
  /\ op \in Creating \cup Finishing \cup {"persist", "state"} => ~mem.repair
  /\ op \in Creating \/ (op \in Shared /\ ~mem.repair) =>
       mem.key = keystore /\ state # NoState /\ state.key = mem.key
  /\ op \in {"persist", "state"} =>
       mem.key # NoKey /\ state = NoState /\ env = NoEnv
  /\ op = "state" => mem.key = keystore
  /\ op \in Finishing => env # NoEnv /\ mem.key = keystore
  /\ op \in Finishing /\ mem.storage = "plaintext" => env.key = keystore
  /\ op = "cleanKey" => mem.storage = "plaintext"
  /\ mem.repair => mem.existing

StateHasKey ==
  state # NoState =>
    /\ ~state.repair /\ state.key # NoKey
    /\ state.key \in {keystore, env.key} \cup discarded
    /\ env.key \in {NoKey, state.key}

FundsHaveKey ==
  /\ NoKey \notin funded
  /\ KeyOutlivesFunds
  /\ state = NoState /\ env = NoEnv => funded \subseteq discarded

KInv == SessionHasKey /\ StateHasKey /\ FundsHaveKey

LEMMA KeyInit == Init => KInv
<1> SUFFICES ASSUME Init PROVE KInv
  OBVIOUS
<1>1. state = NoState /\ mem = NoState /\ op = "idle"
  BY DEF Init
<1>2. FundsHaveKey
  <2>1. CASE NothingSetUp
    BY <2>1 DEF NothingSetUp, FundsHaveKey, KeyOutlivesFunds
  <2>2. CASE SetUp
    <3>1. keystore \in Keys /\ funded = {keystore}
      BY <2>2, OnboardingAssumption DEF SetUp
    <3>2. env # NoEnv
      BY <2>2, ModifiersAssumption, OnboardingAssumption DEF SetUp, NoEnv
    <3> QED BY <3>1, <3>2, OnboardingAssumption DEF FundsHaveKey, KeyOutlivesFunds
  <2> QED BY <2>1, <2>2 DEF Init
<1> QED
  BY <1>1, <1>2
     DEF KInv, SessionHasKey, StateHasKey, Creating, Shared, Finishing, Repairing, NoState

\* Every step keeps it.
LEMMA KeyStep == ~ForceFlag /\ AInv /\ KInv /\ [Next]_vars => KInv'
<1> SUFFICES ASSUME ~ForceFlag, AInv, KInv, [Next]_vars PROVE KInv'
  OBVIOUS
<1> USE OnboardingAssumption DEF AInv, Shapes, SessionFields, ModifierKnown, WithModifier, Finishing,
        KInv, SessionHasKey, StateHasKey, FundsHaveKey, KeyOutlivesFunds, Creating, Shared, Repairing,
        Persisting, Activating, Done, Started, NoEnv, NoState, Configured, Persisted
<1>1. CASE BotParses /\ UNCHANGED setupVars
  BY <1>1 DEF BotParses
<1>2. CASE BotStarts /\ UNCHANGED setupVars
  BY <1>2 DEF BotStarts
<1>3. CASE BotStops /\ UNCHANGED setupVars
  BY <1>3 DEF BotStops
<1>4. CASE DoctorPasses /\ UNCHANGED setupVars
  BY <1>4 DEF DoctorPasses
<1>5. CASE Confirm /\ UNCHANGED setupVars
  BY <1>5 DEF Confirm
<1>6. CASE WriteActivation /\ UNCHANGED setupVars
  BY <1>6 DEF WriteActivation
<1>7. CASE UpdateEnv /\ UNCHANGED setupVars
  BY <1>7 DEF UpdateEnv
<1>8. CASE ClearDeactivation /\ UNCHANGED setupVars
  BY <1>8 DEF ClearDeactivation
<1>9. CASE ActivationEnds /\ UNCHANGED setupVars
  BY <1>9 DEF ActivationEnds
<1>10. CASE WriteDeactivation /\ UNCHANGED setupVars
  BY <1>10 DEF WriteDeactivation
<1>11. CASE ClearActivation /\ UNCHANGED setupVars
  BY <1>11 DEF ClearActivation
<1>12. CASE DeactivationCrashes /\ UNCHANGED setupVars
  BY <1>12 DEF DeactivationCrashes
<1>13. CASE ActivationBegins /\ UNCHANGED <<state, mem, flight, landed, funded, discarded, proposals>>
  BY <1>13 DEF ActivationBegins
<1>14. CASE Tune /\ UNCHANGED <<state, mem, flight, landed, funded, discarded, proposals>>
  BY <1>14 DEF Tune
<1>15. CASE EditDryRun /\ UNCHANGED <<state, mem, flight, landed, funded, discarded, proposals>>
  BY <1>15 DEF EditDryRun
<1>16. CASE Begin
  BY <1>16 DEF Begin, Signers, FreshKeys
<1>17. CASE Resume
  BY <1>17 DEF Resume
<1>18. CASE Repair
  BY <1>18 DEF Repair
<1>19. CASE Cleanup
  BY <1>19 DEF Cleanup
<1>20. CASE SessionEnds
  BY <1>20 DEF SessionEnds, Working
<1>21. CASE PersistKey
  BY <1>21 DEF PersistKey
<1>22. CASE SaveState
  <2>1. state'.key = mem.key /\ state'.repair = mem.repair /\ mem' = mem
    BY <1>22 DEF SaveState
  <2>2. state' # NoState
    BY <1>22, <2>1 DEF SaveState
  <2>3. op' \in {"audit", "fund"}
    BY <1>22 DEF SaveState
  <2> QED BY <1>22, <2>1, <2>2, <2>3 DEF SaveState
<1>23. CASE Fund
  BY <1>23 DEF Fund
<1>24. CASE TopUp
  BY <1>24 DEF TopUp
<1>25. CASE Mine
  BY <1>25 DEF Mine
<1>26. CASE Evict
  BY <1>26 DEF Evict
<1>27. CASE SafeStep
  BY <1>27 DEF SafeStep
<1>28. CASE SafeLanded
  BY <1>28 DEF SafeLanded
<1>29. CASE Configure
  BY <1>29 DEF Configure
<1>30. CASE ConfigureLanded
  BY <1>30 DEF ConfigureLanded
<1>31. CASE Audit
  BY <1>31 DEF Audit
<1>32. CASE ModifierStep
  BY <1>32 DEF ModifierStep
<1>33. CASE ModifierLanded
  <2>1. /\ mem'.key = mem.key /\ mem'.repair = mem.repair
        /\ mem'.existing = mem.existing /\ mem'.storage = mem.storage
    BY <1>33 DEF ModifierLanded
  <2>2. op' \in {"ready", "configure"} /\ (mem.repair => op' = "ready")
    BY <1>33 DEF ModifierLanded
  <2>3. CASE mem.repair
    <3>1. env'.key = env.key /\ env'.modifier = mem.salt /\ state' = state
      BY <1>33, <2>3 DEF ModifierLanded
    <3>2. env' # NoEnv
      BY <1>33, <3>1 DEF ModifierLanded
    <3> QED BY <1>33, <2>1, <2>2, <2>3, <3>1, <3>2 DEF ModifierLanded
  <2>4. CASE ~mem.repair
    <3>1. state'.key = mem.key /\ state'.repair = mem.repair /\ env' = env
      BY <1>33, <2>4 DEF ModifierLanded
    <3>2. state' # NoState
      BY <1>33, <2>4, <3>1 DEF ModifierLanded
    <3> QED BY <1>33, <2>1, <2>2, <2>4, <3>1, <3>2 DEF ModifierLanded
  <2> QED BY <2>3, <2>4
<1>34. CASE Ready
  BY <1>34 DEF Ready, AfterReady
<1>35. CASE OwnerExecutes
  BY <1>35 DEF OwnerExecutes
<1>36. CASE OwnerDone
  BY <1>36 DEF OwnerDone, AfterReady
<1>37. CASE OwnerGrants
  BY <1>37 DEF OwnerGrants
<1>38. CASE Verify
  BY <1>38 DEF Verify
<1>39. CASE WriteEnv
  BY <1>39 DEF WriteEnv
<1>40. CASE CleanState
  BY <1>40 DEF CleanState
<1>41. CASE CleanKey
  BY <1>41 DEF CleanKey
<1>42. CASE RepairKill
  BY <1>42 DEF RepairKill
<1>43. CASE RepairUnmark
  BY <1>43 DEF RepairUnmark
<1>44. CASE RepairDry
  <2>1. env'.key = env.key /\ env'.modifier = env.modifier
    BY <1>44 DEF RepairDry
  <2>2. ASSUME env' = NoEnv PROVE env = NoEnv
    <3>1. env'.modifier = NoModifier
      BY ONLY <2>2 DEF NoEnv
    <3> QED BY <2>1, <3>1, Zenon
  <2> QED BY <1>44, <2>1, <2>2 DEF RepairDry
<1>45. CASE RepairEnv
  BY <1>45 DEF RepairEnv
<1>46. CASE UNCHANGED vars
  BY <1>46 DEF vars
<1> QED
  BY <1>1, <1>2, <1>3, <1>4, <1>5, <1>6, <1>7, <1>8, <1>9, <1>10, <1>11, <1>12, <1>13, <1>14, <1>15, <1>16, <1>17, <1>18, <1>19, <1>20, <1>21, <1>22, <1>23, <1>24, <1>25, <1>26, <1>27, <1>28, <1>29, <1>30, <1>31, <1>32, <1>33, <1>34, <1>35, <1>36, <1>37, <1>38, <1>39, <1>40, <1>41, <1>42, <1>43, <1>44, <1>45, <1>46 DEF Next, RuntimeNext, GateSteps, GateSessions

\* The key of a funded address is on disk, or the operator agreed to destroy it,
\* whatever crash, retry, second setup or cleanup comes in between
\* (scripts/setup.ts:930-948, 1347-1366).
THEOREM FundedKeySurvives == ~ForceFlag /\ Spec => []KeyOutlivesFunds
<1>1. AInv /\ KInv => KeyOutlivesFunds
  BY DEF KInv, FundsHaveKey
<1>2. ~ForceFlag /\ Spec => [](AInv /\ KInv)
  <2>1. Init => AInv /\ KInv
    BY ActivationInit, KeyInit
  <2>2. ~ForceFlag => (AInv /\ KInv /\ [Next]_vars => (AInv /\ KInv)')
    BY ActivationStep, KeyStep
  <2>3. CASE ForceFlag
    BY <2>3
  <2>4. CASE ~ForceFlag
    <3>1. AInv /\ KInv /\ [Next]_vars => (AInv /\ KInv)'
      BY <2>2, <2>4
    <3> QED BY <2>1, <3>1, PTL DEF Spec
  <2> QED BY <2>3, <2>4
<1> QED BY <1>1, <1>2, PTL

-----------------------------------------------------------------------------
(***************************************************************************)
(* The scope.  What the operator's activation reads of the chain stays     *)
(* true of the policy it confirms, of the marker it writes and of the bot  *)
(* that trades under it: batches only grant what was reviewed, and the     *)
(* owner grants other things only while nothing is activated.              *)
(***************************************************************************)

Addresses == Modifiers \cup {NoModifier}

\* A transaction that deploys a modifier knows its address.
Transactions ==
  {tx \in [kind : {"safe", "module", "configure"}, modifier : Addresses, awaited : BOOLEAN] :
     tx.kind = "module" => tx.modifier \in Modifiers}

\* The addresses in use are addresses a modifier can have.
AddressesKnown ==
  /\ deployed \subseteq Modifiers
  /\ grants \in [Modifiers -> Manifests]
  /\ {env.modifier, mem.modifier, mem.salt, state.modifier, state.salt} \subseteq Addresses
  /\ flight \in Seq(Transactions)

InScope(m) == m \in Modifiers /\ grants[m] = Reviewed

Scoped ==
  /\ op \in {"confirm"} \cup Persisting => InScope(candidate.policy.modifier)
  /\ marker # NoPolicy => InScope(marker.modifier)
  /\ bot.phase = "running" /\ ~bot.dry => InScope(bot.modifier)

SInv == AddressesKnown /\ Scoped

LEMMA ManifestFields ==
  /\ DOMAIN Empty = {"member", "target", "dispatch", "stray"}
  /\ DOMAIN Reviewed = DOMAIN Empty
  /\ Empty \in Manifests /\ Reviewed \in Manifests
BY DEF Empty, Reviewed, Manifests

\* An exact manifest is the reviewed one.
LEMMA ExactIsReviewed == ASSUME NEW manifest \in Manifests, Exact(manifest) PROVE manifest = Reviewed
<1>1. \A e \in Expected : manifest[e] # Empty[e] /\ manifest[e] \in {Empty[e], Reviewed[e]}
  BY DEF Exact, Missing, Changed
<1>2. manifest.stray = FALSE
  BY DEF Exact, Unexpected, Manifests
<1> QED
  BY <1>1, <1>2 DEF Expected, Manifests, Reviewed

\* A batch only adds to what is reviewed.
LEMMA BatchStaysInScope ==
  ASSUME grants \in [Modifiers -> Manifests], NEW calls
  PROVE  /\ Granted(calls) \in [Modifiers -> Manifests]
         /\ \A m \in Modifiers : grants[m] = Reviewed => Granted(calls)[m] = Reviewed
<1>1. ASSUME NEW m \in Modifiers
      PROVE  Granted(calls)[m] = [entry \in DOMAIN Empty |->
                IF Grant(entry, m) \in ToSet(calls) THEN Reviewed[entry] ELSE grants[m][entry]]
  BY <1>1 DEF Granted
<1>2. ASSUME NEW m \in Modifiers
      PROVE  /\ Granted(calls)[m] \in Manifests
             /\ grants[m] = Reviewed => Granted(calls)[m] = Reviewed
  <2> DEFINE g == Granted(calls)[m]
  <2>1. /\ DOMAIN g = {"member", "target", "dispatch", "stray"}
        /\ \A entry \in DOMAIN Empty : g[entry] \in {Reviewed[entry], grants[m][entry]}
        /\ g = [entry \in DOMAIN g |-> g[entry]]
    BY <1>1, ManifestFields
  <2>2. grants[m] \in Manifests
    OBVIOUS
  <2> HIDE DEF g
  <2>3. g \in Manifests
    BY <2>1, <2>2, ManifestFields DEF Manifests
  <2>4. ASSUME grants[m] = Reviewed PROVE g = Reviewed
    <3>1. /\ g.member = Reviewed.member /\ g.target = Reviewed.target
          /\ g.dispatch = Reviewed.dispatch /\ g.stray = Reviewed.stray
      BY <2>1, <2>4, ManifestFields
    <3> QED
      BY <2>3, <3>1 DEF Manifests, Reviewed
  <2> QED
    BY <2>3, <2>4 DEF g
<1> QED
  BY <1>2 DEF Granted

LEMMA ExecuteStaysInScope ==
  ASSUME AddressesKnown, NEW calls, Execute(calls)
  PROVE  /\ grants' \in [Modifiers -> Manifests] /\ deployed' = deployed
         /\ \A m \in Modifiers : grants[m] = Reviewed => grants'[m] = Reviewed
<1>1. Outcome(calls).grants = Granted(calls)
  BY DEF Outcome
<1>2. (grants' = Granted(calls) \/ grants' = grants) /\ deployed' = deployed
  BY <1>1 DEF Execute
<1> QED
  BY <1>2, BatchStaysInScope DEF AddressesKnown

\* What mining a transaction does to the chain.
LEMMA MineStaysInScope ==
  ASSUME AddressesKnown, Mine
  PROVE  /\ grants' \in [Modifiers -> Manifests] /\ deployed' \subseteq Modifiers
         /\ \A m \in Modifiers : grants[m] = Reviewed => grants'[m] = Reviewed
         /\ flight' \in Seq(Transactions)
<1>1. /\ flight \in Seq(Transactions) /\ flight # <<>> /\ MineTx(Head(flight)) /\ flight' = Tail(flight)
      /\ deployed \subseteq Modifiers /\ grants \in [Modifiers -> Manifests]
  BY DEF Mine, AddressesKnown
<1>2. Head(flight) \in Transactions /\ flight' \in Seq(Transactions)
  BY <1>1
<1> DEFINE tx == Head(flight)
<1>3. tx.kind \in {"safe", "module", "configure"} /\ (tx.kind = "module" => tx.modifier \in Modifiers)
  BY <1>2 DEF Transactions
<1>4. CASE tx.kind = "safe"
  BY <1>1, <1>2, <1>4 DEF MineTx, CreateSafe
<1>5. CASE tx.kind = "module"
  BY <1>1, <1>2, <1>3, <1>5 DEF MineTx, DeployModifier
<1>6. CASE tx.kind = "configure"
  <2>1. Execute(ConfigureCalls(tx.modifier, TRUE, TRUE)) \/ UNCHANGED chainVars
    BY <1>1, <1>6 DEF MineTx
  <2> QED
    BY <1>1, <1>2, <2>1, ExecuteStaysInScope
<1> QED
  BY <1>3, <1>4, <1>5, <1>6

LEMMA ScopeInit == Init => SInv
<1> SUFFICES ASSUME Init PROVE SInv
  OBVIOUS
<1>1. /\ Old \in Modifiers /\ deployed = {Old} /\ flight = <<>> /\ op = "idle" /\ marker = NoPolicy
      /\ bot = Off /\ mem = NoState /\ state = NoState
  BY OnboardingAssumption DEF Init
<1>2. env.modifier \in Addresses
  BY <1>1 DEF Init, NothingSetUp, SetUp, NoEnv, Addresses
<1>3. grants \in [Modifiers -> Manifests]
  <2>1. CASE NothingSetUp
    <3>1. [Reviewed EXCEPT !.stray = TRUE] \in Manifests /\ [Reviewed EXCEPT !.dispatch = "all"] \in Manifests
      BY DEF Reviewed, Manifests
    <3>2. PICK old \in {Empty, Reviewed, [Reviewed EXCEPT !.stray = TRUE], [Reviewed EXCEPT !.dispatch = "all"]} :
            grants = [m \in Modifiers |-> IF m = Old THEN old ELSE Empty]
      BY <2>1 DEF NothingSetUp
    <3>3. old \in Manifests /\ Empty \in Manifests
      BY <3>1, <3>2, ManifestFields

    <3> QED
      BY <3>2, <3>3
  <2>2. CASE SetUp
    BY <2>2, ManifestFields DEF SetUp
  <2> QED
    BY <2>1, <2>2 DEF Init
<1>4. <<>> \in Seq(Transactions)
  OBVIOUS
<1> QED
  BY <1>1, <1>2, <1>3, <1>4
     DEF SInv, AddressesKnown, Scoped, Addresses, NoState, Off, Persisting

\* The mempool holds transactions however sessions end.
LEMMA FlightForgotten ==
  ASSUME flight \in Seq(Transactions) PROVE Forgotten(flight) \in Seq(Transactions)
<1>1. \A tx \in Transactions : [tx EXCEPT !.awaited = FALSE] \in Transactions
  BY DEF Transactions
<1>2. DOMAIN flight = 1..Len(flight) /\ Len(flight) \in Nat
  OBVIOUS
<1> QED
  BY <1>1, <1>2 DEF Forgotten

LEMMA FlightEvicted ==
  ASSUME flight \in Seq(Transactions), flight # <<>> PROVE Front(flight) \in Seq(Transactions)
<1>1. Len(flight) \in Nat /\ Len(flight) - 1 \in Nat /\ \A i \in 1..Len(flight) : flight[i] \in Transactions
  OBVIOUS
<1>2. Front(flight) = [i \in 1..(Len(flight) - 1) |-> flight[i]]
  BY <1>1 DEF Front
<1> QED
  BY <1>1, <1>2

LEMMA FlightGrows ==
  ASSUME flight \in Seq(Transactions), NEW kind \in {"safe", "module", "configure"},
         NEW m \in Addresses, kind = "module" => m \in Modifiers, Send(kind, m)
  PROVE  flight' \in Seq(Transactions)
<1>1. [kind |-> kind, modifier |-> m, awaited |-> TRUE] \in Transactions
  BY DEF Transactions
<1> QED
  BY <1>1 DEF Send

LEMMA FreshAddressKnown == FreshAddress \in Addresses
<1> DEFINE pending == {flight[i].modifier : i \in DOMAIN flight} \cup {state.salt}
           unused  == Modifiers \ (deployed \cup pending)
<1>1. CASE unused = {}
  BY <1>1 DEF FreshAddress, Addresses
<1>2. CASE unused # {}
  <2>1. (CHOOSE m \in unused : TRUE) \in unused
    BY <1>2
  <2> QED
    BY <1>2, <2>1 DEF FreshAddress, Addresses
<1> QED
  BY <1>1, <1>2

\* Every step keeps the addresses.
LEMMA AddressStep == AInv /\ AddressesKnown /\ [Next]_vars => AddressesKnown'
<1> SUFFICES ASSUME AInv, AddressesKnown, [Next]_vars PROVE AddressesKnown'
  OBVIOUS
<1>0. NoModifier \in Addresses /\ NoState.modifier = NoModifier /\ NoState.salt = NoModifier
  BY DEF Addresses, NoState
<1> USE DEF AddressesKnown
<1>1. CASE GateSteps /\ UNCHANGED setupVars
  <2>1. UNCHANGED chainVars /\ env'.modifier = env.modifier
    BY <1>1 DEF GateSteps, BotParses, BotStarts, BotStops, DoctorPasses, Confirm, WriteActivation, UpdateEnv,
                ClearDeactivation, ActivationEnds, WriteDeactivation, ClearActivation, DeactivationCrashes,
                AInv, Shapes, NoEnv
  <2> QED
    BY <1>1, <2>1
<1>2. CASE GateSessions /\ UNCHANGED <<state, mem, flight, landed, funded, discarded, proposals>>
  <2>1. UNCHANGED chainVars /\ env'.modifier = env.modifier
    BY <1>2 DEF GateSessions, ActivationBegins, Tune, EditDryRun, AInv, Shapes, NoEnv
  <2> QED
    BY <1>2, <2>1
<1>3. CASE Begin
  <2> PICK signer \in Signers, existing \in BOOLEAN, modifier \in deployed \cup {NoModifier} :
        mem' = [NoState EXCEPT !.existing = existing, !.storage = signer.storage,
                               !.key = signer.key, !.safe = existing,
                               !.modifier = modifier, !.salt = FreshAddress]
    BY <1>3 DEF Begin
  <2>1. mem'.modifier = modifier /\ mem'.salt = FreshAddress
    BY DEF NoState
  <2> QED
    BY <1>3, <2>1, FreshAddressKnown DEF Begin, Addresses
<1>4. CASE Resume \/ TopUp \/ PersistKey \/ Fund \/ Ready \/ OwnerDone \/ Verify \/ RepairKill \/ RepairUnmark
  BY <1>4 DEF Resume, TopUp, PersistKey, Fund, Ready, OwnerDone, Verify, RepairKill, RepairUnmark, Started
<1>5. CASE Repair
  <2>1. mem'.modifier = env.modifier /\ mem'.salt = FreshAddress
    BY <1>5 DEF Repair, NoState
  <2> QED
    BY <1>5, <2>1, FreshAddressKnown DEF Repair
<1>6. CASE Cleanup
  BY <1>0, <1>6 DEF Cleanup
<1>7. CASE SessionEnds \/ CleanKey
  BY <1>0, <1>7, FlightForgotten DEF SessionEnds, CleanKey, Done
<1>8. CASE SaveState
  <2>1. state'.modifier = mem.modifier /\ state'.salt = mem.salt
    BY <1>8 DEF SaveState, Persisted, AInv, Shapes, SessionFields, NoState
  <2> QED
    BY <1>8, <2>1 DEF SaveState
<1>9. CASE Mine
  BY <1>9, MineStaysInScope DEF Mine
<1>10. CASE Evict
  BY <1>10, FlightEvicted DEF Evict
<1>11. CASE SafeStep
  BY <1>0, <1>11, FlightGrows DEF SafeStep
<1>12. CASE SafeLanded \/ ModifierLanded
  <2>1. /\ mem'.modifier \in {mem.modifier, mem.salt} /\ mem'.salt = mem.salt
        /\ DOMAIN mem' = DOMAIN mem
    BY <1>12 DEF SafeLanded, ModifierLanded, AInv, Shapes, SessionFields, NoState
  <2>2. \/ state' = state
        \/ state'.modifier = mem'.modifier /\ state'.salt = mem'.salt
    BY <1>12, <2>1 DEF SafeLanded, ModifierLanded, Persisted, AInv, Shapes, SessionFields, NoState
  <2>3. env'.modifier \in {env.modifier, mem.salt}
    BY <1>12 DEF SafeLanded, ModifierLanded, AInv, Shapes, NoEnv
  <2> QED
    BY <1>12, <2>1, <2>2, <2>3 DEF SafeLanded, ModifierLanded
<1>13. CASE Configure
  BY <1>13, FlightGrows DEF Configure
<1>14. CASE ConfigureLanded
  BY <1>14 DEF ConfigureLanded
<1>15. CASE Audit
  <2>1. mem'.modifier \in {mem.modifier, NoModifier} /\ mem'.salt = mem.salt
    BY <1>15 DEF Audit, AInv, Shapes, SessionFields, NoState
  <2> QED
    BY <1>0, <1>15, <2>1 DEF Audit
<1>16. CASE ModifierStep
  BY <1>16, FlightGrows DEF ModifierStep, Addresses
<1>17. CASE OwnerExecutes
  BY <1>17, ExecuteStaysInScope DEF OwnerExecutes
<1>18. CASE OwnerGrants
  <2>1. grants' \in [Modifiers -> Manifests]
    BY <1>18 DEF OwnerGrants, Manifests
  <2> QED
    BY <1>18, <2>1 DEF OwnerGrants
<1>19. CASE WriteEnv
  BY <1>19 DEF WriteEnv
<1>20. CASE CleanState
  BY <1>0, <1>20, FlightForgotten DEF CleanState, Done
<1>21. CASE RepairDry
  BY <1>21 DEF RepairDry, AInv, Shapes, NoEnv
<1>22. CASE RepairEnv
  <2>1. env'.modifier = mem.modifier
    BY <1>22 DEF RepairEnv, AInv, Shapes, NoEnv
  <2> QED
    BY <1>0, <1>22, <2>1, FlightForgotten DEF RepairEnv, Done
<1>23. CASE UNCHANGED vars
  BY <1>23 DEF vars
<1> QED
  BY <1>1, <1>2, <1>3, <1>4, <1>5, <1>6, <1>7, <1>8, <1>9, <1>10, <1>11, <1>12, <1>13, <1>14, <1>15, <1>16,
     <1>17, <1>18, <1>19, <1>20, <1>21, <1>22, <1>23 DEF Next, RuntimeNext

\* Steps that leave what is granted, or add what is reviewed, and neither
\* activate nor start anything.
LEMMA ScopeFrame ==
  ASSUME Scoped, \A m \in Modifiers : grants[m] = Reviewed => grants'[m] = Reviewed,
         marker' \in {marker, NoPolicy}, UNCHANGED <<bot, candidate>>,
         op' = op \/ op' \notin {"confirm"} \cup Persisting
  PROVE  Scoped'
BY DEF Scoped, InScope

\* Every step keeps the scope.
LEMMA ScopeStep == AInv /\ SInv /\ [Next]_vars => Scoped'
<1> SUFFICES ASSUME AInv, SInv, [Next]_vars PROVE Scoped'
  OBVIOUS
<1> USE DEF SInv
<1>1. CASE BotParses \/ BotStops
  <2>1. bot'.phase # "running"
    BY <1>1 DEF BotParses, BotStops, Off
  <2> QED
    BY <1>1, <2>1 DEF BotParses, BotStops, Scoped, InScope
<1>2. CASE BotStarts
  <2>1. bot'.modifier = bot.modifier /\ (~bot'.dry => Activated) /\ bot.phase = "parsed"
    BY <1>2 DEF BotStarts, AInv, Shapes, Off
  <2>2. Activated => marker # NoPolicy /\ marker.modifier = bot.modifier
    BY <2>1 DEF Activated, PolicyOf, NoPolicy, AInv, ModifierKnown
  <2> QED
    BY <1>2, <2>1, <2>2 DEF BotStarts, Scoped, InScope
<1>3. CASE DoctorPasses
  <2> DEFINE m == candidate.policy.modifier
  <2>1. m \in Modifiers /\ grants[m] \in Manifests /\ Exact(grants[m])
    BY <1>3 DEF DoctorPasses, Doctor, SafeWired, ManifestExact, AddressesKnown
  <2>2. InScope(m)
    BY <2>1, ExactIsReviewed DEF InScope
  <2> QED
    BY <1>3, <2>2 DEF DoctorPasses, Scoped, InScope
<1>4. CASE Confirm \/ UpdateEnv
  BY <1>4 DEF Confirm, UpdateEnv, Scoped, InScope, Persisting
<1>5. CASE WriteActivation
  BY <1>5 DEF WriteActivation, Scoped, InScope, Persisting
<1>6. CASE ClearDeactivation \/ ActivationEnds \/ ActivationBegins
  BY <1>6 DEF ClearDeactivation, ActivationEnds, ActivationBegins, Scoped, InScope, Persisting
<1>7. CASE WriteDeactivation \/ ClearActivation \/ DeactivationCrashes \/ Tune \/ EditDryRun
  BY <1>7, ScopeFrame DEF WriteDeactivation, ClearActivation, DeactivationCrashes, Tune, EditDryRun
<1>8. CASE \/ Begin \/ Resume \/ Repair \/ Cleanup \/ SessionEnds \/ PersistKey \/ SaveState \/ Fund \/ TopUp
  <2>1. /\ UNCHANGED <<grants, marker, bot, candidate>>
        /\ op' = op \/ op' \in {"state", "persist", "audit", "safe", "repairKill", "idle", "fund"}
    BY <1>8 DEF Begin, Resume, Repair, Cleanup, SessionEnds, PersistKey, SaveState, Fund, TopUp, Done
  <2> QED
    BY <2>1, ScopeFrame DEF Persisting
<1>9. CASE Mine \/ OwnerExecutes
  <2>1. /\ \A m \in Modifiers : grants[m] = Reviewed => grants'[m] = Reviewed
        /\ UNCHANGED gateVars
    BY <1>9, MineStaysInScope, ExecuteStaysInScope DEF Mine, OwnerExecutes
  <2> QED
    BY <2>1, ScopeFrame
<1>10. CASE \/ Evict \/ SafeStep \/ SafeLanded \/ Configure \/ ConfigureLanded \/ Audit \/ ModifierStep
            \/ ModifierLanded
  <2>1. /\ UNCHANGED <<grants, marker, bot, candidate>>
        /\ \/ op' = op
           \/ op' \in {"modifier", "safeWait", "verify", "configureWait", "ready", "configure", "moduleWait"}
    BY <1>10 DEF Evict, SafeStep, SafeLanded, Configure, ConfigureLanded, Audit, ModifierStep, ModifierLanded
  <2> QED
    BY <2>1, ScopeFrame DEF Persisting
<1>11. CASE \/ Ready \/ OwnerDone \/ Verify \/ WriteEnv \/ CleanState \/ CleanKey \/ RepairKill
            \/ RepairUnmark \/ RepairDry \/ RepairEnv
  <2>1. /\ UNCHANGED <<grants, bot, candidate>> /\ marker' \in {marker, NoPolicy}
        /\ op' \in {"repairEnv", "verify", "owner", "env", "cleanState", "cleanKey", "idle",
                    "repairUnmark", "repairDry", "audit"}
    BY <1>11 DEF Ready, OwnerDone, AfterReady, Verify, WriteEnv, CleanState, CleanKey, RepairKill,
                 RepairUnmark, RepairDry, RepairEnv, Done
  <2> QED
    BY <2>1, ScopeFrame DEF Persisting
<1>12. CASE OwnerGrants
  <2>1. op' = "idle" /\ bot'.phase = "off" /\ marker' = NoPolicy
    BY <1>12 DEF OwnerGrants, Off
  <2> QED
    BY <2>1 DEF Scoped, Persisting
<1>13. CASE UNCHANGED vars
  BY <1>13, ScopeFrame DEF vars
<1> QED
  BY <1>1, <1>2, <1>3, <1>4, <1>5, <1>6, <1>7, <1>8, <1>9, <1>10, <1>11, <1>12, <1>13
     DEF Next, RuntimeNext, GateSteps, GateSessions

\* A bot that can send sends through a modifier that grants it what was reviewed
\* and nothing else, whatever sessions, repairs, crashes and transactions in
\* flight come between the audit the operator confirmed and the trade
\* (scripts/lib/existingSafe.ts:345-387, scripts/lib/diagnostics/checks.ts).
THEOREM TradesStayInScope == Spec => []TradesInsideScope
<1>1. SInv => TradesInsideScope
  BY DEF SInv, Scoped, InScope, TradesInsideScope, CanSend
<1>2. Init => AInv /\ SInv
  BY ActivationInit, ScopeInit
<1>3. AInv /\ SInv /\ [Next]_vars => (AInv /\ SInv)'
  BY ActivationStep, AddressStep, ScopeStep DEF SInv
<1> QED
  BY <1>1, <1>2, <1>3, PTL DEF Spec

=============================================================================
