---------------------------- MODULE RolesGrants ----------------------------
(***************************************************************************)
(* What the bot may do on chain: a Safe, the Zodiac Roles modifiers that   *)
(* are its modules, and the calls only the Safe's owner can make.          *)
(*                                                                         *)
(* A modifier's permissions are the manifest that                          *)
(* scripts/lib/authorizationManifest.ts rebuilds from its events, reduced  *)
(* to the four entries the audit tells apart: the bot's membership, the    *)
(* clearance of the pool, the conditions on dispatch, and whether there is *)
(* anything else.  The audit (Diff) compares the manifest with the one     *)
(* that was reviewed; the two probes of scripts/lib/verifyScope.ts look at *)
(* the layer on which a call reverts.  The off-venue venue's and the other *)
(* keeper roles' entries are left out: they are compared the same way.     *)
(*                                                                         *)
(* The owner's calls run as a batch that reverts as a whole.  The order    *)
(* inside it matters: Safe keeps its modules in a linked list that         *)
(* enableModule prepends to, and disableModule names the predecessor.      *)
(***************************************************************************)
EXTENDS Naturals, Sequences, SequencesExt

CONSTANTS
    Modifiers,   \* addresses a Roles modifier can have
    NoModifier   \* no address: undefined in the code

ASSUME ModifiersAssumption == NoModifier \notin Modifiers

Manifests ==
    [member   : BOOLEAN,                      \* the bot is assigned the role
     target   : {"none", "function", "all"},  \* scopeTarget, allowTarget
     dispatch : {"none", "loans", "all"},     \* scopeFunction, allowFunction
     stray    : BOOLEAN]                      \* any other permission

Empty    == [member |-> FALSE, target |-> "none",     dispatch |-> "none",  stray |-> FALSE]
Reviewed == [member |-> TRUE,  target |-> "function", dispatch |-> "loans", stray |-> FALSE]

Expected == {"member", "target", "dispatch"}

Missing(manifest)    == {e \in Expected : manifest[e] = Empty[e]}
Changed(manifest)    == {e \in Expected : manifest[e] \notin {Empty[e], Reviewed[e]}}

\* Mutant: only what is expected is compared.
UnexpectedIgnored(manifest) == {}

Unexpected(manifest) == {e \in {"stray"} : manifest.stray}

Exact(manifest) ==
    Missing(manifest) \cup Changed(manifest) \cup Unexpected(manifest) = {}

\* The layer on which execTransactionWithRole stops a dispatch by the bot:
\* "refused" before the conditions, "violation" by them, or let through.
Gate(manifest, positions) ==
    CASE ~manifest.member                                      -> "refused"
      [] manifest.member /\ manifest.target = "all"            -> "through"
      [] manifest.member /\ manifest.target = "none"           -> "violation"
      [] OTHER -> IF manifest.dispatch = "all" \/ (manifest.dispatch = "loans" /\ positions = "loan")
                  THEN "through" ELSE "violation"

\* The probes: a loan must not be stopped by the conditions, and an option
\* must be stopped by the conditions and by nothing before them.
LoanOnlyVerified(manifest) ==
    /\ Gate(manifest, "loan") # "violation"
    /\ Gate(manifest, "option") = "violation"

-----------------------------------------------------------------------------
(* The chain: one Safe, its modules head first, and the owner's calls.     *)

NoSafe == [owner |-> "none", modules |-> <<>>, approvals |-> FALSE]

VARIABLES
    safe,       \* its owner, its modules and its token approvals
    deployed,   \* the modifiers that have code
    grants      \* the manifest of every modifier

chainVars == <<safe, deployed, grants>>

SafeExists          == safe.owner # "none"
IsModuleEnabled(m)  == Contains(safe.modules, m)

\* The head of the list is its own predecessor: the sentinel.
ModulePredecessor(modules, m) ==
    IF Head(modules) = m THEN NoModifier
    ELSE CHOOSE p \in ToSet(modules) :
            \E i \in 1 .. Len(modules) - 1 : modules[i] = p /\ modules[i + 1] = m

Enable(m)          == [do |-> "enable",  module |-> m, prev |-> NoModifier]
Disable(m, p)      == [do |-> "disable", module |-> m, prev |-> p]
Grant(entry, m)    == [do |-> entry,     module |-> m, prev |-> NoModifier]
Approve(m)         == [do |-> "approve", module |-> m, prev |-> NoModifier]
SwapOwner(m)       == [do |-> "swap",    module |-> m, prev |-> NoModifier]

\* assignRoles, scopeTarget, scopeFunction and the approvals, after the
\* module is enabled and before the Safe is handed over.
ConfigureCalls(m, includeEnable, handOver) ==
    (IF includeEnable THEN <<Enable(m)>> ELSE <<>>)
    \o <<Grant("member", m), Grant("target", m), Grant("dispatch", m), Approve(m)>>
    \o (IF handOver THEN <<SwapOwner(m)>> ELSE <<>>)

\* What a batch leaves granted: it revokes nothing.
Granted(calls) ==
    [m \in Modifiers |-> [entry \in DOMAIN Empty |->
        IF Grant(entry, m) \in ToSet(calls) THEN Reviewed[entry] ELSE grants[m][entry]]]

\* One call, on what those before it have made of the list of modules.
Linked(list, call) ==
    CASE call.do = "enable" ->
            IF Contains(list.modules, call.module) THEN [list EXCEPT !.ok = FALSE]
            ELSE [list EXCEPT !.modules = <<call.module>> \o @]
      [] call.do = "disable" ->
            IF /\ Contains(list.modules, call.module)
               /\ ModulePredecessor(list.modules, call.module) = call.prev
            THEN [list EXCEPT !.modules = Remove(@, call.module)]
            ELSE [list EXCEPT !.ok = FALSE]
      [] OTHER -> list

Outcome(calls) ==
    LET linked    == FoldLeft(Linked, [ok |-> TRUE, modules |-> safe.modules], calls)
        Calls(do) == \E call \in ToSet(calls) : call.do = do
    IN [ok        |-> linked.ok,
        modules   |-> linked.modules,
        owner     |-> IF Calls("swap") THEN "user" ELSE safe.owner,
        approvals |-> safe.approvals \/ Calls("approve"),
        grants    |-> Granted(calls)]

\* A batch is one transaction of the Safe: all of its calls or none.
Execute(calls) ==
    LET after == Outcome(calls) IN
    IF after.ok
    THEN /\ safe' = [owner |-> after.owner, modules |-> after.modules, approvals |-> after.approvals]
         /\ grants' = after.grants
         /\ UNCHANGED deployed
    ELSE UNCHANGED chainVars

\* createProxyWithNonce and deployModule revert where there is code already.
CreateSafe ==
    /\ safe' = IF SafeExists THEN safe ELSE [NoSafe EXCEPT !.owner = "bot"]
    /\ UNCHANGED <<deployed, grants>>

DeployModifier(m) ==
    /\ deployed' = deployed \cup {m}
    /\ UNCHANGED <<safe, grants>>

=============================================================================
