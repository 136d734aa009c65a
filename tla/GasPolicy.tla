------------------------------ MODULE GasPolicy ------------------------------
(***************************************************************************)
(* The fee arithmetic of src/src/gas/gasPolicy.ts: the deferral gate, the  *)
(* fees of a first attempt and those of its replacements.  Fees are whole  *)
(* units; alerts and the pre-1559 path are left out.                       *)
(***************************************************************************)
EXTENDS Integers

CONSTANTS
  MaxFee,         \* MAX_FEE_GWEI
  MaxPriority,    \* MAX_PRIORITY_FEE_GWEI
  MinPriority,    \* MIN_PRIORITY_FEE_GWEI
  UrgentPriority, \* URGENT_PRIORITY_FEE_GWEI
  HedgeMaxBase,   \* HEDGE_MAX_BASE_FEE_GWEI
  UrgentMaxBase   \* URGENT_MAX_BASE_FEE_GWEI

\* What config.ts accepts.
ASSUME GasAssumption ==
  /\ {MaxFee, MaxPriority, MinPriority, UrgentPriority, HedgeMaxBase, UrgentMaxBase}
       \subseteq Nat \ {0}
  /\ HedgeMaxBase <= UrgentMaxBase /\ UrgentMaxBase <= MaxFee
  /\ MinPriority <= MaxPriority /\ MinPriority <= MaxFee /\ UrgentPriority <= MaxFee

Fees == [max : Nat, tip : Nat]

NoFees == [max |-> 0, tip |-> 0]

Lower(a, b) == IF a <= b THEN a ELSE b
Upper(a, b) == IF a >= b THEN a ELSE b

\* assess(): routine hedges wait out a spike that urgent ones tolerate.
Proceeds(base, urgent) == base <= (IF urgent THEN UrgentMaxBase ELSE HedgeMaxBase)

\* The tip: the node's estimate below the ceiling, lifted to the floor, and to
\* the urgent floor even past the ceiling.
Tip(estimated, urgent) ==
  LET routine == Upper(Lower(estimated, Lower(MaxPriority, MaxFee)), Lower(MinPriority, MaxFee))
  IN  IF urgent THEN Upper(routine, Lower(UrgentPriority, MaxFee)) ELSE routine

\* fees(): twice the base fee and the tip, below the cap.
FreshFees(base, estimated, urgent) ==
  [max |-> Lower(2 * base + Tip(estimated, urgent), MaxFee), tip |-> Tip(estimated, urgent)]

MultiplyRatioCeil(value, numerator, denominator) ==
  (value * numerator + denominator - 1) \div denominator

\* Mutant: the quarter is rounded down.
RaisedDown(fee) == (fee * 125) \div 100

\* What a replacement must offer at least.
Raised(fee) == MultiplyRatioCeil(fee, 125, 100)

\* bumped(): the larger of a fresh estimate and the last attempt and a quarter,
\* on both fields, or NoFees past the cap.
Bumped(prev, fresh) ==
  LET max == Upper(Raised(prev.max), fresh.max)
      tip == Lower(Upper(Raised(prev.tip), fresh.tip), max)
  IN  IF max > MaxFee THEN NoFees ELSE [max |-> max, tip |-> tip]

\* The node's rule for a replacement: a tenth more on both fields.
NodeTakes(new, old) ==
  /\ new.max > old.max /\ new.tip > old.tip
  /\ 10 * new.max >= 11 * old.max /\ 10 * new.tip >= 11 * old.tip

=============================================================================
