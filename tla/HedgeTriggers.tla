---------------------------- MODULE HedgeTriggers ----------------------------
(***************************************************************************)
(* The wake-up hints of src/src/runtime/hedgeTriggerMonitor.ts: the drift  *)
(* of a cached snapshot as a function of the tick, the boundaries found by *)
(* doubling and bisection, and the latches of observe().                   *)
(***************************************************************************)
EXTENDS Integers

CONSTANTS
  MaxTick,    \* ticks are 0..MaxTick
  Threshold,  \* DELTA_THRESHOLD_BPS
  Slope       \* drift per tick of distance from where the book is neutral

ASSUME TriggerAssumption == MaxTick \in Nat \ {0} /\ Threshold \in Nat /\ Slope \in Nat

Ticks == 0..MaxTick

\* Books: "gamma" drifts ever further, "capped" saturates on one side, and the
\* legs of a "mixed" book oppose each other.
Shapes == {"gamma", "capped", "mixed"}

\* computeHedgeDrift at a tick, for a book that is neutral at tick h.
DriftAt(shape, h, t) ==
  LET d == IF t > h THEN t - h ELSE h - t
  IN  CASE shape = "gamma" -> Slope * d
        [] shape = "capped" ->
             IF t > h /\ Slope * d > Threshold + 1 THEN Threshold + 1 ELSE Slope * d
        [] shape = "mixed" -> IF 2 * d <= MaxTick THEN Slope * d ELSE Slope * (MaxTick - d)

\* hedgeMonitorMode.
Mode(shape) == IF shape = "mixed" THEN "local-eval" ELSE "boundaries"

Approach == (Threshold * 9) \div 10
Release == (Threshold * 8) \div 10

NoBoundary == -1

Middle(safe, triggered) == safe + (triggered - safe) \div 2

\* The bisection between a safe tick and a triggered one, and the first one above
\* it ends on.  Ticks are distances from the current one, up to last.
Bisect(above, last) ==
  LET bisect[p \in (0..last) \X (0..last)] ==
        IF p[2] - p[1] <= 1 THEN p[2]
        ELSE IF above[Middle(p[1], p[2])] THEN bisect[<<p[1], Middle(p[1], p[2])>>]
        ELSE bisect[<<Middle(p[1], p[2]), p[2]>>]
  IN  bisect

\* Steps from a safe tick that double up to the end of the range.
Candidate(p, last) == IF p[1] + p[2] > last THEN last ELSE p[1] + p[2]

Double(above, last) ==
  LET double[p \in (0..last) \X (1..2 * last + 1)] ==
        IF above[Candidate(p, last)] THEN Bisect(above, last)[<<p[1], Candidate(p, last)>>]
        ELSE IF Candidate(p, last) = last THEN NoBoundary
        ELSE double[<<Candidate(p, last), 2 * p[2]>>]
  IN  double

\* The search of findDriftBoundaries on one side of a safe tick.
Search(above, last) == IF last = 0 THEN NoBoundary ELSE Double(above, last)[<<0, 1>>]

\* Mutant: without the bisection.
BoundariesCoarse(shape, h, at, threshold) ==
  LET Above(t) == DriftAt(shape, h, t) > threshold
      up == {t \in (at + 1)..MaxTick : Above(t) /\ \E k \in 0..3 : t = at + 2 ^ k - 1 \/ t = MaxTick}
      down == {t \in 0..(at - 1) : Above(t) /\ \E k \in 0..3 : t = at - 2 ^ k + 1 \/ t = 0}
  IN  IF Above(at) THEN [down |-> at, up |-> at]
      ELSE [down |-> IF down = {} THEN NoBoundary ELSE CHOOSE t \in down : \A u \in down : u <= t,
            up |-> IF up = {} THEN NoBoundary ELSE CHOOSE t \in up : \A u \in up : t <= u]

\* findDriftBoundaries: the closest ticks whose drift is strictly above.
Boundaries(shape, h, at, threshold) ==
  LET Above(t) == DriftAt(shape, h, t) > threshold
      up == Search([d \in 0..(MaxTick - at) |-> Above(at + d)], MaxTick - at)
      down == Search([d \in 0..at |-> Above(at - d)], at)
  IN  IF Above(at) THEN [down |-> at, up |-> at]
      ELSE [down |-> IF down = NoBoundary THEN NoBoundary ELSE at - down,
            up |-> IF up = NoBoundary THEN NoBoundary ELSE at + up]

Crossed(t, b) == (b.down # NoBoundary /\ t <= b.down) \/ (b.up # NoBoundary /\ t >= b.up)

NoBands == [known |-> FALSE]

\* refresh(): the drift of the snapshot itself is already known to the cycle
\* that took it.
Refresh(shape, h, at) ==
  [known |-> TRUE, neutral |-> h, at |-> at,
   approachLatched |-> DriftAt(shape, h, at) > Approach,
   crossingLatched |-> DriftAt(shape, h, at) > Threshold]

\* Whether the cached snapshot calls tick t beyond a threshold.
Beyond(shape, mon, t, threshold) ==
  IF Mode(shape) = "boundaries" THEN Crossed(t, Boundaries(shape, mon.neutral, mon.at, threshold))
  ELSE DriftAt(shape, mon.neutral, t) > threshold

\* Below four fifths of the threshold both latches open.
Released(shape, mon, t) ==
  IF DriftAt(shape, mon.neutral, t) <= Release
  THEN [mon EXCEPT !.approachLatched = FALSE, !.crossingLatched = FALSE] ELSE mon

\* observe(): the reason to wake and the latches after it.
Observe(shape, mon, t) ==
  LET free == Released(shape, mon, t)
  IN  IF Beyond(shape, mon, t, Threshold) /\ ~free.crossingLatched
      THEN [reason |-> "hedge-crossed",
            mon |-> [free EXCEPT !.crossingLatched = TRUE, !.approachLatched = TRUE]]
      ELSE IF Beyond(shape, mon, t, Approach) /\ ~free.approachLatched
      THEN [reason |-> "hedge-approach", mon |-> [free EXCEPT !.approachLatched = TRUE]]
      ELSE [reason |-> "none", mon |-> free]

=============================================================================
