--------------------------- MODULE HedgePlan_proofs ---------------------------
(***************************************************************************)
(* What HedgePlan guarantees for every market, book and deployment: a      *)
(* dispatch with a mint that is sent at the block it was assessed at keeps *)
(* the margin reserve, the planner answers every drift beyond the          *)
(* threshold, and a consolidation keeps the delta and the hedge of the     *)
(* book it replaces.                                                       *)
(***************************************************************************)
EXTENDS HedgePlan, FiniteSetTheorems, WellFoundedInduction, TLAPS

-----------------------------------------------------------------------------
(***************************************************************************)
(* The reserve.  The preflight may change the route, and the world may     *)
(* move between it and the send; what was assessed is what is sent only    *)
(* because every move is later than the assessment.                        *)
(***************************************************************************)

\* A dispatch with a mint, by one of the routes whose reserve is assessed.
Assessed ==
  plan.intent.mints # {} /\ plan.route.kind \in {"in-pool", "netted"}

\* A plan has its fields, and is not assessed before the preflight.
PlanUnassessed ==
  pc = "planned" => plan.assessedAt = -1 /\ {"route", "assessedAt"} \subseteq DOMAIN plan

\* An assessment is never ahead of the world.
AssessmentPast ==
  moves \in Nat /\ (pc = "checked" => plan.assessedAt \in Int /\ plan.assessedAt <= moves)

\* While the world has not moved, the assessment holds of what will be sent.
AssessmentStands ==
  pc = "checked" /\ plan.assessedAt = moves /\ Assessed =>
    Sufficient(plan.intent, plan.route, tick)

RInv == PlanUnassessed /\ AssessmentPast /\ AssessmentStands

\* A step of the world while a plan waits makes its assessment an old one.
LEMMA MovesOutdate ==
  ASSUME RInv, Moves, UNCHANGED <<pc, plan>>
  PROVE  RInv'
<1>1. moves' = moves + 1 /\ moves \in Nat
  BY DEF Moves, RInv, AssessmentPast
<1>2. PlanUnassessed'
  BY DEF RInv, PlanUnassessed
<1>3. AssessmentPast'
  BY <1>1 DEF RInv, AssessmentPast
<1>4. AssessmentStands'
  BY <1>1 DEF RInv, AssessmentPast, AssessmentStands
<1> QED BY <1>2, <1>3, <1>4 DEF RInv

\* A step that leaves the cycle with nothing to send.
LEMMA NothingPlanned ==
  ASSUME RInv, pc' \notin {"planned", "checked"}, moves' \in Nat
  PROVE  RInv'
BY DEF RInv, PlanUnassessed, AssessmentPast, AssessmentStands

LEMMA PreflightAssesses == ASSUME RInv, Preflight PROVE RInv'
<1> DEFINE i == plan.intent
           wanted == WithFallback(i, plan.route)
           assessed == wanted.kind \in {"in-pool", "netted"} /\ i.mints # {}
           route == IF assessed /\ ~Sufficient(i, wanted, tick) THEN InPool ELSE wanted
<1>1. /\ pc = "planned" /\ moves' = moves /\ tick' = tick /\ acc' = acc /\ safeMode' = safeMode
      /\ plan.assessedAt = -1 /\ {"route", "assessedAt"} \subseteq DOMAIN plan /\ moves \in Nat
  BY DEF Preflight, world, RInv, PlanUnassessed, AssessmentPast
<1>2. CASE assessed /\ ~Sufficient(i, route, tick)
  <2>1. pc' = "idle"
    BY <1>2 DEF Preflight
  <2> QED BY <1>1, <2>1, NothingPlanned
<1>3. CASE ~(assessed /\ ~Sufficient(i, route, tick))
  <2>1. pc' = "checked"
    BY <1>3 DEF Preflight
  <2>2. PICK r \in {route} \union {o \in OffVenueRoutes(i) : route = InPool} :
          plan' = [plan EXCEPT !.route = r, !.assessedAt = IF assessed THEN moves ELSE @]
    BY <1>3, Zenon DEF Preflight
  <2>3. r.kind = "off-venue" \/ r = route
    BY DEF OffVenueRoutes
  <2> HIDE DEF assessed, route
  <2>4. /\ plan'.route = r /\ plan'.assessedAt = (IF assessed THEN moves ELSE -1)
        /\ plan'.intent = i
    BY <1>1, <2>2
  <2>5. AssessmentPast'
    BY <1>1, <2>4 DEF AssessmentPast
  <2>6. AssessmentStands'
    <3>1. SUFFICES ASSUME assessed, r = route
                   PROVE  Sufficient(plan.intent, plan.route, tick)'
      BY <1>1, <2>3, <2>4 DEF AssessmentStands, Assessed
    <3>2. Sufficient(i, route, tick)
      BY <1>3, <3>1
    <3> QED BY <1>1, <2>4, <3>1, <3>2
              DEF Sufficient, PreviewOk, After
  <2> QED BY <2>1, <2>5, <2>6 DEF RInv, PlanUnassessed
<1> QED BY <1>2, <1>3

LEMMA RInit == Init => RInv
BY DEF Init, RInv, PlanUnassessed, AssessmentPast, AssessmentStands

LEMMA RStep == RInv /\ [Next]_vars => RInv'
<1> SUFFICES ASSUME RInv, [Next]_vars PROVE RInv'
  OBVIOUS
<1>1. CASE World
  <2>1. Moves /\ UNCHANGED <<pc, plan>>
    BY <1>1 DEF World, MarketMoves, SignalMoves, OptionsClose, AdoptLoan, UserTransfers,
                CadenceElapses, SafeModeChanges
  <2> QED BY <2>1, MovesOutdate
<1>2. CASE Defer \/ SwapFails
  <2>1. pc' = "idle" /\ moves' \in {moves, moves + 1} /\ moves \in Nat
    BY <1>2 DEF Defer, SwapFails, Moves, RInv, AssessmentPast
  <2> QED BY <2>1, NothingPlanned
<1>3. CASE RecoverSwap \/ Redeposit \/ SendLands \/ SendReverts \/ SwapLands
  <2>1. pc' \in {"idle", "swapping"} /\ moves' = moves /\ moves \in Nat
    BY <1>3 DEF RecoverSwap, Redeposit, SendLands, SendReverts, SwapLands, world, RInv, AssessmentPast
  <2> QED BY <2>1, NothingPlanned
<1>4. CASE PlanHedge
  <2>1. pc' = "planned" /\ moves' = moves
    BY <1>4 DEF PlanHedge, world
  <2>2. plan'.assessedAt = -1 /\ {"route", "assessedAt"} \subseteq DOMAIN plan'
    BY <1>4 DEF PlanHedge
  <2> QED BY <2>1, <2>2 DEF RInv, PlanUnassessed, AssessmentPast, AssessmentStands
<1>5. CASE Preflight
  BY <1>5, PreflightAssesses
<1>6. CASE UNCHANGED vars
  BY <1>6 DEF vars, RInv, PlanUnassessed, AssessmentPast, AssessmentStands, Assessed, Sufficient,
              PreviewOk, After
<1> QED BY <1>1, <1>2, <1>3, <1>4, <1>5, <1>6 DEF Next, Cycle

\* A dispatch with a mint, sent in the market its reserve was assessed in, leaves
\* the account with the reserve in both numeraires, whichever route the preflight
\* fell back to (hedge/marginReserve.ts and the preflight of hedgerBot.ts).
THEOREM ReserveIsKept == Spec => ReserveSurvives
<1> DEFINE Keeps ==
      /\ SendLands /\ plan.intent.mints # {} /\ plan.assessedAt = moves
      /\ plan.route.kind \in {"in-pool", "netted"}
      => ReserveKept(acc', tick)
<1>1. RInv /\ [Next]_vars => [Keeps]_vars
  <2> SUFFICES ASSUME RInv, SendLands, Assessed, plan.assessedAt = moves
               PROVE  ReserveKept(acc', tick)
    BY DEF Assessed
  <2>1. Sufficient(plan.intent, plan.route, tick)
    BY DEF RInv, AssessmentStands, SendLands
  <2> QED BY <2>1 DEF Sufficient, SendLands
<1> QED BY <1>1, RInit, RStep, PTL DEF Spec, ReserveSurvives

-----------------------------------------------------------------------------
(***************************************************************************)
(* The planner.                                                            *)
(***************************************************************************)

\* An exposure as computeHedgeExposure and computeHedgeDrift relate its parts.
IsExposure(e) ==
  /\ e.H \in Int /\ e.Hstar \in Int /\ e.basis \in Int /\ e.effective \in Int
  /\ e.Hstar = e.H - e.effective
  /\ e.drift = IF e.basis > 0 THEN Quotient(Magnitude(e.effective) * BPS, e.basis) ELSE 0

\* Only a target that differs from the hedge drifts.
LEMMA DriftHasCause ==
  ASSUME NEW e, IsExposure(e), HardDrift(e)
  PROVE  e.basis > 0 /\ e.Hstar # e.H
<1>1. e.basis > 0
  BY PlanAssumption DEF IsExposure, HardDrift
<1>2. ASSUME e.Hstar = e.H PROVE FALSE
  <2>1. e.effective = 0
    BY <1>2 DEF IsExposure
  <2>2. Magnitude(e.effective) * BPS = 0
    BY <2>1 DEF Magnitude, BPS
  <2>3. e.drift = 0 \div e.basis
    BY <1>1, <2>2 DEF IsExposure, Quotient
  <2>4. 0 \div e.basis = 0
    BY <1>1 DEF IsExposure
  <2> QED BY <2>3, <2>4, PlanAssumption DEF HardDrift
<1> QED BY <1>1, <1>2

\* Two hedges that are not the same, neither zero nor opposite, differ in size.
LEMMA SizesDiffer ==
  ASSUME NEW a \in Int, NEW b \in Int, a # b, SameSign(a, b)
  PROVE  Magnitude(a) > Magnitude(b) \/ Magnitude(a) < Magnitude(b)
BY DEF SameSign, Magnitude

\* The five-case tree has an action for every drift beyond the threshold,
\* however full or mixed the book is.
LEMMA DriftHasAction ==
  ASSUME NEW e, IsExposure(e), HardDrift(e)
  PROVE  Action(e) # "none"
<1>1. e.basis # 0 /\ e.Hstar # e.H /\ DeltaDrift(e)
  BY DriftHasCause DEF DeltaDrift, IsExposure
<1>2. Action(e) =
        IF e.H = 0 THEN IF e.Hstar = 0 THEN "none" ELSE "open"
        ELSE IF e.Hstar = 0 THEN "close_all"
        ELSE IF ~SameSign(e.H, e.Hstar) THEN "flip"
        ELSE IF Magnitude(e.Hstar) > Magnitude(e.H)
             THEN IF Cardinality(acc.book) + 1 > MaxSlots THEN "rebuild" ELSE "grow"
        ELSE IF Magnitude(e.Hstar) < Magnitude(e.H) THEN "shrink"
        ELSE IF OverCap THEN "consolidate" ELSE "none"
  BY <1>1 DEF Action
<1>3. SameSign(e.H, e.Hstar) =>
        Magnitude(e.Hstar) > Magnitude(e.H) \/ Magnitude(e.Hstar) < Magnitude(e.H)
  BY <1>1, SizesDiffer DEF IsExposure
<1> QED BY <1>1, <1>2, <1>3, Zenon

-----------------------------------------------------------------------------
(***************************************************************************)
(* Sums.  The folds of LoanBook take the elements of a set in an order     *)
(* that CHOOSE picks; a sum is a function on the subsets of its set, and   *)
(* no sum depends on the order.                                            *)
(***************************************************************************)

Pick(s) == CHOOSE x \in s : TRUE

\* total is the sum of g over the subsets of S.
Sums(total, g, S) ==
  \A s \in SUBSET S :
    total[s] = IF s = {} THEN 0 ELSE g[Pick(s)] + total[s \ {Pick(s)}]

\* A set of naturals that is not empty has a least element.
LEMMA LeastExists ==
  ASSUME NEW S \in SUBSET Nat, S # {}
  PROVE  \E m \in S : \A k \in S : m <= k
<1> DEFINE Lt == {p \in Nat \X Nat : p[1] < p[2]}
<1>1. IsWellFoundedOn(Lt, Nat)
  BY NatLessThanWellFounded DEF OpToRel
<1>2. \A k, m \in Nat : k < m => <<k, m>> \in Lt
  OBVIOUS
<1> HIDE DEF Lt
<1>3. PICK m \in S : \A k \in S : ~ (<<k, m>> \in Lt)
  BY <1>1, WFMin
<1>4. ASSUME NEW k \in S
      PROVE  m <= k
  <2>1. k \in Nat /\ m \in Nat
    OBVIOUS
  <2>2. ~ (k < m)
    BY <1>2, <1>3, <2>1, Zenon
  <2> QED BY <2>1, <2>2
<1> QED BY <1>4

\* Among the subsets of a finite set that have something wrong, one has nothing
\* wrong in the sets that are smaller by one element.
LEMMA SmallestSubset ==
  ASSUME NEW S, IsFiniteSet(S), NEW Bad \in SUBSET (SUBSET S), Bad # {}
  PROVE  \E s \in Bad : \A x \in s : s \ {x} \notin Bad
<1> DEFINE Sizes == {Cardinality(s) : s \in Bad}
<1>1. \A s \in SUBSET S : IsFiniteSet(s) /\ Cardinality(s) \in Nat
  BY FS_Subset, FS_CardinalityType
<1>2. PICK s \in Bad : \A t \in Bad : Cardinality(s) <= Cardinality(t)
  <2>1. Sizes \in SUBSET Nat /\ Sizes # {}
    BY <1>1
  <2>2. PICK m \in Sizes : \A k \in Sizes : m <= k
    BY <2>1, LeastExists
  <2> QED BY <2>2
<1>3. ASSUME NEW x \in s
      PROVE  s \ {x} \notin Bad
  <2>1. IsFiniteSet(s) /\ Cardinality(s) \in Nat /\ Cardinality(s \ {x}) = Cardinality(s) - 1
    BY <1>1, FS_RemoveElement
  <2>2. s \ {x} \in Bad => Cardinality(s) <= Cardinality(s \ {x})
    BY <1>2
  <2> QED BY <2>1, <2>2
<1> QED BY <1>3

LEMMA PickIsIn == ASSUME NEW s, s # {} PROVE Pick(s) \in s
BY DEF Pick

\* Sums of integers are integers.
LEMMA SumIsInt ==
  ASSUME NEW S, IsFiniteSet(S), NEW g \in [S -> Int], NEW total, Sums(total, g, S),
         NEW s \in SUBSET S
  PROVE  total[s] \in Int
<1> DEFINE Bad == {t \in SUBSET S : total[t] \notin Int}
<1>1. SUFFICES ASSUME Bad # {} PROVE FALSE
  OBVIOUS
<1>2. PICK t \in Bad : \A x \in t : t \ {x} \notin Bad
  BY <1>1, SmallestSubset
<1>3. CASE t = {}
  <2>1. {} \in SUBSET S /\ total[{}] = 0
    BY DEF Sums
  <2> QED BY <1>2, <1>3, <2>1
<1>4. CASE t # {}
  <2>1. Pick(t) \in t /\ t \in SUBSET S
    BY <1>2, <1>4, PickIsIn
  <2>2. total[t] = g[Pick(t)] + total[t \ {Pick(t)}]
    BY <1>4, <2>1 DEF Sums
  <2>3. total[t \ {Pick(t)}] \in Int
    BY <1>2, <2>1
  <2> QED BY <1>2, <2>1, <2>2, <2>3
<1> QED BY <1>3, <1>4

\* Any element may be the one that is taken first.
LEMMA SumTakes ==
  ASSUME NEW S, IsFiniteSet(S), NEW g \in [S -> Int], NEW total, Sums(total, g, S),
         NEW s \in SUBSET S, NEW x \in s
  PROVE  total[s] = g[x] + total[s \ {x}]
<1> DEFINE Bad == {t \in SUBSET S : \E y \in t : total[t] # g[y] + total[t \ {y}]}
<1>1. SUFFICES ASSUME Bad # {} PROVE FALSE
  OBVIOUS
<1>2. PICK t \in Bad : \A y \in t : t \ {y} \notin Bad
  BY <1>1, SmallestSubset
<1>3. PICK y \in t : total[t] # g[y] + total[t \ {y}]
  BY <1>2
<1> DEFINE p == Pick(t)
<1>4. p \in t /\ t \in SUBSET S
  BY <1>2, <1>3, PickIsIn
<1>5. total[t] = g[p] + total[t \ {p}]
  BY <1>4 DEF Sums
<1> HIDE DEF p
<1>6. p # y
  BY <1>3, <1>5
<1>7. total[t \ {p}] = g[y] + total[(t \ {p}) \ {y}]
  BY <1>2, <1>3, <1>4, <1>6
<1>8. total[t \ {y}] = g[p] + total[(t \ {y}) \ {p}]
  BY <1>2, <1>3, <1>4, <1>6
<1> DEFINE z == total[(t \ {p}) \ {y}]
<1>9. total[(t \ {y}) \ {p}] = z
  <2>1. (t \ {p}) \ {y} = (t \ {y}) \ {p}
    OBVIOUS
  <2> QED BY <2>1, Zenon
<1>10. g[p] \in Int /\ g[y] \in Int /\ z \in Int
  <2>1. (t \ {p}) \ {y} \in SUBSET S
    BY <1>4
  <2> QED BY <1>3, <1>4, <2>1, SumIsInt
<1> HIDE DEF z
<1>11. g[p] + (g[y] + z) = g[y] + (g[p] + z)
  BY <1>10
<1>12. total[t \ {p}] = g[y] + z /\ total[t \ {y}] = g[p] + z
  BY <1>7, <1>8, <1>9 DEF z
<1> QED BY <1>3, <1>5, <1>11, <1>12, Zenon

\* Elements that count for nothing may be left out.
LEMMA SumFilters ==
  ASSUME NEW S, IsFiniteSet(S), NEW T \in SUBSET S, NEW g \in [S -> Int], NEW h \in [T -> Int],
         NEW all, Sums(all, g, S), NEW some, Sums(some, h, T),
         \A x \in S : g[x] = IF x \in T THEN h[x] ELSE 0,
         NEW s \in SUBSET S
  PROVE  all[s] = some[s \cap T]
<1> DEFINE Bad == {t \in SUBSET S : all[t] # some[t \cap T]}
<1>1. SUFFICES ASSUME Bad # {} PROVE FALSE
  OBVIOUS
<1>2. PICK t \in Bad : \A y \in t : t \ {y} \notin Bad
  BY <1>1, SmallestSubset
<1>3. IsFiniteSet(T)
  BY FS_Subset
<1>4. CASE t = {}
  <2>1. t \cap T = {} /\ all[{}] = 0 /\ some[{}] = 0
    BY <1>4 DEF Sums
  <2> QED BY <1>2, <1>4, <2>1
<1>5. CASE t # {}
  <2> DEFINE p == Pick(t)
  <2>1. p \in t /\ t \in SUBSET S
    BY <1>2, <1>5, PickIsIn
  <2>2. all[t] = g[p] + all[t \ {p}]
    BY <1>5, <2>1 DEF Sums
  <2> HIDE DEF p
  <2>3. all[t \ {p}] = some[(t \ {p}) \cap T] /\ t \ {p} \in SUBSET S
    BY <1>2, <2>1
  <2>4. CASE p \in T
    <3>1. some[t \cap T] = h[p] + some[(t \cap T) \ {p}]
      BY <1>3, <2>1, <2>4, SumTakes
    <3>2. (t \cap T) \ {p} = (t \ {p}) \cap T /\ g[p] = h[p]
      BY <2>1, <2>4
    <3> QED BY <1>2, <2>2, <2>3, <3>1, <3>2
  <2>5. CASE p \notin T
    <3>1. (t \ {p}) \cap T = t \cap T /\ g[p] = 0
      BY <2>1, <2>5
    <3>2. all[t \ {p}] \in Int
      BY <2>3, SumIsInt
    <3>3. all[t] = all[t \ {p}]
      BY <2>2, <3>1, <3>2
    <3> QED BY <1>2, <2>3, <3>1, <3>3, Zenon
  <2> QED BY <2>4, <2>5
<1> QED BY <1>4, <1>5

\* There is a sum: sums of the sets of fewer elements make those of one more.
LEMMA SumExists ==
  ASSUME NEW S, IsFiniteSet(S), NEW g \in [S -> Int]
  PROVE  \E total \in [SUBSET S -> Int] : Sums(total, g, S)
<1> DEFINE Right(total, s) ==
             total[s] = IF s = {} THEN 0 ELSE g[Pick(s)] + total[s \ {Pick(s)}]
           Upto(n) == {total \in [SUBSET S -> Int] :
                         \A s \in SUBSET S : Cardinality(s) < n => Right(total, s)}
           Bad == {n \in Nat : Upto(n) = {}}
<1>1. \A s \in SUBSET S : /\ IsFiniteSet(s) /\ Cardinality(s) \in Nat
                          /\ Cardinality(s) <= Cardinality(S)
  BY FS_Subset, FS_CardinalityType
<1>2. Bad = {}
  <2>1. SUFFICES ASSUME Bad # {} PROVE FALSE
    OBVIOUS
  <2>2. PICK n \in Bad : \A k \in Bad : n <= k
    <3> HIDE DEF Upto
    <3>1. Bad \in SUBSET Nat
      OBVIOUS
    <3> HIDE DEF Bad
    <3> QED BY <2>1, <3>1, LeastExists
  <2>3. n # 0
    <3> DEFINE none == [s \in SUBSET S |-> 0]
    <3>1. none \in [SUBSET S -> Int] /\ \A s \in SUBSET S : ~ (Cardinality(s) < 0)
      BY <1>1
    <3> HIDE DEF none
    <3>2. Upto(0) # {}
      BY <3>1
    <3> HIDE DEF Upto
    <3> QED BY <3>2
  <2>4. n \in Nat /\ n - 1 \in Nat
    BY <2>3
  <2>5. PICK f \in [SUBSET S -> Int] : \A s \in SUBSET S : Cardinality(s) < n - 1 => Right(f, s)
    <3>1. Upto(n - 1) # {}
      <4> HIDE DEF Upto
      <4> QED BY <2>2, <2>4
    <3> QED BY <3>1
  <2> DEFINE next == [s \in SUBSET S |-> IF s = {} THEN 0 ELSE g[Pick(s)] + f[s \ {Pick(s)}]]
  <2>6. \A s \in SUBSET S : s # {} => Pick(s) \in S /\ s \ {Pick(s)} \in SUBSET S
    BY PickIsIn
  <2>7. next \in [SUBSET S -> Int]
    BY <2>6
  <2>8. ASSUME NEW s \in SUBSET S, Cardinality(s) < n
        PROVE  Right(next, s)
    <3>1. CASE s = {}
      BY <3>1
    <3>2. CASE s # {}
      <4> DEFINE t == s \ {Pick(s)}
      <4>1. t \in SUBSET S /\ Pick(s) \in s
        BY <2>6, <3>2, PickIsIn
      <4>2. Cardinality(t) = Cardinality(s) - 1
        BY <1>1, <4>1, FS_RemoveElement
      <4>3. Cardinality(t) < n - 1
        BY <1>1, <2>4, <2>8, <4>1, <4>2
      <4> HIDE DEF t
      <4>4. Right(f, t)
        BY <2>5, <4>1, <4>3
      <4>5. next[t] = f[t]
        BY <4>1, <4>4
      <4>6. next[s] = g[Pick(s)] + f[t]
        BY <3>2 DEF t
      <4> QED BY <3>2, <4>5, <4>6 DEF t
    <3> QED BY <3>1, <3>2
  <2>9. next \in Upto(n)
    <3> HIDE DEF next
    <3> QED BY <2>7, <2>8
  <2> QED BY <2>2, <2>9
<1>3. PICK total \in [SUBSET S -> Int] :
        \A s \in SUBSET S : Cardinality(s) < Cardinality(S) + 1 => Right(total, s)
  <2> HIDE DEF Upto
  <2>1. Cardinality(S) + 1 \in Nat
    BY FS_CardinalityType
  <2>2. Upto(Cardinality(S) + 1) # {}
    BY <1>2, <2>1
  <2> USE DEF Upto
  <2> QED BY <2>2
<1>4. \A s \in SUBSET S : Cardinality(s) < Cardinality(S) + 1
  BY <1>1, FS_CardinalityType
<1> QED BY <1>3, <1>4 DEF Sums

\* The fold of LoanBook is such a sum.
LEMMA SumFolds ==
  ASSUME NEW S, IsFiniteSet(S), NEW g \in [S -> Int]
  PROVE  \E total : Sums(total, g, S) /\ SumFunction(g) = total[S]
<1> DEFINE Step(f) == [s \in SUBSET S |-> IF s = {} THEN 0 ELSE g[Pick(s)] + f[s \ {Pick(s)}]]
           total == CHOOSE f : f = Step(f)
<1>1. PICK f \in [SUBSET S -> Int] : Sums(f, g, S)
  BY SumExists
<1>2. f = Step(f)
  BY <1>1 DEF Sums
<1>3. total = Step(total)
  <2> HIDE DEF Step
  <2> QED BY <1>2
<1>4. DOMAIN g = S
  OBVIOUS
<1>5. SumFunction(g) = total[S]
  BY <1>4, Zenon DEF SumFunction, SumFunctionOnSet, FoldFunctionOnSet, MapThenFoldSet, Pick
<1> HIDE DEF total
<1>6. Sums(total, g, S)
  BY <1>3 DEF Sums
<1> QED BY <1>5, <1>6

\* What a sum of integers is: an integer, nothing for no element, the element
\* for one, and the same without the elements that count for nothing.
LEMMA TotalFacts ==
  ASSUME NEW S, IsFiniteSet(S), NEW g \in [S -> Int]
  PROVE  /\ SumFunction(g) \in Int
         /\ S = {} => SumFunction(g) = 0
         /\ \A x \in S : S = {x} => SumFunction(g) = g[x]
         /\ \A T \in SUBSET S : \A h \in [T -> Int] :
              (\A x \in S : g[x] = IF x \in T THEN h[x] ELSE 0) => SumFunction(g) = SumFunction(h)
<1>1. PICK total : Sums(total, g, S) /\ SumFunction(g) = total[S]
  BY SumFolds
<1>2. SumFunction(g) \in Int
  BY <1>1, SumIsInt
<1>3. S = {} => SumFunction(g) = 0
  BY <1>1 DEF Sums
<1>4. ASSUME NEW x \in S, S = {x}
      PROVE  SumFunction(g) = g[x]
  <2>1. total[S] = g[x] + total[S \ {x}]
    BY <1>1, <1>4, SumTakes
  <2>2. S \ {x} = {} /\ total[{}] = 0
    BY <1>1, <1>4 DEF Sums
  <2> QED BY <1>1, <2>1, <2>2
<1>5. ASSUME NEW T \in SUBSET S, NEW h \in [T -> Int],
             \A x \in S : g[x] = IF x \in T THEN h[x] ELSE 0
      PROVE  SumFunction(g) = SumFunction(h)
  <2>1. IsFiniteSet(T)
    BY FS_Subset
  <2>2. PICK some : Sums(some, h, T) /\ SumFunction(h) = some[T]
    BY <2>1, SumFolds
  <2>3. total[S] = some[S \cap T]
    BY <1>1, <1>5, <2>2, SumFilters
  <2>4. S \cap T = T
    OBVIOUS
  <2> QED BY <1>1, <2>2, <2>3, <2>4
<1> QED BY <1>2, <1>3, <1>4, <1>5

-----------------------------------------------------------------------------
(***************************************************************************)
(* The data: loans, accounts and what the protocol makes of them.          *)
(***************************************************************************)

Loans == [side : Side, strike : Int, ratio : Nat \ {0}, positionSize : Nat]
Books == {b \in SUBSET Loans : IsFiniteSet(b)}
Wallets == [asset : Int, nume : Int]
Accounts == [asset : Int, nume : Int, book : Books, loose : Wallets]
Swaps == [sell : {"asset", "nume"}, amount : Int]

\* An account and its parts.
LEMMA AccountParts ==
  ASSUME NEW a \in Accounts
  PROVE  /\ a.asset \in Int /\ a.nume \in Int /\ a.book \in Books
         /\ a.loose.asset \in Int /\ a.loose.nume \in Int
BY DEF Accounts, Wallets

LEMMA QuotientIsInt ==
  ASSUME NEW a \in Int, NEW b \in Int, b > 0
  PROVE  Quotient(a, b) \in Int
BY DEF Quotient

LEMMA PriceIsPositive ==
  ASSUME NEW t \in Ticks
  PROVE  t \in Int /\ PriceAt(t) \in Int /\ PriceAt(t) > 0
BY BookAssumption, PlanAssumption DEF Ticks, PriceAt

LEMMA ConversionsAreInt ==
  ASSUME NEW n \in Int
  PROVE  /\ \A t \in Ticks : ToAsset(n, t) \in Int
         /\ \A t \in Int : ToNumeraire(n, t) \in Int
<1>1. \A t \in Ticks : ToAsset(n, t) \in Int
  <2>1. n * Unit \in Int
    BY BookAssumption
  <2> QED BY <2>1, PriceIsPositive, QuotientIsInt DEF ToAsset
<1>2. \A t \in Int : ToNumeraire(n, t) \in Int
  <2>1. SUFFICES ASSUME NEW t \in Int PROVE ToNumeraire(n, t) \in Int
    OBVIOUS
  <2>2. n * PriceAt(t) \in Int
    BY BookAssumption DEF PriceAt
  <2> QED BY <2>2, BookAssumption, QuotientIsInt DEF ToNumeraire
<1> QED BY <1>1, <1>2

LEMMA PrincipalIsInt ==
  ASSUME NEW l \in Loans
  PROVE  Notional(l) \in Nat /\ Principal(l) \in Int
<1>1. l.positionSize \in Nat /\ l.ratio \in Nat /\ l.strike \in Int
  BY DEF Loans
<1>2. Notional(l) \in Nat
  BY <1>1 DEF Notional
<1>3. ToNumeraire(Notional(l), l.strike) \in Int
  <2>1. Notional(l) \in Int
    BY <1>2
  <2> QED BY <1>1, <2>1, ConversionsAreInt
<1> QED BY <1>2, <1>3 DEF Principal

LEMMA SizeIsInt ==
  ASSUME NEW l \in Loans, NEW t \in Ticks
  PROVE  SizeAt(l, t) \in Int
BY PrincipalIsInt, ConversionsAreInt DEF SizeAt

LEMMA FlowIsInt ==
  ASSUME NEW l \in Loans, NEW swap \in BOOLEAN, NEW t \in Ticks
  PROVE  MintFlow(l, swap, t).asset \in Int /\ MintFlow(l, swap, t).nume \in Int
<1>1. l.side \in {"short", "long"}
  BY DEF Loans, Side
<1>2. /\ Principal(l) \in Int /\ ToNumeraire(Principal(l), t) \in Int
      /\ ToAsset(Principal(l), t) \in Int
  BY PrincipalIsInt, ConversionsAreInt, PriceIsPositive
<1>3. CASE l.side = "short" /\ swap
  BY <1>2, <1>3 DEF MintFlow
<1>4. CASE l.side = "short" /\ ~swap
  BY <1>2, <1>4 DEF MintFlow
<1>5. CASE l.side = "long" /\ swap
  BY <1>2, <1>5 DEF MintFlow
<1>6. CASE l.side = "long" /\ ~swap
  BY <1>2, <1>6 DEF MintFlow
<1> QED BY <1>1, <1>3, <1>4, <1>5, <1>6

LEMMA PartOfBook ==
  ASSUME NEW b \in Books, NEW c \in SUBSET b
  PROVE  c \in Books
BY FS_Subset DEF Books

LEMMA OfSideIsBook ==
  ASSUME NEW b \in Books, NEW side
  PROVE  OfSide(b, side) \in Books /\ OfSide(b, side) \subseteq b
BY PartOfBook DEF OfSide

\* The sums that the planner and the settlement take over a book.
LEMMA SizesSum ==
  ASSUME NEW b \in Books, NEW t \in Ticks
  PROVE  SumFunction([l \in b |-> SizeAt(l, t)]) \in Int
<1>1. [l \in b |-> SizeAt(l, t)] \in [b -> Int] /\ IsFiniteSet(b)
  BY SizeIsInt DEF Books
<1> QED BY <1>1, TotalFacts

LEMMA PrincipalsSum ==
  ASSUME NEW b \in Books
  PROVE  SumFunction([l \in b |-> Principal(l)]) \in Int
<1>1. [l \in b |-> Principal(l)] \in [b -> Int] /\ IsFiniteSet(b)
  BY PrincipalIsInt DEF Books
<1> QED BY <1>1, TotalFacts

LEMMA GrossIsInt ==
  ASSUME NEW b \in Books, NEW side, NEW t \in Ticks
  PROVE  Gross(b, side, t) \in Int /\ Owed(b, side) \in Int
<1>1. Gross(b, side, t) = SumFunction([l \in OfSide(b, side) |-> SizeAt(l, t)])
  BY DEF Gross, SumOf
<1>2. Owed(b, side) = SumFunction([l \in OfSide(b, side) |-> Principal(l)])
  BY DEF Owed, SumOf
<1> QED BY <1>1, <1>2, OfSideIsBook, SizesSum, PrincipalsSum

LEMMA FlowsSum ==
  ASSUME NEW b \in Books, NEW swap \in BOOLEAN, NEW t \in Ticks
  PROVE  /\ SumFunction([l \in b |-> MintFlow(l, swap, t).asset]) \in Int
         /\ SumFunction([l \in b |-> MintFlow(l, swap, t).nume]) \in Int
<1>1. /\ [l \in b |-> MintFlow(l, swap, t).asset] \in [b -> Int]
      /\ [l \in b |-> MintFlow(l, swap, t).nume] \in [b -> Int]
      /\ IsFiniteSet(b)
  BY FlowIsInt DEF Books
<1> QED BY <1>1, TotalFacts

\* Settling burns and mints.
AssetFlow(b, swap, t) == SumFunction([l \in b |-> MintFlow(l, swap, t).asset])
NumeFlow(b, swap, t) == SumFunction([l \in b |-> MintFlow(l, swap, t).nume])

LEMMA Settled ==
  ASSUME NEW a \in Accounts, NEW burns \in Books, NEW mints \in Books, NEW swap \in BOOLEAN,
         NEW t \in Ticks
  PROVE  Settle(a, burns, mints, swap, t) \in Accounts
<1>1. Settle(a, burns, mints, swap, t) =
        [a EXCEPT !.asset = @ + AssetFlow(mints, swap, t) - AssetFlow(burns, swap, t),
                  !.nume  = @ + NumeFlow(mints, swap, t) - NumeFlow(burns, swap, t),
                  !.book  = (@ \ burns) \union mints]
  BY Zenon DEF Settle, SumOf, AssetFlow, NumeFlow
<1>2. /\ AssetFlow(mints, swap, t) \in Int /\ AssetFlow(burns, swap, t) \in Int
      /\ NumeFlow(mints, swap, t) \in Int /\ NumeFlow(burns, swap, t) \in Int
  BY FlowsSum DEF AssetFlow, NumeFlow
<1>3. (a.book \ burns) \union mints \in Books
  <2>1. a.book \ burns \in Books
    BY PartOfBook DEF Accounts
  <2> QED BY <2>1, FS_Union DEF Books
<1>4. /\ a.asset + AssetFlow(mints, swap, t) - AssetFlow(burns, swap, t) \in Int
      /\ a.nume + NumeFlow(mints, swap, t) - NumeFlow(burns, swap, t) \in Int
  BY <1>2, AccountParts
<1> QED BY <1>1, <1>3, <1>4 DEF Accounts

LEMMA Least2IsInt == ASSUME NEW x \in Int, NEW y \in Int PROVE Least2(x, y) \in Int
BY DEF Least2

LEMMA OutputIsInt ==
  ASSUME NEW s \in Swaps, NEW t \in Ticks
  PROVE  Output(s, t) \in Int /\ MinOut(s, t) \in Int
<1>1. Output(s, t) \in Int
  BY ConversionsAreInt, PriceIsPositive DEF Output, Swaps
<1>2. (Output(s, t) * FloorBps) \div BPS \in Int
  <2>1. Output(s, t) * FloorBps \in Int
    BY <1>1, BookAssumption DEF BPS
  <2> QED BY <2>1 DEF BPS
<1> QED BY <1>1, <1>2 DEF MinOut

LEMMA WithdrawnTyped ==
  ASSUME NEW a \in Accounts, NEW s \in Swaps
  PROVE  Withdrawn(a, s) \in Accounts
<1> DEFINE out == Withdrawal(a, s)
           rest == s.amount - out
<1>1. s.sell \in {"asset", "nume"} /\ s.amount \in Int
  BY DEF Swaps
<1>2. out \in Int
  <2>1. a.loose[s.sell] \in Int
    BY <1>1, AccountParts
  <2>2. Least2(a.loose[s.sell], s.amount) \in Int
    BY <1>1, <2>1, Least2IsInt
  <2>3. out = s.amount - Least2(a.loose[s.sell], s.amount)
    BY DEF Withdrawal
  <2> QED BY <1>1, <2>2, <2>3
<1>3. Withdrawn(a, s) = [a EXCEPT ![s.sell] = @ - out, !.loose[s.sell] = @ - rest]
  BY Zenon DEF Withdrawn
<1>4. rest \in Int
  BY <1>1, <1>2
<1> HIDE DEF out, rest
<1>5. CASE s.sell = "asset"
  <2> DEFINE x == a.asset - out
             w == [a.loose EXCEPT !.asset = @ - rest]
  <2>1. x \in Int /\ w \in Wallets
    BY <1>2, <1>4 DEF Accounts, Wallets
  <2>2. Withdrawn(a, s) = [a EXCEPT !.asset = x, !.loose = w]
    BY <1>3, <1>5, Zenon
  <2> HIDE DEF x, w
  <2> QED BY <2>1, <2>2 DEF Accounts
<1>6. CASE s.sell = "nume"
  <2> DEFINE x == a.nume - out
             w == [a.loose EXCEPT !.nume = @ - rest]
  <2>1. x \in Int /\ w \in Wallets
    BY <1>2, <1>4 DEF Accounts, Wallets
  <2>2. Withdrawn(a, s) = [a EXCEPT !.nume = x, !.loose = w]
    BY <1>3, <1>6, Zenon
  <2> HIDE DEF x, w
  <2> QED BY <2>1, <2>2 DEF Accounts
<1> QED BY <1>1, <1>5, <1>6

LEMMA SwappedTyped ==
  ASSUME NEW a \in Accounts, NEW s \in Swaps, NEW q \in Ticks, NEW t \in Ticks
  PROVE  Swapped(a, s, q, t) \in Accounts
<1> DEFINE v == Withdrawn(a, s)
           m == MinOut(s, q)
           o == Output(s, t)
           buy == IF s.sell = "asset" THEN "nume" ELSE "asset"
<1>1. Swapped(a, s, q, t) = [v EXCEPT ![buy] = @ + m, !.loose[buy] = @ + o - m]
  BY Zenon DEF Swapped
<1>2. v \in Accounts /\ m \in Int /\ o \in Int /\ buy \in {"asset", "nume"}
  BY WithdrawnTyped, OutputIsInt
<1> HIDE DEF v, m, o, buy
<1>3. CASE buy = "asset"
  <2> DEFINE x == v.asset + m
             w == [v.loose EXCEPT !.asset = @ + o - m]
  <2>1. x \in Int /\ w \in Wallets
    BY <1>2 DEF Accounts, Wallets
  <2>2. Swapped(a, s, q, t) = [v EXCEPT !.asset = x, !.loose = w]
    BY <1>1, <1>3, Zenon
  <2> HIDE DEF x, w
  <2> QED BY <1>2, <2>1, <2>2 DEF Accounts
<1>4. CASE buy = "nume"
  <2> DEFINE x == v.nume + m
             w == [v.loose EXCEPT !.nume = @ + o - m]
  <2>1. x \in Int /\ w \in Wallets
    BY <1>2 DEF Accounts, Wallets
  <2>2. Swapped(a, s, q, t) = [v EXCEPT !.nume = x, !.loose = w]
    BY <1>1, <1>4, Zenon
  <2> HIDE DEF x, w
  <2> QED BY <1>2, <2>1, <2>2 DEF Accounts
<1> QED BY <1>2, <1>3, <1>4

LEMMA ExchangeTyped ==
  ASSUME NEW a \in Accounts, NEW dx \in Int, NEW t \in Ticks
  PROVE  Exchange(a, dx, t) \in Accounts
<1>1. ToNumeraire(dx, t) \in Int
  BY ConversionsAreInt, PriceIsPositive
<1>2. a.asset + dx \in Int /\ a.nume - ToNumeraire(dx, t) \in Int
  BY <1>1, AccountParts
<1>3. Exchange(a, dx, t) = [a EXCEPT !.asset = a.asset + dx, !.nume = a.nume - ToNumeraire(dx, t)]
  BY Zenon DEF Exchange
<1> QED BY <1>2, <1>3 DEF Accounts

LEMMA RedepositTyped == ASSUME NEW a \in Accounts PROVE Redeposited(a) \in Accounts
<1> DEFINE x == a.asset + a.loose.asset
           y == a.nume + a.loose.nume
           w == [asset |-> 0, nume |-> 0]
<1>1. x \in Int /\ y \in Int /\ w \in Wallets
  BY AccountParts DEF Wallets
<1>2. Redeposited(a) = [a EXCEPT !.asset = x, !.nume = y, !.loose = w]
  BY Zenon DEF Redeposited
<1> HIDE DEF x, y, w
<1> QED BY <1>1, <1>2 DEF Accounts

\* A strike lies at the signal, or below it by less than the spacing.
LEMMA StrikeLies ==
  ASSUME NEW t \in Int
  PROVE  /\ RoundedStrike(t) \in Int
         /\ RoundedStrike(t) <= t /\ t < RoundedStrike(t) + Spacing
<1>1. Spacing \in Int /\ Spacing > 0
  BY BookAssumption
<1>2. CASE t >= 0
  <2> DEFINE q == t \div Spacing
  <2>1. q \in Int /\ q * Spacing <= t /\ t < q * Spacing + Spacing
    BY <1>1, <1>2
  <2>2. RoundedStrike(t) = q * Spacing
    BY <1>2 DEF RoundedStrike, Quotient
  <2> QED BY <2>1, <2>2, <1>1
<1>3. CASE t < 0
  <2> DEFINE p == (-t) \div Spacing
  <2>1. p \in Int /\ p * Spacing <= -t /\ -t < p * Spacing + Spacing
    BY <1>1, <1>3
  <2>2. RoundedStrike(t) = (IF (-p) * Spacing # t THEN -p - 1 ELSE -p) * Spacing
    BY <1>3 DEF RoundedStrike, Quotient
  <2> HIDE DEF p
  <2>3. (-p) * Spacing = -(p * Spacing) /\ (-p - 1) * Spacing = -(p * Spacing) - Spacing
    BY <2>1, <1>1
  <2> QED BY <2>1, <2>2, <2>3, <1>1
<1> QED BY <1>2, <1>3

LEMMA BuiltLoan ==
  ASSUME NEW book, NEW side \in Side, NEW strike \in Int, NEW size \in Nat,
         FreeRatios(book, side, strike) # {}
  PROVE  \E r \in 1..MaxRatio :
           /\ BuildUniqueLoan(book, side, strike, size) =
                [side |-> side, strike |-> strike, ratio |-> r, positionSize |-> size \div r]
           /\ BuildUniqueLoan(book, side, strike, size) \in Loans
<1> DEFINE free == FreeRatios(book, side, strike)
           r == Min(free)
<1>1. free \subseteq 1..MaxRatio
  BY DEF FreeRatios
<1>2. \E m \in free : \A k \in free : m <= k
  BY <1>1, LeastExists, BookAssumption
<1>3. r \in free
  <2> HIDE DEF free
  <2> QED BY <1>2 DEF Min
<1>4. BuildUniqueLoan(book, side, strike, size) =
        [side |-> side, strike |-> strike, ratio |-> r, positionSize |-> size \div r]
  BY DEF BuildUniqueLoan
<1>5. r \in 1..MaxRatio
  BY <1>1, <1>3
<1> HIDE DEF r
<1>6. size \div r \in Nat
  BY <1>5
<1>7. [side |-> side, strike |-> strike, ratio |-> r, positionSize |-> size \div r] \in Loans
  BY <1>5, <1>6 DEF Loans
<1> QED BY <1>4, <1>5, <1>7

-----------------------------------------------------------------------------
(***************************************************************************)
(* What the planner makes is data of these types.                          *)
(***************************************************************************)

IntentTyped(i) ==
  /\ i.burns \in Books /\ i.mints \in Books
  /\ i.swap \in BOOLEAN /\ i.at \in Ticks /\ i.correction \in Int

RouteTyped(r) ==
  /\ r.kind \in {"in-pool", "netted", "balance", "credit", "off-venue", "venue"}
  /\ r.kind \in {"netted", "balance", "credit"} => r.amount \in Int
  /\ r.kind \in {"off-venue", "venue"} => r.swap \in Swaps /\ r.quoted \in Ticks

\* The account and its market.
DataTyped ==
  /\ config.offsetBps \in Int /\ tick \in Ticks /\ signal \in Ticks
  /\ options \in [delta : Int, size : Int]
  /\ acc \in Accounts /\ owed \in Swaps

\* What a cycle is about to send.
PlanTyped ==
  /\ pc \in {"planned", "checked", "swapping"} => IntentTyped(plan.intent) /\ RouteTyped(plan.route)
  /\ pc = "swapping" => plan.route.kind = "off-venue"

LEMMA AfterTyped ==
  ASSUME acc \in Accounts, NEW i, IntentTyped(i), NEW r, RouteTyped(r), NEW t \in Ticks
  PROVE  After(i, r, t) \in Accounts
<1> DEFINE done == Settle(acc, i.burns, i.mints, i.swap, t)
<1>1. done \in Accounts
  BY Settled DEF IntentTyped
<1>2. CASE r.kind = "in-pool"
  BY <1>1, <1>2 DEF After
<1>3. CASE r.kind = "netted"
  <2> DEFINE fee == Quotient(r.amount * FeeBps, BPS)
  <2>1. fee \in Int
    <3>1. r.amount * FeeBps \in Int
      BY <1>3, PlanAssumption DEF RouteTyped
    <3> QED BY <3>1, QuotientIsInt DEF BPS
  <2>2. After(i, r, t) = [done EXCEPT !.asset = @ - fee]
    BY <1>3 DEF After
  <2> HIDE DEF done, fee
  <2>3. done.asset - fee \in Int
    BY <1>1, <2>1, AccountParts
  <2> QED BY <1>1, <2>2, <2>3 DEF Accounts
<1>4. CASE r.kind \in {"balance", "credit"}
  <2>1. After(i, r, t) = Exchange(acc, r.amount, t)
    BY <1>4 DEF After
  <2>2. r.amount \in Int
    BY <1>4 DEF RouteTyped
  <2> QED BY <2>1, <2>2, ExchangeTyped
<1>5. CASE r.kind = "off-venue"
  <2>1. After(i, r, t) = Settle(acc, i.burns, i.mints, FALSE, t)
    BY <1>5 DEF After
  <2>2. Settle(acc, i.burns, i.mints, FALSE, t) \in Accounts
    <3>1. i.burns \in Books /\ i.mints \in Books /\ FALSE \in BOOLEAN
      BY DEF IntentTyped
    <3> QED BY <3>1, Settled
  <2> QED BY <2>1, <2>2
<1>6. CASE r.kind = "venue"
  <2>1. After(i, r, t) = Swapped(acc, r.swap, r.quoted, t)
    BY <1>6 DEF After
  <2>2. r.swap \in Swaps /\ r.quoted \in Ticks
    BY <1>6 DEF RouteTyped
  <2> QED BY <2>1, <2>2, SwappedTyped
<1> QED BY <1>2, <1>3, <1>4, <1>5, <1>6 DEF RouteTyped

LEMMA ExposureTyped ==
  ASSUME DataTyped
  PROVE  /\ Exposure.H \in Int /\ Exposure.Hstar \in Int
         /\ Exposure.basis \in Int /\ Exposure.effective \in Int
         /\ Exposure.H = Signed(acc.book, tick)
         /\ NetDelta \in Int
<1> DEFINE short == Gross(acc.book, "short", tick)
           long == Gross(acc.book, "long", tick)
           basis == IF options.size > 0 THEN options.size ELSE short + long
           bias == Quotient(basis * config.offsetBps, BPS)
<1>1. short \in Int /\ long \in Int /\ Owed(acc.book, "short") \in Int
  BY AccountParts, GrossIsInt DEF DataTyped
<1>2. basis \in Int
  BY <1>1 DEF DataTyped
<1>3. bias \in Int
  <2>1. basis * config.offsetBps \in Int
    BY <1>2 DEF DataTyped
  <2> HIDE DEF basis
  <2> QED BY <2>1, QuotientIsInt DEF BPS
<1>4. NetDelta \in Int
  BY <1>1, AccountParts DEF NetDelta, BookDelta, DataTyped
<1>5. /\ Exposure.H = long - short /\ Exposure.Hstar = (long - short) - (NetDelta - bias)
      /\ Exposure.basis = basis /\ Exposure.effective = NetDelta - bias
  BY DEF Exposure
<1>6. Exposure.H = Signed(acc.book, tick)
  BY <1>5 DEF Signed
<1> HIDE DEF short, long, basis, bias
<1> QED BY <1>1, <1>2, <1>3, <1>4, <1>5, <1>6

LEMMA ActionNames ==
  ASSUME NEW e
  PROVE  Action(e) \in {"none", "consolidate", "rebuild", "open", "close_all", "flip", "grow", "shrink"}
<1>1. CASE e.basis = 0 \/ ~(DeltaDrift(e) \/ OverCap)
  BY <1>1 DEF Action
<1>2. CASE e.basis # 0 /\ ~DeltaDrift(e) /\ OverCap
  BY <1>2 DEF Action
<1>3. CASE e.basis # 0 /\ DeltaDrift(e)
  BY <1>3 DEF Action
<1> QED BY <1>1, <1>2, <1>3

LEMMA BurnsAreOpen ==
  ASSUME NEW e
  PROVE  Burns(e) \subseteq acc.book
<1>1. CASE Action(e) \in {"none", "open", "grow"}
  BY <1>1 DEF Burns
<1>2. CASE Action(e) \in {"close_all", "flip", "rebuild", "consolidate"}
  BY <1>2 DEF Burns
<1>3. CASE Action(e) = "shrink"
  <2>1. Burns(e) \subseteq OfSide(acc.book, Direction(e.H))
    BY <1>3 DEF Burns, ShrinkBurns
  <2> QED BY <2>1 DEF OfSide
<1> QED BY <1>1, <1>2, <1>3, ActionNames

LEMMA MagnitudeIsNat == ASSUME NEW x \in Int PROVE Magnitude(x) \in Nat
BY DEF Magnitude

LEMMA MintSizeIsInt ==
  ASSUME DataTyped, NEW e, e.H \in Int, e.Hstar \in Int
  PROVE  MintSize(e) \in Int
<1>1. CASE Action(e) \in {"none", "close_all"}
  BY <1>1 DEF MintSize
<1>2. CASE Action(e) \in {"open", "flip", "rebuild"}
  BY <1>2 DEF MintSize
<1>3. CASE Action(e) = "consolidate"
  BY <1>3 DEF MintSize
<1>4. CASE Action(e) = "grow"
  BY <1>4 DEF MintSize
<1>5. CASE Action(e) = "shrink"
  <2> DEFINE total == SumFunction([l \in Burns(e) |-> SizeAt(l, tick)])
             rest == total - (Magnitude(e.H) - Magnitude(e.Hstar))
  <2>1. MintSize(e) = IF e.H > 0 THEN rest ELSE -rest
    BY <1>5 DEF MintSize, SumOf
  <2>2. Burns(e) \in Books
    BY BurnsAreOpen, AccountParts, PartOfBook DEF DataTyped
  <2>3. total \in Int
    BY <2>2, SizesSum DEF DataTyped
  <2> HIDE DEF total
  <2>4. Magnitude(e.H) \in Int /\ Magnitude(e.Hstar) \in Int
    BY MagnitudeIsNat
  <2> QED BY <2>1, <2>3, <2>4
<1> QED BY <1>1, <1>2, <1>3, <1>4, <1>5, ActionNames

LEMMA SingleBook == ASSUME NEW l \in Loans PROVE {l} \in Books
BY FS_Singleton DEF Books

LEMMA EmptyBook == {} \in Books
BY FS_EmptySet DEF Books

LEMMA IntentMade ==
  ASSUME DataTyped, NEW e, e.H \in Int, e.Hstar \in Int, Mintable(e)
  PROVE  IntentTyped(Intent(e))
<1>1. Burns(e) \in Books
  BY BurnsAreOpen, AccountParts, PartOfBook DEF DataTyped
<1>2. Mints(e) \in Books
  <2>1. CASE MintSize(e) = 0
    BY <2>1, EmptyBook DEF Mints
  <2>2. CASE MintSize(e) # 0
    <3> DEFINE l == BuildUniqueLoan(acc.book, Direction(MintSize(e)), RoundedStrike(signal),
                                    Magnitude(MintSize(e)))
    <3>1. Direction(MintSize(e)) \in Side
      BY DEF Direction, Side
    <3>2. RoundedStrike(signal) \in Int
      BY StrikeLies, PriceIsPositive DEF DataTyped
    <3>3. Magnitude(MintSize(e)) \in Nat
      BY MintSizeIsInt, MagnitudeIsNat
    <3>4. l \in Loans
      BY <2>2, <3>1, <3>2, <3>3, BuiltLoan DEF Mintable
    <3>5. Mints(e) = {l}
      BY <2>2 DEF Mints
    <3> HIDE DEF l
    <3> QED BY <3>4, <3>5, SingleBook
  <2> QED BY <2>1, <2>2
<1>3. /\ Intent(e).burns = Burns(e) /\ Intent(e).mints = Mints(e)
      /\ Intent(e).swap = (Action(e) # "consolidate")
      /\ Intent(e).at = tick /\ Intent(e).correction = e.Hstar - e.H
  BY DEF Intent
<1> QED BY <1>1, <1>2, <1>3 DEF IntentTyped, DataTyped

LEMMA SpendableIsInt == ASSUME NEW x \in Int PROVE Spendable(x) \in Int
<1>1. x * 50 + (BPS - 1) \in Int
  BY DEF BPS
<1> QED BY <1>1 DEF Spendable, BPS

LEMMA OwedIsInt == ASSUME NEW b \in Books, NEW side PROVE Owed(b, side) \in Int
BY PrincipalsSum, OfSideIsBook DEF Owed, SumOf

\* The eight sizes of a temporary loan.
LEMMA TemporaryIsInt ==
  ASSUME NEW i, IntentTyped(i), NEW n \in 0..7
  PROVE  TemporaryLoan(i)[n] \in Int
<1> DEFINE base == Owed(i.burns, "short") - Owed(i.mints, "short")
           Step(f) == [k \in 0..7 |-> IF k = 0 THEN base ELSE NextTemporaryLoan(f[k - 1])]
           loan == CHOOSE f : f = Step(f)
           v1 == NextTemporaryLoan(base)
           v2 == NextTemporaryLoan(v1)
           v3 == NextTemporaryLoan(v2)
           v4 == NextTemporaryLoan(v3)
           v5 == NextTemporaryLoan(v4)
           v6 == NextTemporaryLoan(v5)
           v7 == NextTemporaryLoan(v6)
           all == [k \in 0..7 |->
                     IF k = 0 THEN base ELSE IF k = 1 THEN v1 ELSE IF k = 2 THEN v2
                     ELSE IF k = 3 THEN v3 ELSE IF k = 4 THEN v4 ELSE IF k = 5 THEN v5
                     ELSE IF k = 6 THEN v6 ELSE v7]
<1>1. TemporaryLoan(i) = loan
  BY Zenon DEF TemporaryLoan
<1>2. base \in Int
  BY OwedIsInt DEF IntentTyped
<1>3. \A x \in Int : NextTemporaryLoan(x) \in Int
  BY DEF NextTemporaryLoan
<1>4. all = Step(all)
  <2>1. /\ v1 = NextTemporaryLoan(base) /\ v2 = NextTemporaryLoan(v1)
        /\ v3 = NextTemporaryLoan(v2) /\ v4 = NextTemporaryLoan(v3)
        /\ v5 = NextTemporaryLoan(v4) /\ v6 = NextTemporaryLoan(v5)
        /\ v7 = NextTemporaryLoan(v6)
    OBVIOUS
  <2> HIDE DEF base, v1, v2, v3, v4, v5, v6, v7
  <2>2. \A k \in 0..7 : all[k] = IF k = 0 THEN base ELSE NextTemporaryLoan(all[k - 1])
    <3>1. SUFFICES ASSUME NEW k \in 0..7
                   PROVE  all[k] = IF k = 0 THEN base ELSE NextTemporaryLoan(all[k - 1])
      OBVIOUS
    <3>2. k \in {0, 1, 2, 3, 4, 5, 6, 7}
      OBVIOUS
    <3> QED BY <2>1, <3>2
  <2>3. DOMAIN all = 0..7
    OBVIOUS
  <2> QED BY <2>2
<1>5. loan = Step(loan)
  <2> HIDE DEF all, Step
  <2> QED BY <1>4
<1> HIDE DEF base, loan
<1>6. \A k \in 0..7 : loan[k] = IF k = 0 THEN base ELSE NextTemporaryLoan(loan[k - 1])
  BY <1>5
<1>7. loan[0] \in Int
  BY <1>2, <1>6
<1>8. \A k \in 0..6 : loan[k] \in Int => loan[k + 1] \in Int
  <2>1. SUFFICES ASSUME NEW k \in 0..6, loan[k] \in Int PROVE loan[k + 1] \in Int
    OBVIOUS
  <2>2. k + 1 \in 0..7 /\ k + 1 # 0 /\ (k + 1) - 1 = k
    OBVIOUS
  <2>3. loan[k + 1] = NextTemporaryLoan(loan[k])
    BY <1>6, <2>2
  <2> QED BY <1>3, <2>1, <2>3
<1>9. /\ loan[1] \in Int /\ loan[2] \in Int /\ loan[3] \in Int /\ loan[4] \in Int
      /\ loan[5] \in Int /\ loan[6] \in Int /\ loan[7] \in Int
  BY <1>7, <1>8
<1>10. n \in {0, 1, 2, 3, 4, 5, 6, 7}
  OBVIOUS
<1> QED BY <1>1, <1>7, <1>9, <1>10

LEMMA NettingTyped ==
  ASSUME DataTyped, NEW i, IntentTyped(i), NEW s \in NettingSwaps(i)
  PROVE  s \in Swaps
<1> DEFINE noSwap == [kind |-> "off-venue"]
           with == After(i, InPool, tick)
           without == After(i, noSwap, tick)
           asset == with.asset - without.asset
           nume == with.nume - without.nume
<1>1. with \in Accounts
  BY AfterTyped DEF InPool, RouteTyped, DataTyped
<1>2. without \in Accounts
  <2>1. without = Settle(acc, i.burns, i.mints, FALSE, tick)
    BY DEF After
  <2>2. /\ i.burns \in Books /\ i.mints \in Books /\ FALSE \in BOOLEAN
        /\ acc \in Accounts /\ tick \in Ticks
    BY DEF IntentTyped, DataTyped
  <2>3. Settle(acc, i.burns, i.mints, FALSE, tick) \in Accounts
    BY <2>2, Settled
  <2> QED BY <2>1, <2>3
<1>3. s = (IF asset < 0 THEN [sell |-> "asset", amount |-> -asset] ELSE [sell |-> "nume", amount |-> -nume])
  BY Zenon DEF NettingSwaps
<1> HIDE DEF with, without
<1>4. asset \in Int /\ nume \in Int
  BY <1>1, <1>2, AccountParts
<1> HIDE DEF asset, nume
<1> QED BY <1>3, <1>4 DEF Swaps

LEMMA BalanceTyped ==
  ASSUME DataTyped, NEW i, IntentTyped(i), NEW r \in BalanceRoutes(i)
  PROVE  RouteTyped(r) /\ i.action \in {"open", "grow"}
<1> DEFINE sell == IF \E l \in i.mints : l.side = "short" THEN "asset" ELSE "nume"
           amountIn == Owed(i.mints, "short") + Owed(i.mints, "long")
           spendable == Spendable(acc[sell] + acc.loose[sell])
           spend == Least2(Least2(acc[sell], spendable), amountIn)
           amount == Least2(spendable, amountIn)
           traded == IF sell = "asset" THEN -spend ELSE ToAsset(spend, tick)
<1>1. sell \in {"asset", "nume"}
  OBVIOUS
<1>2. \/ r = [kind |-> "venue", quoted |-> tick, swap |-> [sell |-> sell, amount |-> amount]]
      \/ r = [kind |-> "balance", amount |-> traded]
  BY Zenon DEF BalanceRoutes
<1>3. i.action \in {"open", "grow"}
  BY DEF BalanceRoutes
<1> HIDE DEF sell
<1>4. amountIn \in Int
  BY OwedIsInt DEF IntentTyped
<1>5. acc[sell] \in Int /\ acc.loose[sell] \in Int
  BY <1>1, AccountParts DEF DataTyped
<1>6. spendable \in Int
  BY <1>5, SpendableIsInt
<1>7. amount \in Int
  BY <1>4, <1>6, Least2IsInt
<1>8. spend \in Int
  BY <1>4, <1>5, <1>6, Least2IsInt
<1> HIDE DEF spend, amount
<1>9. traded \in Int
  BY <1>8, ConversionsAreInt DEF DataTyped
<1> HIDE DEF traded
<1> QED BY <1>1, <1>2, <1>3, <1>7, <1>9 DEF RouteTyped, Swaps, DataTyped

LEMMA CreditTyped ==
  ASSUME DataTyped, NEW i, IntentTyped(i), NEW r \in CreditRoutes(i)
  PROVE  RouteTyped(r) /\ r.kind = "credit"
<1> DEFINE c == i.correction
           dx == IF c < 0 THEN -Least2(-c, Spendable(acc.asset))
                 ELSE IF ToNumeraire(c, tick) <= Spendable(acc.nume) THEN c
                 ELSE ToAsset(Spendable(acc.nume), tick)
<1>1. r = [kind |-> "credit", amount |-> dx]
  BY Zenon DEF CreditRoutes
<1>2. c \in Int
  BY DEF IntentTyped
<1>3. Spendable(acc.asset) \in Int /\ Spendable(acc.nume) \in Int
  BY AccountParts, SpendableIsInt DEF DataTyped
<1>4. Least2(-c, Spendable(acc.asset)) \in Int
  <2>1. -c \in Int
    BY <1>2
  <2> QED BY <1>3, <2>1, Least2IsInt
<1>5. ToAsset(Spendable(acc.nume), tick) \in Int
  BY <1>3, ConversionsAreInt DEF DataTyped
<1>6. dx \in Int
  BY <1>2, <1>4, <1>5
<1> HIDE DEF dx
<1> QED BY <1>1, <1>6 DEF RouteTyped

LEMMA NettedTyped ==
  ASSUME NEW i, IntentTyped(i), NEW r \in NettedRoutes(i)
  PROVE  RouteTyped(r) /\ r.kind = "netted" /\ i.action = "shrink"
<1>1. PICK n \in 0..7 : r = [kind |-> "netted", amount |-> TemporaryLoan(i)[n]]
  BY DEF NettedRoutes
<1>2. i.action = "shrink"
  BY DEF NettedRoutes, NettedEligible
<1> QED BY <1>1, <1>2, TemporaryIsInt DEF RouteTyped

LEMMA OffVenueTyped ==
  ASSUME DataTyped, NEW i, IntentTyped(i), NEW r \in OffVenueRoutes(i)
  PROVE  RouteTyped(r) /\ i.swap
<1>1. PICK s \in NettingSwaps(i) : r = [kind |-> "off-venue", quoted |-> tick, swap |-> s]
  BY DEF OffVenueRoutes
<1>2. i.swap
  BY DEF OffVenueRoutes
<1> QED BY <1>1, <1>2, NettingTyped DEF RouteTyped, DataTyped

LEMMA InPoolTyped == RouteTyped(InPool) /\ InPool.kind = "in-pool"
BY DEF RouteTyped, InPool

\* A route that a cycle plans: of these types, and none but the dispatch of the
\* pool and a credit swap for a consolidation.
LEMMA RoutesTyped ==
  ASSUME DataTyped, NEW i, IntentTyped(i), NEW r \in Routes(i)
  PROVE  /\ RouteTyped(r) /\ r.kind # "off-venue"
         /\ r.kind \in {"in-pool", "credit"} \/ i.action \in {"open", "grow", "shrink"}
<1>1. r \in BalanceRoutes(i) \union CreditRoutes(i) \union NettedRoutes(i) \union {InPool}
  BY Zenon DEF Routes
<1>2. CASE r \in BalanceRoutes(i)
  <2>1. r.kind \in {"venue", "balance"}
    BY <1>2 DEF BalanceRoutes
  <2> QED BY <1>2, <2>1, BalanceTyped
<1> QED BY <1>1, <1>2, CreditTyped, NettedTyped, InPoolTyped

-----------------------------------------------------------------------------
(***************************************************************************)
(* Every step keeps the types.                                             *)
(***************************************************************************)

TInv == DataTyped /\ PlanTyped

LEMMA TInit == Init => TInv
<1> SUFFICES ASSUME Init PROVE TInv
  OBVIOUS
<1>1. 0 \in Ticks
  BY PlanAssumption DEF Ticks
<1>2. config.offsetBps \in Int
  BY PlanAssumption DEF Init
<1>3. options \in [delta : Int, size : Int] /\ owed \in Swaps
  BY PlanAssumption DEF Init, NoSwap, Swaps
<1>4. acc \in Accounts
  <2>1. PICK b \in StartBooks : acc = [asset |-> StartAsset, nume |-> StartNumeraire, book |-> b,
                                       loose |-> [asset |-> 0, nume |-> 0]]
    BY DEF Init
  <2>2. b \in Books
    <3>1. /\ IsFiniteSet(b)
          /\ b \subseteq [side : Side, strike : {0}, ratio : 1..StartLoans, positionSize : LoanSizes]
      BY DEF StartBooks
    <3>2. ASSUME NEW l \in [side : Side, strike : {0}, ratio : 1..StartLoans, positionSize : LoanSizes]
          PROVE  l \in Loans
      <4>1. l.ratio \in Nat \ {0} /\ l.positionSize \in Nat /\ l.strike \in Int /\ l.side \in Side
        <5>1. /\ l.side \in Side /\ l.strike \in {0} /\ l.ratio \in 1..StartLoans
              /\ l.positionSize \in LoanSizes
          OBVIOUS
        <5>2. 1..StartLoans \subseteq Nat \ {0} /\ LoanSizes \subseteq Nat
          BY PlanAssumption
        <5>3. l.strike = 0 /\ l.ratio \in Nat \ {0} /\ l.positionSize \in Nat
          BY <5>1, <5>2, Zenon
        <5> QED BY <5>1, <5>3
      <4>2. l = [side |-> l.side, strike |-> l.strike, ratio |-> l.ratio,
                 positionSize |-> l.positionSize]
        OBVIOUS
      <4> QED BY <4>1, <4>2 DEF Loans
    <3> QED BY <3>1, <3>2 DEF Books
  <2> QED BY <2>1, <2>2, PlanAssumption DEF Accounts, Wallets
<1>5. PlanTyped
  BY DEF Init, PlanTyped
<1> QED BY <1>1, <1>2, <1>3, <1>4, <1>5 DEF Init, TInv, DataTyped

LEMMA WorldTyped == ASSUME TInv, World PROVE TInv'
<1>1. UNCHANGED <<pc, plan, owed, config>>
  BY DEF World, MarketMoves, SignalMoves, OptionsClose, AdoptLoan, UserTransfers,
         CadenceElapses, SafeModeChanges
<1>2. PlanTyped'
  BY <1>1 DEF TInv, PlanTyped, IntentTyped, RouteTyped
<1>3. CASE MarketMoves
  <2>1. tick' \in Ticks /\ UNCHANGED <<signal, acc>>
    BY <1>3 DEF MarketMoves
  <2>2. options' \in [delta : Int, size : Int]
    <3>1. PICK d \in OptionDeltas :
            options' = [options EXCEPT !.delta = IF options.size = 0 THEN 0 ELSE d]
      BY <1>3 DEF MarketMoves
    <3>2. d \in Int
      BY PlanAssumption
    <3> QED BY <3>1, <3>2 DEF TInv, DataTyped
  <2> QED BY <1>1, <1>2, <2>1, <2>2 DEF TInv, DataTyped
<1>4. CASE AdoptLoan
  <2>1. PICK side \in Side, size \in LoanSizes :
          /\ FreeRatios(acc.book, side, RoundedStrike(tick)) # {}
          /\ acc' = Settle(acc, {}, {BuildUniqueLoan(acc.book, side, RoundedStrike(tick), size)}, TRUE, tick)
    BY <1>4, Zenon DEF AdoptLoan
  <2> DEFINE l == BuildUniqueLoan(acc.book, side, RoundedStrike(tick), size)
  <2>2. RoundedStrike(tick) \in Int /\ size \in Nat
    BY StrikeLies, PriceIsPositive, PlanAssumption DEF TInv, DataTyped
  <2>3. l \in Loans
    BY <2>1, <2>2, BuiltLoan
  <2> HIDE DEF l
  <2>4. {l} \in Books /\ {} \in Books /\ TRUE \in BOOLEAN
    BY <2>3, SingleBook, EmptyBook
  <2>5. acc \in Accounts /\ tick \in Ticks
    BY DEF TInv, DataTyped
  <2>6. Settle(acc, {}, {l}, TRUE, tick) \in Accounts
    BY <2>4, <2>5, Settled
  <2>7. acc' \in Accounts
    BY <2>1, <2>6 DEF l
  <2>8. UNCHANGED <<tick, signal, options>>
    BY <1>4 DEF AdoptLoan
  <2> QED BY <1>1, <1>2, <2>7, <2>8 DEF TInv, DataTyped
<1>5. CASE UserTransfers
  <2>1. acc' = [acc EXCEPT !.loose.asset = Transfer] /\ UNCHANGED <<tick, signal, options>>
    BY <1>5 DEF UserTransfers
  <2>2. acc' \in Accounts
    BY <2>1, PlanAssumption DEF TInv, DataTyped, Accounts, Wallets
  <2> QED BY <1>1, <1>2, <2>1, <2>2 DEF TInv, DataTyped
<1>6. CASE OptionsClose
  <2>1. options' \in [delta : Int, size : Int] /\ UNCHANGED <<tick, signal, acc>>
    BY <1>6 DEF OptionsClose
  <2> QED BY <1>1, <1>2, <2>1 DEF TInv, DataTyped
<1>7. CASE SignalMoves
  <2>1. signal' \in Ticks /\ UNCHANGED <<tick, options, acc>>
    BY <1>7 DEF SignalMoves
  <2> QED BY <1>1, <1>2, <2>1 DEF TInv, DataTyped
<1>8. CASE CadenceElapses \/ SafeModeChanges
  <2>1. UNCHANGED <<tick, signal, options, acc>>
    BY <1>8 DEF CadenceElapses, SafeModeChanges
  <2> QED BY <1>1, <1>2, <2>1 DEF TInv, DataTyped
<1> QED BY <1>3, <1>4, <1>5, <1>6, <1>7, <1>8 DEF World

LEMMA PlanIsTyped ==
  ASSUME TInv, PlanHedge
  PROVE  TInv' /\ \E r \in Routes(Intent(Exposure)) :
           plan' = [action |-> Intent(Exposure).action, intent |-> Intent(Exposure), route |-> r,
                    before |-> acc.book, plannedAt |-> moves, assessedAt |-> -1]
<1> DEFINE i == Intent(Exposure)
<1>1. /\ Mintable(Exposure)
      /\ \E r \in Routes(i) :
           plan' = [action |-> i.action, intent |-> i, route |-> r,
                    before |-> acc.book, plannedAt |-> moves, assessedAt |-> -1]
  BY Zenon DEF PlanHedge
<1>2. pc' = "planned" /\ UNCHANGED <<world, acc, owed>>
  BY DEF PlanHedge
<1>3. IntentTyped(i)
  BY <1>1, ExposureTyped, IntentMade DEF TInv
<1>4. PICK r \in Routes(i) :
        plan' = [action |-> i.action, intent |-> i, route |-> r,
                 before |-> acc.book, plannedAt |-> moves, assessedAt |-> -1]
  BY <1>1
<1>5. RouteTyped(r)
  BY <1>3, RoutesTyped DEF TInv
<1> HIDE DEF i
<1>6. IntentTyped(plan.intent)' /\ RouteTyped(plan.route)'
  BY <1>2, <1>3, <1>4, <1>5 DEF IntentTyped, RouteTyped
<1>7. PlanTyped'
  BY <1>2, <1>6 DEF PlanTyped
<1>8. DataTyped'
  BY <1>2 DEF TInv, DataTyped, world
<1> QED BY <1>1, <1>7, <1>8 DEF TInv, i

\* The preflight keeps the plan but for its route: what was wanted, the dispatch
\* of the pool, or an off-venue pair where the dispatch swaps.
LEMMA PreflightKeeps ==
  ASSUME TInv, PlanUnassessed, Preflight
  PROVE  /\ TInv'
         /\ pc' # "idle" =>
              /\ plan'.intent = plan.intent /\ plan'.action = plan.action
              /\ plan'.before = plan.before
              /\ \/ plan'.route = plan.route
                 \/ plan'.route.kind = "in-pool"
                 \/ plan'.route.kind = "off-venue" /\ plan.intent.swap
<1> DEFINE i == plan.intent
           wanted == WithFallback(i, plan.route)
           assessed == wanted.kind \in {"in-pool", "netted"} /\ i.mints # {}
           route == IF assessed /\ ~Sufficient(i, wanted, tick) THEN InPool ELSE wanted
<1>1. /\ pc = "planned" /\ UNCHANGED <<world, acc, owed>>
      /\ "route" \in DOMAIN plan /\ IntentTyped(i) /\ RouteTyped(plan.route)
  BY DEF Preflight, PlanUnassessed, TInv, PlanTyped
<1>2. DataTyped'
  BY <1>1 DEF TInv, DataTyped, world
<1>3. CASE assessed /\ ~Sufficient(i, route, tick)
  <2>1. pc' = "idle"
    BY <1>3 DEF Preflight
  <2> QED BY <1>2, <2>1 DEF TInv, PlanTyped
<1>4. CASE ~(assessed /\ ~Sufficient(i, route, tick))
  <2>1. pc' = "checked"
    BY <1>4 DEF Preflight
  <2>2. PICK r \in {route} \union {o \in OffVenueRoutes(i) : route = InPool} :
          plan' = [plan EXCEPT !.route = r, !.assessedAt = IF assessed THEN moves ELSE @]
    BY <1>4, Zenon DEF Preflight
  <2>3. route = plan.route \/ route = InPool
    BY DEF WithFallback
  <2>4. RouteTyped(route)
    BY <1>1, <2>3, InPoolTyped
  <2>5. /\ RouteTyped(r)
        /\ \/ r = plan.route \/ r.kind = "in-pool"
           \/ r.kind = "off-venue" /\ i.swap
    <3>1. CASE r = route
      BY <2>3, <2>4, <3>1, InPoolTyped
    <3>2. CASE r \in OffVenueRoutes(i)
      <4>1. r.kind = "off-venue"
        BY <3>2 DEF OffVenueRoutes
      <4> QED BY <1>1, <3>2, <4>1, OffVenueTyped DEF TInv
    <3> QED BY <2>2, <3>1, <3>2
  <2> HIDE DEF assessed, route
  <2>6. /\ plan'.intent = i /\ plan'.action = plan.action /\ plan'.before = plan.before
        /\ plan'.route = r
    BY <1>1, <2>2
  <2>7. IntentTyped(plan.intent)' /\ RouteTyped(plan.route)'
    BY <1>1, <2>5, <2>6 DEF IntentTyped, RouteTyped
  <2>8. PlanTyped'
    BY <2>1, <2>7 DEF PlanTyped
  <2> QED BY <1>2, <2>5, <2>6, <2>8 DEF TInv
<1> QED BY <1>3, <1>4

LEMMA SendTyped ==
  ASSUME TInv, SendLands
  PROVE  TInv'
<1>1. /\ pc = "checked" /\ IntentTyped(plan.intent) /\ RouteTyped(plan.route)
      /\ UNCHANGED world /\ acc \in Accounts /\ tick \in Ticks /\ owed \in Swaps
  BY DEF SendLands, TInv, PlanTyped, DataTyped
<1>2. acc' \in Accounts
  BY <1>1, AfterTyped DEF SendLands
<1>3. CASE plan.route.kind = "off-venue"
  <2>1. owed' = plan.route.swap /\ pc' = "swapping" /\ UNCHANGED plan
    BY <1>3 DEF SendLands
  <2>2. owed' \in Swaps
    BY <1>1, <1>3, <2>1 DEF RouteTyped
  <2>3. DataTyped'
    BY <1>1, <1>2, <2>2 DEF TInv, DataTyped, world
  <2>4. PlanTyped'
    BY <1>1, <1>3, <2>1 DEF PlanTyped, IntentTyped, RouteTyped
  <2> QED BY <2>3, <2>4 DEF TInv
<1>4. CASE plan.route.kind # "off-venue"
  <2>1. pc' = "idle" /\ owed' = owed
    BY <1>4 DEF SendLands
  <2>2. DataTyped'
    BY <1>1, <1>2, <2>1 DEF TInv, DataTyped, world
  <2> QED BY <2>1, <2>2 DEF TInv, PlanTyped
<1> QED BY <1>3, <1>4

\* A step that ends the cycle, or is made outside of it.
LEMMA CycleRests ==
  ASSUME TInv, acc' \in Accounts, owed' \in Swaps, pc' = "idle",
         UNCHANGED <<config, tick, signal, options>>
  PROVE  TInv'
BY DEF TInv, DataTyped, PlanTyped

LEMMA TStep == TInv /\ PlanUnassessed /\ [Next]_vars => TInv'
<1> SUFFICES ASSUME TInv, PlanUnassessed, [Next]_vars PROVE TInv'
  OBVIOUS
<1>0. /\ NoSwap \in Swaps /\ acc \in Accounts /\ owed \in Swaps /\ tick \in Ticks
  BY DEF NoSwap, Swaps, TInv, DataTyped
<1>1. CASE World
  BY <1>1, WorldTyped
<1>2. CASE RecoverSwap
  <2>1. /\ pc' = "idle" /\ owed' = NoSwap /\ acc' = Swapped(acc, owed, tick, tick)
        /\ UNCHANGED <<config, tick, signal, options>>
    BY <1>2 DEF RecoverSwap, world
  <2> QED BY <1>0, <2>1, SwappedTyped, CycleRests
<1>3. CASE Redeposit
  <2>1. /\ pc' = "idle" /\ owed' = owed /\ acc' = Redeposited(acc)
        /\ UNCHANGED <<config, tick, signal, options>>
    BY <1>3 DEF Redeposit, world
  <2> QED BY <1>0, <2>1, RedepositTyped, CycleRests
<1>4. CASE PlanHedge
  BY <1>4, PlanIsTyped
<1>5. CASE Preflight
  BY <1>5, PreflightKeeps
<1>6. CASE SendLands
  BY <1>6, SendTyped
<1>7. CASE SendReverts \/ Defer \/ SwapFails
  <2>1. pc' = "idle" /\ UNCHANGED <<config, tick, signal, options, acc, owed>>
    BY <1>7 DEF SendReverts, Defer, SwapFails, world
  <2> QED BY <1>0, <2>1, CycleRests
<1>8. CASE SwapLands
  <2>1. /\ pc' = "idle" /\ owed' = NoSwap /\ acc' = Swapped(acc, owed, plan.route.quoted, tick)
        /\ UNCHANGED <<config, tick, signal, options>>
    BY <1>8 DEF SwapLands, world
  <2>2. plan.route.quoted \in Ticks
    BY <1>8 DEF SwapLands, TInv, PlanTyped, RouteTyped
  <2> QED BY <1>0, <2>1, <2>2, SwappedTyped, CycleRests
<1>9. CASE UNCHANGED vars
  <2>1. UNCHANGED <<config, tick, signal, options, acc, owed, pc, plan>>
    BY <1>9 DEF vars
  <2> QED BY <2>1 DEF TInv, DataTyped, PlanTyped, IntentTyped, RouteTyped
<1> QED BY <1>1, <1>2, <1>3, <1>4, <1>5, <1>6, <1>7, <1>8, <1>9 DEF Next, Cycle

-----------------------------------------------------------------------------
(***************************************************************************)
(* The planner answers every drift.                                        *)
(***************************************************************************)

LEMMA TypesHold == Spec => [](TInv /\ RInv)
<1>1. TInv /\ RInv /\ [Next]_vars => (TInv /\ RInv)'
  BY TStep, RStep DEF RInv
<1> QED BY <1>1, TInit, RInit, PTL DEF Spec

\* A drift beyond the threshold is never met with no plan, whatever loans the
\* book holds, on whichever side, and however full it is (computeHedgeIntent's
\* tree in hedge/plan.ts).
THEOREM DriftIsAlwaysPlanned == Spec => []DriftIsPlanned
<1>1. TInv => DriftIsPlanned
  <2> SUFFICES ASSUME TInv PROVE DriftIsPlanned
    OBVIOUS
  <2>1. /\ Exposure.Hstar = Exposure.H - Exposure.effective
        /\ Exposure.drift = IF Exposure.basis > 0
                            THEN Quotient(Magnitude(Exposure.effective) * BPS, Exposure.basis) ELSE 0
    BY DEF Exposure
  <2>2. IsExposure(Exposure)
    BY <2>1, ExposureTyped DEF IsExposure, TInv
  <2> QED BY <2>2, DriftHasAction DEF DriftIsPlanned
<1> QED BY <1>1, TypesHold, PTL

-----------------------------------------------------------------------------
(***************************************************************************)
(* A consolidation.  One loan replaces the book; what it hedges differs by *)
(* the contracts of its ratio, two conversions, and the distance between   *)
(* its strike and the tick it is valued at.                                *)
(***************************************************************************)

LEMMA FlowIsOwed ==
  ASSUME NEW b \in Books, NEW t \in Ticks
  PROVE  AssetFlow(b, FALSE, t) = Owed(b, "short")
<1> DEFINE T == OfSide(b, "short")
           g == [l \in b |-> MintFlow(l, FALSE, t).asset]
           h == [l \in T |-> Principal(l)]
<1>1. IsFiniteSet(b) /\ T \in SUBSET b
  BY OfSideIsBook DEF Books
<1>2. \A l \in b : l \in Loans /\ Principal(l) \in Int
  BY PrincipalIsInt DEF Books
<1>3. g \in [b -> Int]
  BY <1>2, FlowIsInt
<1>4. h \in [T -> Int]
  BY <1>1, <1>2
<1>5. \A l \in b : g[l] = IF l \in T THEN h[l] ELSE 0
  <2>1. SUFFICES ASSUME NEW l \in b PROVE g[l] = IF l \in T THEN h[l] ELSE 0
    OBVIOUS
  <2>2. l.side \in {"short", "long"}
    BY <1>2 DEF Loans, Side
  <2>3. CASE l.side = "short"
    BY <2>3 DEF MintFlow, OfSide
  <2>4. CASE l.side = "long"
    BY <2>4 DEF MintFlow, OfSide
  <2> QED BY <2>2, <2>3, <2>4
<1>6. AssetFlow(b, FALSE, t) = SumFunction(g) /\ Owed(b, "short") = SumFunction(h)
  BY DEF AssetFlow, Owed, SumOf
<1> HIDE DEF g, h, T
<1>7. \A U \in SUBSET b : \A k \in [U -> Int] :
        (\A l \in b : g[l] = IF l \in U THEN k[l] ELSE 0) => SumFunction(g) = SumFunction(k)
  BY <1>1, <1>3, TotalFacts
<1>8. SumFunction(g) = SumFunction(h)
  BY <1>1, <1>4, <1>5, <1>7
<1> QED BY <1>6, <1>8

LEMMA LoneLoan ==
  ASSUME NEW l \in Loans, NEW t \in Ticks
  PROVE  /\ Signed({l}, t) = IF l.side = "long" THEN SizeAt(l, t) ELSE -SizeAt(l, t)
         /\ Signed({}, t) = 0
<1> DEFINE Total(S) == SumFunction([k \in S |-> SizeAt(k, t)])
<1>1. \A b : \A side : Gross(b, side, t) = Total(OfSide(b, side))
  BY DEF Gross, SumOf
<1>2. Total({}) = 0
  <2>1. [k \in {} |-> SizeAt(k, t)] \in [{} -> Int]
    OBVIOUS
  <2> QED BY <2>1, FS_EmptySet, TotalFacts
<1>3. Total({l}) = SizeAt(l, t)
  <2> DEFINE g == [k \in {l} |-> SizeAt(k, t)]
  <2>1. g \in [{l} -> Int] /\ g[l] = SizeAt(l, t) /\ IsFiniteSet({l})
    BY SizeIsInt, FS_Singleton
  <2> HIDE DEF g
  <2>2. SumFunction(g) = g[l]
    BY <2>1, TotalFacts
  <2> QED BY <2>1, <2>2 DEF g
<1> HIDE DEF Total
<1>4. OfSide({}, "long") = {} /\ OfSide({}, "short") = {}
  BY DEF OfSide
<1>5. l.side \in {"short", "long"} /\ SizeAt(l, t) \in Int
  BY SizeIsInt DEF Loans, Side
<1>6. Signed({}, t) = 0
  BY <1>1, <1>2, <1>4 DEF Signed
<1>7. CASE l.side = "long"
  <2>1. OfSide({l}, "long") = {l} /\ OfSide({l}, "short") = {}
    BY <1>7 DEF OfSide
  <2>2. Gross({l}, "long", t) = SizeAt(l, t) /\ Gross({l}, "short", t) = 0
    BY <1>1, <1>2, <1>3, <2>1
  <2> QED BY <1>5, <1>6, <1>7, <2>2 DEF Signed
<1>8. CASE l.side = "short"
  <2>1. OfSide({l}, "short") = {l} /\ OfSide({l}, "long") = {}
    BY <1>8 DEF OfSide
  <2>2. Gross({l}, "short", t) = SizeAt(l, t) /\ Gross({l}, "long", t) = 0
    BY <1>1, <1>2, <1>3, <2>1
  <2> QED BY <1>5, <1>6, <1>8, <2>2 DEF Signed
<1> QED BY <1>5, <1>7, <1>8

\* Contracts of ratio r lose less than r of the wanted size.
LEMMA ContractsRound ==
  ASSUME NEW h \in Nat, NEW r \in Nat \ {0}
  PROVE  /\ (h \div r) * r \in Nat /\ (h \div r) * r <= h
         /\ h - (h \div r) * r <= r - 1
OBVIOUS

\* The size of a long loan at a tick: two conversions of its notional.
LEMMA LongSize ==
  ASSUME NEW n \in Nat, NEW strike \in Int, NEW at \in Ticks, PriceAt(strike) > 0
  PROVE  LET X == ToAsset(ToNumeraire(n, strike), at)
         IN  /\ X \in Nat
             /\ X * PriceAt(at) <= n * PriceAt(strike)
             /\ n * PriceAt(strike) < X * PriceAt(at) + PriceAt(at) + Unit
<1> DEFINE E == PriceAt(strike)
           D == PriceAt(at)
           P == ToNumeraire(n, strike)
           X == ToAsset(P, at)
<1>1. /\ E \in Int /\ E > 0 /\ D \in Int /\ D > 0 /\ Unit \in Int /\ Unit > 0
  BY BookAssumption, PriceIsPositive DEF PriceAt
<1> DEFINE w == n * E
<1>2. w \in Nat
  BY <1>1
<1>3. P = w \div Unit
  BY <1>2 DEF ToNumeraire, Quotient
<1> HIDE DEF w, P, E
<1>4. P \in Nat /\ P * Unit <= w /\ w < P * Unit + Unit
  BY <1>1, <1>2, <1>3
<1> DEFINE v == P * Unit
<1>5. v \in Nat
  BY <1>1, <1>4
<1>6. X = v \div D
  BY <1>5 DEF ToAsset, Quotient
<1> HIDE DEF v, X, D
<1>7. X \in Nat /\ X * D <= v /\ v < X * D + D
  BY <1>1, <1>5, <1>6
<1>8. X * D \in Int
  BY <1>1, <1>7
<1>9. X * D <= w /\ w < X * D + D + Unit
  BY <1>1, <1>2, <1>4, <1>5, <1>7, <1>8 DEF v
<1> QED BY <1>7, <1>9 DEF X, P, D, E, w

\* What one loan, sized for a hedge of h at a strike near the tick, differs from it.
LEMMA LoanRounds ==
  ASSUME NEW h \in Nat, NEW r \in 1..MaxRatio, NEW side \in Side, NEW at \in Ticks,
         NEW strike \in Int, PriceAt(strike) > 0,
         strike - at <= Spacing + SanityMax, at - strike <= Spacing + SanityMax
  PROVE  LET l == [side |-> side, strike |-> strike, ratio |-> r, positionSize |-> h \div r]
             D == PriceAt(at)
         IN  Magnitude(SizeAt(l, at) - h) * D <= MaxRatio * D + Unit + h * (Spacing + SanityMax)
<1> DEFINE l == [side |-> side, strike |-> strike, ratio |-> r, positionSize |-> h \div r]
           n == (h \div r) * r
           D == PriceAt(at)
           E == PriceAt(strike)
           K == Spacing + SanityMax
           X == SizeAt(l, at)
<1>1. /\ n \in Nat /\ n <= h /\ h - n <= r - 1
  <2>1. r \in Nat \ {0}
    OBVIOUS
  <2> QED BY <2>1, ContractsRound
<1>2. /\ r \in Nat /\ r <= MaxRatio /\ MaxRatio \in Nat /\ Unit \in Nat /\ K \in Nat
      /\ D \in Int /\ D > 0 /\ E \in Int /\ E > 0
  BY BookAssumption, PlanAssumption, PriceIsPositive DEF PriceAt
<1>3. Principal(l) = IF side = "short" THEN n ELSE ToNumeraire(n, strike)
  BY DEF Principal, Notional
<1>4. X = IF side = "short" THEN n ELSE ToAsset(ToNumeraire(n, strike), at)
  BY <1>3 DEF SizeAt
<1>5. E = D + (strike - at) /\ at \in Int
  BY PriceIsPositive, BookAssumption DEF PriceAt
<1> HIDE DEF X, n, l
<1>6. X \in Nat /\ ((X * D <= n * E /\ n * E < X * D + D + Unit) \/ X = n)
  BY <1>1, <1>2, <1>4, LongSize
<1> DEFINE d == strike - at
<1>7. d \in Int /\ d <= K /\ -d <= K /\ E = D + d
  BY <1>5
<1> HIDE DEF d, D, E, K
<1> DEFINE a == (h - n) * D
           p == n * D
           q == n * d
           k == h * K
           x == X * D
           m == MaxRatio * D
<1>8. a \in Nat /\ a + D <= m
  <2>1. (h - n) + 1 <= MaxRatio /\ h - n \in Nat
    BY <1>1, <1>2
  <2>2. ((h - n) + 1) * D <= MaxRatio * D
    <3> DEFINE u == (h - n) + 1
    <3>1. u \in Nat /\ u <= MaxRatio
      BY <2>1
    <3> HIDE DEF u
    <3>2. u * D <= MaxRatio * D
      BY <1>2, <3>1
    <3> QED BY <3>2 DEF u
  <2>3. ((h - n) + 1) * D = a + D
    BY <1>2, <2>1
  <2>4. a \in Nat
    BY <1>2, <2>1
  <2> QED BY <2>2, <2>3, <2>4
<1>9. k \in Nat /\ q \in Int /\ q <= k /\ -q <= k
  <2>1. n * d <= n * K /\ n * (-d) <= n * K /\ n * K <= h * K
    BY <1>1, <1>2, <1>7
  <2>2. n * (-d) = -(n * d) /\ n * d \in Int /\ n * K \in Int /\ h * K \in Nat
    BY <1>1, <1>2, <1>7
  <2> QED BY <2>1, <2>2
<1>10. n * E = p + q /\ p \in Int
  BY <1>1, <1>2, <1>7
<1>11. X \in Nat /\ x \in Int /\ m \in Int
  BY <1>1, <1>2, <1>6
<1>12. (X - h) * D = x - (a + p) /\ (h - X) * D = (a + p) - x
  BY <1>1, <1>2, <1>11
<1>13. X = n => x = p
  OBVIOUS
<1> HIDE DEF a, p, q, k, x, m
<1>14. x - (a + p) <= m + Unit + k /\ (a + p) - x <= m + Unit + k
  <2>1. CASE X = n
    BY <1>2, <1>8, <1>9, <1>10, <1>11, <1>13, <2>1
  <2>2. CASE x <= p + q /\ p + q < x + D + Unit
    BY <1>2, <1>8, <1>9, <1>10, <1>11, <2>2
  <2> QED BY <1>6, <1>10, <2>1, <2>2 DEF x
<1>15. Magnitude(X - h) * D <= m + Unit + k
  <2>1. Magnitude(X - h) = X - h \/ Magnitude(X - h) = h - X
    BY <1>11 DEF Magnitude
  <2> QED BY <1>12, <1>14, <2>1
<1> QED BY <1>15 DEF X, l, m, k, D, K

\* What the mints of a consolidation hedge of the book they replace.
KeepsHedge(book, mints, at) ==
  LET H == Signed(book, at)
      error == Magnitude(Signed(mints, at) - H)
      price == PriceAt(at)
  IN  /\ Cardinality(mints) <= 1
      /\ error * price <= MaxRatio * price + Unit + Magnitude(H) * (Spacing + SanityMax)

LEMMA ConsolidationMints ==
  ASSUME TInv, NEW e, e.H = Signed(acc.book, tick), e.H \in Int, Mintable(e),
         Magnitude(signal - tick) <= SanityMax, Action(e) = "consolidate"
  PROVE  KeepsHedge(acc.book, Mints(e), tick)
<1> DEFINE H == e.H
           D == PriceAt(tick)
           K == Spacing + SanityMax
           strike == RoundedStrike(signal)
<1>1. MintSize(e) = H
  BY DEF MintSize
<1>2. /\ tick \in Ticks /\ signal \in Ticks /\ tick \in Int /\ signal \in Int
      /\ D \in Int /\ D > 0
  BY PriceIsPositive DEF TInv, DataTyped
<1>3. /\ K \in Nat /\ MaxRatio \in Nat /\ Unit \in Nat /\ Spacing \in Nat /\ SanityMax \in Nat
  BY BookAssumption, PlanAssumption
<1>4. SUFFICES /\ Cardinality(Mints(e)) <= 1
               /\ Magnitude(Signed(Mints(e), tick) - H) * D <= MaxRatio * D + Unit + Magnitude(H) * K
  BY DEF KeepsHedge
<1>5. CASE H = 0
  <2>1. Mints(e) = {} /\ Signed({}, tick) = 0
    <3>1. Mints(e) = {}
      BY <1>1, <1>5 DEF Mints
    <3>2. [side |-> "long", strike |-> 0, ratio |-> 1, positionSize |-> 0] \in Loans
      BY DEF Loans, Side
    <3> QED BY <1>2, <3>1, <3>2, LoneLoan
  <2>2. Cardinality({}) = 0
    BY FS_EmptySet
  <2>3. Magnitude(0 - 0) = 0 /\ Magnitude(0) = 0
    BY DEF Magnitude
  <2>4. 0 * D = 0 /\ 0 * K = 0 /\ MaxRatio * D \in Nat
    BY <1>2, <1>3
  <2> QED BY <1>3, <1>5, <2>1, <2>2, <2>3, <2>4
<1>6. CASE H # 0
  <2> DEFINE h == Magnitude(H)
             side == Direction(H)
  <2>1. h \in Nat /\ side \in Side
    BY MagnitudeIsNat DEF Direction, Side
  <2>2. /\ strike \in Int /\ strike <= signal /\ signal < strike + Spacing
    BY <1>2, StrikeLies
  <2>3. strike - tick <= K /\ tick - strike <= K
    <3>1. signal - tick <= SanityMax /\ tick - signal <= SanityMax
      BY <1>2, <1>3 DEF Magnitude
    <3> QED BY <1>2, <1>3, <2>2, <3>1
  <2>4. PriceAt(strike) > 0
    <3>1. signal >= -TicksBelow /\ TicksBelow + Spacing <= Unit
      BY <1>2, PlanAssumption DEF Ticks
    <3> QED BY <1>2, <1>3, <2>2, <3>1, PlanAssumption DEF PriceAt
  <2>5. PICK r \in 1..MaxRatio :
          /\ BuildUniqueLoan(acc.book, side, strike, h) =
               [side |-> side, strike |-> strike, ratio |-> r, positionSize |-> h \div r]
          /\ BuildUniqueLoan(acc.book, side, strike, h) \in Loans
    <3>1. FreeRatios(acc.book, side, strike) # {}
      BY <1>1, <1>6 DEF Mintable
    <3> HIDE DEF side, strike, h
    <3> QED BY <2>1, <2>2, <3>1, BuiltLoan
  <2> DEFINE l == [side |-> side, strike |-> strike, ratio |-> r, positionSize |-> h \div r]
  <2>6. Mints(e) = {l}
    BY <1>1, <1>6, <2>5 DEF Mints
  <2>7. l \in Loans /\ l.side = side
    BY <2>5
  <2>8. Magnitude(SizeAt(l, tick) - h) * D <= MaxRatio * D + Unit + h * K
    <3> HIDE DEF h, side, strike
    <3> QED BY <1>2, <2>1, <2>2, <2>3, <2>4, LoanRounds
  <2> HIDE DEF l, strike
  <2>9. SizeAt(l, tick) \in Int
    BY <1>2, <2>7, SizeIsInt
  <2>10. Signed(Mints(e), tick) = IF side = "long" THEN SizeAt(l, tick) ELSE -SizeAt(l, tick)
    BY <1>2, <2>6, <2>7, LoneLoan
  <2>11. Magnitude(Signed(Mints(e), tick) - H) = Magnitude(SizeAt(l, tick) - h)
    BY <1>6, <2>9, <2>10 DEF Magnitude, Direction
  <2>12. Cardinality({l}) = 1
    BY FS_Singleton
  <2> QED BY <2>6, <2>8, <2>11, <2>12
<1> QED BY <1>5, <1>6

\* A consolidation that is under way: by the pool or as a credit swap, without the
\* swap of a dispatch, and with a mint that keeps the hedge of the book it burns.
Consolidates ==
  pc \in {"planned", "checked"} /\ plan.action = "consolidate" =>
    /\ ~plan.intent.swap /\ plan.route.kind \in {"in-pool", "credit"}
    /\ plan.intent.burns = plan.before
    /\ KeepsHedge(plan.before, plan.intent.mints, plan.intent.at)

\* Nothing that a plan is made of changes while it waits.
LEMMA PlanWaits ==
  ASSUME Consolidates, UNCHANGED <<pc, plan>> PROVE Consolidates'
BY DEF Consolidates, KeepsHedge

LEMMA ConsolidationStep ==
  ASSUME TInv, PlanUnassessed, Consolidates, [Next]_vars PROVE Consolidates'
<1>1. CASE World \/ UNCHANGED vars
  <2>1. UNCHANGED <<pc, plan>>
    BY <1>1 DEF World, MarketMoves, SignalMoves, OptionsClose, AdoptLoan, UserTransfers,
                CadenceElapses, SafeModeChanges, vars
  <2> QED BY <2>1, PlanWaits
<1>2. CASE Defer \/ RecoverSwap \/ SendReverts \/ SwapLands \/ SwapFails \/ Redeposit \/ SendLands
  <2>1. pc' \in {"idle", "swapping"}
    BY <1>2 DEF Defer, RecoverSwap, SendReverts, SwapLands, SwapFails, Redeposit, SendLands
  <2> QED BY <2>1 DEF Consolidates
<1>3. CASE PlanHedge
  <2> DEFINE e == Exposure
             i == Intent(e)
  <2>1. PICK r \in Routes(i) :
          plan' = [action |-> i.action, intent |-> i, route |-> r,
                   before |-> acc.book, plannedAt |-> moves, assessedAt |-> -1]
    BY <1>3, PlanIsTyped
  <2>2. Mintable(e) /\ Magnitude(signal - tick) <= SanityMax
    BY <1>3, Zenon DEF PlanHedge
  <2>3. /\ i.action = Action(e) /\ i.burns = Burns(e) /\ i.mints = Mints(e)
        /\ i.swap = (Action(e) # "consolidate") /\ i.at = tick
    BY DEF Intent
  <2>4. e.H = Signed(acc.book, tick) /\ e.H \in Int /\ e.Hstar \in Int
    BY ExposureTyped DEF TInv
  <2>5. IntentTyped(i)
    BY <2>2, <2>4, IntentMade DEF TInv
  <2> HIDE DEF e, i
  <2>6. /\ plan'.action = Action(e) /\ plan'.intent = i /\ plan'.route = r
        /\ plan'.before = acc.book
    BY <2>1, <2>3
  <2>7. SUFFICES ASSUME Action(e) = "consolidate"
                 PROVE  /\ ~i.swap /\ r.kind \in {"in-pool", "credit"} /\ i.burns = acc.book
                        /\ KeepsHedge(acc.book, i.mints, i.at)
    BY <2>6, Zenon DEF Consolidates, KeepsHedge
  <2>8. r.kind \in {"in-pool", "credit"}
    BY <2>3, <2>5, <2>7, RoutesTyped DEF TInv
  <2>9. i.burns = acc.book
    BY <2>3, <2>7 DEF Burns
  <2>10. KeepsHedge(acc.book, Mints(e), tick)
    BY <2>2, <2>4, <2>7, ConsolidationMints
  <2> QED BY <2>3, <2>7, <2>8, <2>9, <2>10
<1>4. CASE Preflight
  <2>1. CASE pc' = "idle"
    BY <2>1 DEF Consolidates
  <2>2. CASE pc' # "idle"
    <3>1. /\ plan'.intent = plan.intent /\ plan'.action = plan.action
          /\ plan'.before = plan.before
          /\ \/ plan'.route = plan.route \/ plan'.route.kind = "in-pool"
             \/ plan.intent.swap
      BY <1>4, <2>2, PreflightKeeps
    <3>2. pc = "planned"
      BY <1>4 DEF Preflight
    <3>3. SUFFICES ASSUME plan.action = "consolidate"
                   PROVE  /\ ~plan.intent.swap /\ plan'.route.kind \in {"in-pool", "credit"}
                          /\ plan.intent.burns = plan.before
                          /\ KeepsHedge(plan.before, plan.intent.mints, plan.intent.at)
      BY <3>1, Zenon DEF Consolidates, KeepsHedge
    <3> QED BY <3>1, <3>2, <3>3 DEF Consolidates
  <2> QED BY <2>1, <2>2
<1> QED BY <1>1, <1>2, <1>3, <1>4 DEF Next, Cycle

\* What lands of a consolidation in the pool: the debts of the vault asset go, and
\* come back with the mint, beside as much collateral.
LEMMA ConsolidationLands ==
  ASSUME TInv, Consolidates, SendLands, plan.action = "consolidate", ~ChangesDelta
  PROVE  /\ NetDelta' = NetDelta /\ acc'.book = plan.intent.mints
         /\ KeepsHedge(acc.book, plan.intent.mints, plan.intent.at)
<1> DEFINE b == acc.book
           m == plan.intent.mints
<1>1. /\ pc = "checked" /\ acc.book = plan.before /\ UNCHANGED world
      /\ acc' = After(plan.intent, plan.route, tick)
  BY DEF SendLands, Lands
<1>2. /\ ~plan.intent.swap /\ plan.route.kind \in {"in-pool", "credit"}
      /\ plan.intent.burns = b /\ KeepsHedge(b, m, plan.intent.at)
  BY <1>1 DEF Consolidates
<1>3. plan.route.kind = "in-pool"
  BY <1>2 DEF ChangesDelta
<1>4. /\ IntentTyped(plan.intent) /\ acc \in Accounts /\ tick \in Ticks
      /\ options \in [delta : Int, size : Int]
  BY <1>1 DEF TInv, PlanTyped, DataTyped
<1>5. b \in Books /\ m \in Books /\ plan.intent.swap = FALSE
  BY <1>2, <1>4, AccountParts DEF IntentTyped
<1>6. acc' = Settle(acc, b, m, FALSE, tick)
  BY <1>1, <1>2, <1>3, <1>5 DEF After
<1>7. Settle(acc, b, m, FALSE, tick) =
        [acc EXCEPT !.asset = @ + AssetFlow(m, FALSE, tick) - AssetFlow(b, FALSE, tick),
                    !.nume  = @ + NumeFlow(m, FALSE, tick) - NumeFlow(b, FALSE, tick),
                    !.book  = (@ \ b) \union m]
  BY Zenon DEF Settle, SumOf, AssetFlow, NumeFlow
<1>8. /\ acc'.book = (b \ b) \union m
      /\ acc'.asset = acc.asset + AssetFlow(m, FALSE, tick) - AssetFlow(b, FALSE, tick)
      /\ acc'.loose = acc.loose
  BY <1>4, <1>6, <1>7 DEF Accounts
<1>9. acc'.book = m
  BY <1>8
<1>10. /\ AssetFlow(m, FALSE, tick) = Owed(m, "short")
       /\ AssetFlow(b, FALSE, tick) = Owed(b, "short")
  BY <1>4, <1>5, FlowIsOwed
<1>11. Owed(m, "short") \in Int /\ Owed(b, "short") \in Int /\ acc.asset \in Int
  BY <1>4, <1>5, OwedIsInt, AccountParts
<1>12. BookDelta(acc') = BookDelta(acc)
  <2>1. acc'.asset = acc.asset + Owed(m, "short") - Owed(b, "short")
    BY <1>8, <1>10
  <2>2. BookDelta(acc') = acc'.asset - Owed(m, "short") /\ BookDelta(acc) = acc.asset - Owed(b, "short")
    BY <1>9, Zenon DEF BookDelta
  <2> QED BY <1>11, <2>1, <2>2
<1>13. options' = options /\ config' = config
  BY <1>1 DEF world
<1>14. NetDelta' = NetDelta
  BY <1>8, <1>12, <1>13 DEF NetDelta, BookDelta
<1> QED BY <1>2, <1>9, <1>14

\* A consolidation for capacity leaves at most one loan, and leaves the account's
\* delta untouched: the loan hedges what the book did but for rounding and for how
\* far from the tick it is struck (computeHedgeIntent's CONSOLIDATE in
\* hedge/plan.ts, and buildUniqueLoan).
THEOREM ConsolidationKeeps == Spec => ConsolidationKeepsHedge
<1> DEFINE Inv == (TInv /\ RInv) /\ Consolidates
           Keeps ==
             SendLands /\ plan.action = "consolidate" /\ ~ChangesDelta =>
               /\ NetDelta' = NetDelta
               /\ Cardinality(acc'.book) <= 1
               /\ LET H == Signed(acc.book, plan.intent.at)
                      error == Magnitude(Signed(acc'.book, plan.intent.at) - H)
                      price == PriceAt(plan.intent.at)
                  IN  error * price <= MaxRatio * price + Unit + Magnitude(H) * (Spacing + SanityMax)
<1>1. Init => Inv
  BY TInit, RInit DEF Init, Consolidates
<1>2. Inv /\ [Next]_vars => Inv'
  <2>1. Inv /\ [Next]_vars => (TInv /\ RInv)'
    BY TStep, RStep DEF RInv
  <2>2. Inv /\ [Next]_vars => Consolidates'
    BY ConsolidationStep DEF RInv
  <2> QED BY <2>1, <2>2
<1>3. Inv /\ [Next]_vars => [Keeps]_vars
  <2> SUFFICES ASSUME Inv, SendLands, plan.action = "consolidate", ~ChangesDelta
               PROVE  /\ NetDelta' = NetDelta
                      /\ Cardinality(acc'.book) <= 1
                      /\ LET H == Signed(acc.book, plan.intent.at)
                             error == Magnitude(Signed(acc'.book, plan.intent.at) - H)
                             price == PriceAt(plan.intent.at)
                         IN  error * price <= MaxRatio * price + Unit + Magnitude(H) * (Spacing + SanityMax)
    OBVIOUS
  <2>1. /\ NetDelta' = NetDelta /\ acc'.book = plan.intent.mints
        /\ KeepsHedge(acc.book, plan.intent.mints, plan.intent.at)
    BY ConsolidationLands
  <2> QED BY <2>1, Zenon DEF KeepsHedge
<1> QED BY <1>1, <1>2, <1>3, PTL DEF Spec, ConsolidationKeepsHedge

=============================================================================
