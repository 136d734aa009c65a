-------------------------- MODULE HedgeWatch_proofs --------------------------
(***************************************************************************)
(* What GasPolicy and HedgeWatch guarantee for every cap, floor, estimate  *)
(* and base fee: a replacement is one the node takes.                      *)
(***************************************************************************)
EXTENDS HedgeWatch, WellFoundedInduction, TLAPS

-----------------------------------------------------------------------------
(***************************************************************************)
(* The fee arithmetic.                                                     *)
(***************************************************************************)

\* Fees that a transaction may offer: the tip is not zero and fits the fee,
\* the fee fits the cap.
Offered(fees) ==
  /\ fees.max \in Nat /\ fees.tip \in Nat
  /\ 0 < fees.tip /\ fees.tip <= fees.max /\ fees.max <= MaxFee

\* A quarter rounded up is a real raise, and more than the tenth that a node
\* asks for.
LEMMA RaiseClears ==
  ASSUME NEW x \in Nat, 0 < x
  PROVE  Raised(x) \in Nat /\ Raised(x) > x /\ 10 * Raised(x) >= 11 * x
<1>1. Raised(x) = (x * 125 + 99) \div 100
  BY DEF Raised, MultiplyRatioCeil
<1>2. x * 125 + 99 \in Nat
  OBVIOUS
<1> DEFINE n == x * 125 + 99
           r == n \div 100
<1>3. r \in Int /\ n < 100 * r + 100 /\ 100 * r <= n
  BY <1>2
<1>4. 4 * r >= 5 * x
  BY <1>3
<1> QED BY <1>1, <1>3, <1>4

\* Raising keeps the order of two fees.
LEMMA RaiseIsMonotone ==
  ASSUME NEW x \in Nat, NEW y \in Nat, x <= y
  PROVE  Raised(x) <= Raised(y)
<1> DEFINE n == x * 125 + 99
           m == y * 125 + 99
<1>1. Raised(x) = n \div 100 /\ Raised(y) = m \div 100
  BY DEF Raised, MultiplyRatioCeil
<1>2. n \in Nat /\ m \in Nat /\ n <= m
  OBVIOUS
<1> QED BY <1>1, <1>2

\* The fees of a first attempt may be offered.
LEMMA FreshIsOffered ==
  ASSUME NEW b \in Nat, NEW urgent \in BOOLEAN
  PROVE  Offered(FreshFees(b, Estimate, urgent))
<1> DEFINE tip == Tip(Estimate, urgent)
<1>1. tip \in Nat /\ 0 < tip /\ tip <= MaxFee
  BY GasAssumption, WatchAssumption DEF Tip, Upper, Lower
<1>2. /\ FreshFees(b, Estimate, urgent).max = Lower(2 * b + tip, MaxFee)
      /\ FreshFees(b, Estimate, urgent).tip = tip
  BY DEF FreshFees
<1> HIDE DEF tip
<1> QED BY <1>1, <1>2, GasAssumption DEF Offered, Lower

\* A replacement of offered fees, if there is one, may be offered and is one
\* that the node takes, whatever the market says now.
LEMMA BumpClears ==
  ASSUME NEW prev \in Fees, NEW fresh \in Fees, Offered(prev), Offered(fresh),
         Bumped(prev, fresh) # NoFees
  PROVE  /\ Bumped(prev, fresh) \in Fees /\ Offered(Bumped(prev, fresh))
         /\ NodeTakes(Bumped(prev, fresh), prev)
<1> DEFINE rm == Raised(prev.max)
           rt == Raised(prev.tip)
           max == Upper(rm, fresh.max)
           lift == Upper(rt, fresh.tip)
           tip == Lower(lift, max)
<1>1. rm \in Nat /\ rm > prev.max /\ 10 * rm >= 11 * prev.max
  BY RaiseClears DEF Offered
<1>2. rt \in Nat /\ rt > prev.tip /\ 10 * rt >= 11 * prev.tip
  BY RaiseClears DEF Offered
<1>3. rt <= rm
  BY RaiseIsMonotone DEF Offered
<1>4. max <= MaxFee /\ Bumped(prev, fresh) = [max |-> max, tip |-> tip]
  <2>1. Bumped(prev, fresh) = IF max > MaxFee THEN NoFees ELSE [max |-> max, tip |-> tip]
    BY DEF Bumped
  <2> HIDE DEF rm, rt
  <2>2. max \in Nat
    BY <1>1 DEF Upper, Offered
  <2> HIDE DEF max, tip
  <2> QED BY <2>1, <2>2, GasAssumption
<1> HIDE DEF rm, rt
<1>5. max \in Nat /\ rm <= max
  BY <1>1 DEF Upper, Offered
<1>6. lift \in Nat /\ rt <= lift
  BY <1>2 DEF Upper, Offered
<1> HIDE DEF max, lift
<1>7. tip \in Nat /\ rt <= tip /\ tip <= max
  BY <1>1, <1>2, <1>3, <1>5, <1>6 DEF Lower
<1> HIDE DEF tip
<1>8. Bumped(prev, fresh) \in Fees /\ Offered(Bumped(prev, fresh))
  BY <1>2, <1>4, <1>5, <1>7 DEF Offered, Fees
<1>9. NodeTakes(Bumped(prev, fresh), prev)
  BY <1>1, <1>2, <1>4, <1>5, <1>7 DEF NodeTakes, Offered
<1> QED BY <1>8, <1>9

-----------------------------------------------------------------------------
(***************************************************************************)
(* The transaction.                                                        *)
(***************************************************************************)

Sendings == [fees : Fees, urgent : BOOLEAN, target : Ticks]

\* What is being sent offers fees that a node can take.
FeeInv ==
  /\ tick \in Ticks /\ base \in BaseFees /\ send \in Sendings
  /\ pc = "sending" => Offered(send.fees)

LEMMA NoSendTyped == NoSend \in Sendings
BY TriggerAssumption DEF NoSend, NoFees, Fees, Sendings, Ticks

\* The fees that a send or a replacement starts from.
LEMMA MarketOffers ==
  ASSUME FeeInv
  PROVE  /\ FreshFees(base, Estimate, send.urgent) \in Fees
         /\ Offered(FreshFees(base, Estimate, send.urgent))
<1>1. base \in Nat /\ send.urgent \in BOOLEAN
  BY WatchAssumption DEF FeeInv, Sendings
<1>2. Offered(FreshFees(base, Estimate, send.urgent))
  BY <1>1, FreshIsOffered
<1> QED BY <1>2 DEF Offered, FreshFees, Fees

LEMMA FeeInit == Init => FeeInv
<1> SUFFICES ASSUME Init PROVE FeeInv
  OBVIOUS
<1>1. base \in BaseFees
  BY WatchAssumption DEF Init
<1>2. tick \in Ticks
  BY TriggerAssumption DEF Init, Ticks
<1> QED BY <1>1, <1>2, NoSendTyped DEF Init, FeeInv

\* The actions that leave what is being sent alone, or drop it.
SendKept == tick' = tick /\ base' = base /\ send' = send /\ (pc' = "sending" => pc = "sending")
SendEnded == tick' = tick /\ base' = base /\ send' = NoSend /\ pc' # "sending"

LEMMA KeepsFees == FeeInv /\ (SendKept \/ SendEnded) => FeeInv'
BY NoSendTyped DEF FeeInv, SendKept, SendEnded

LEMMA FeeStep == FeeInv /\ [Next]_vars => FeeInv'
<1> SUFFICES ASSUME FeeInv, [Next]_vars PROVE FeeInv'
  OBVIOUS
<1>1. CASE World
  BY <1>1 DEF FeeInv, World, PriceMoves, AccountChanges, SignalToggles, BaseFeeMoves
<1>2. CASE Tick \/ Monitor \/ Reconcile \/ CycleSkips \/ CycleFails
  <2>1. SendKept
    BY <1>2 DEF Tick, Monitor, MonitorSeesEvent, MonitorObserves, MonitorHolds, Reconcile,
                CycleSkips, CycleFails, market, SendKept
  <2> QED BY <2>1, KeepsFees
<1>3. CASE Defers \/ Lands \/ HeldLands \/ HeldDropped
  <2>1. SendEnded
    BY <1>3 DEF Defers, Lands, HeldLands, HeldDropped, market, SendEnded
  <2> QED BY <2>1, KeepsFees
<1>4. CASE CyclePlans
  <2>1. pc' # "sending" /\ base' = base /\ tick' = tick
    BY <1>4 DEF CyclePlans
  <2>2. send' \in Sendings
    <3> DEFINE big == Drift >= UrgentMultiplier * Threshold
    <3>1. send' = send \/ send' = [fees |-> NoFees, urgent |-> big, target |-> tick]
      BY <1>4, Zenon DEF CyclePlans
    <3>2. big \in BOOLEAN
      OBVIOUS
    <3>3. NoFees \in Fees /\ tick \in Ticks /\ send \in Sendings
      BY DEF FeeInv, NoFees, Fees
    <3> HIDE DEF big
    <3> QED BY <3>1, <3>2, <3>3 DEF Sendings
  <2> QED BY <2>1, <2>2 DEF FeeInv
<1>5. CASE Sends
  <2> DEFINE fresh == FreshFees(base, Estimate, send.urgent)
  <2>1. fresh \in Fees /\ Offered(fresh)
    BY MarketOffers
  <2>2. send' = [send EXCEPT !.fees = fresh] /\ base' = base /\ tick' = tick
    BY <1>5 DEF Sends, market
  <2> HIDE DEF fresh
  <2>3. send' \in Sendings /\ send'.fees = fresh
    BY <2>1, <2>2 DEF FeeInv, Sendings
  <2> QED BY <2>1, <2>2, <2>3 DEF FeeInv
<1>6. CASE Bump
  <2> DEFINE next == Bumped(send.fees, FreshFees(base, Estimate, send.urgent))
  <2>1. base' = base /\ tick' = tick /\ pc = "sending"
    BY <1>6 DEF Bump, market
  <2>2. CASE next = NoFees
    BY <1>6, <2>1, <2>2 DEF Bump, FeeInv
  <2>3. CASE next # NoFees
    <3>1. next \in Fees /\ Offered(next)
      BY <2>1, <2>3, MarketOffers, BumpClears DEF FeeInv, Sendings
    <3>2. send' = [send EXCEPT !.fees = next]
      BY <1>6, <2>3 DEF Bump
    <3> HIDE DEF next
    <3>3. send' \in Sendings /\ send'.fees = next
      BY <3>1, <3>2 DEF FeeInv, Sendings
    <3> QED BY <2>1, <3>1, <3>3 DEF FeeInv
  <2> QED BY <2>2, <2>3
<1>7. CASE NotMined
  <2>1. SendKept
    BY <1>7 DEF NotMined, market, SendKept
  <2> QED BY <2>1, KeepsFees
<1>8. CASE UNCHANGED vars
  <2>1. SendKept
    BY <1>8 DEF vars, SendKept
  <2> QED BY <2>1, KeepsFees
<1> QED BY <1>1, <1>2, <1>3, <1>4, <1>5, <1>6, <1>7, <1>8 DEF Next, Cycle, Transaction

\* Only a replacement changes what is being sent while it is being sent.
LEMMA OnlyBumpReplaces ==
  ASSUME [Next]_vars, pc = "sending", pc' = "sending", send' # send
  PROVE  Bump
<1>1. ~World
  BY DEF World, PriceMoves, AccountChanges, SignalToggles, BaseFeeMoves
<1>2. ~(Tick \/ Monitor \/ Reconcile)
  BY DEF Tick, Monitor, MonitorSeesEvent, MonitorObserves, MonitorHolds, Reconcile
<1>3. ~(Cycle \/ CycleFails)
  BY DEF Cycle, CycleSkips, CyclePlans, Defers, Sends, CycleFails
<1>4. ~Transaction
  BY DEF Transaction, Lands, NotMined, HeldLands, HeldDropped
<1>5. ~UNCHANGED vars
  BY DEF vars
<1> QED BY <1>1, <1>2, <1>3, <1>4, <1>5 DEF Next

\* Every replacement is one the node takes, within the cap, whatever the market
\* did since the attempt before it (gas/gasPolicy.ts:180-214).
THEOREM ReplacementsClear == Spec => ReplacementClears
<1> DEFINE Clears ==
      pc = "sending" /\ pc' = "sending" /\ send' # send =>
        /\ NodeTakes(send'.fees, send.fees)
        /\ send'.fees.tip <= send'.fees.max /\ send'.fees.max <= MaxFee
<1>1. FeeInv /\ [Next]_vars => [Clears]_vars
  <2> SUFFICES ASSUME FeeInv, [Next]_vars, pc = "sending", pc' = "sending", send' # send
               PROVE  /\ NodeTakes(send'.fees, send.fees)
                      /\ send'.fees.tip <= send'.fees.max /\ send'.fees.max <= MaxFee
    OBVIOUS
  <2> DEFINE next == Bumped(send.fees, FreshFees(base, Estimate, send.urgent))
  <2>1. next # NoFees /\ send' = [send EXCEPT !.fees = next]
    BY OnlyBumpReplaces DEF Bump
  <2>2. Offered(next) /\ NodeTakes(next, send.fees)
    BY <2>1, MarketOffers, BumpClears DEF FeeInv, Sendings
  <2> HIDE DEF next
  <2>3. send'.fees = next
    BY <2>1 DEF FeeInv, Sendings
  <2> QED BY <2>2, <2>3 DEF Offered
<1> QED BY <1>1, FeeInit, FeeStep, PTL DEF Spec, ReplacementClears

-----------------------------------------------------------------------------
(***************************************************************************)
(* Searches that end: a function that hands each of its arguments on to    *)
(* one of smaller size, until one of them halts.                           *)
(***************************************************************************)

\* A set of naturals that is not empty has a least element.
LEMMA LeastExists ==
  ASSUME NEW S \in SUBSET Nat, S # {}
  PROVE  \E m \in S : \A k \in S : m <= k
<1> DEFINE Lt == {p \in Nat \X Nat : p[1] < p[2]}
<1>1. IsWellFoundedOn(Lt, Nat)
  BY NatLessThanWellFounded DEF OpToRel
<1>2. \A k, m \in Nat : k < m => <<k, m>> \in Lt
  OBVIOUS
<1> HIDE DEF Lt
<1>3. PICK m \in S : \A k \in S : ~ (<<k, m>> \in Lt)
  BY <1>1, WFMin
<1>4. ASSUME NEW k \in S
      PROVE  m <= k
  <2>1. k \in Nat /\ m \in Nat
    OBVIOUS
  <2>2. ~ (k < m)
    BY <1>2, <1>3, <2>1, Zenon
  <2> QED BY <2>1, <2>2
<1> QED BY <1>4

\* An argument that does not halt is handed on to a smaller one.
Shrinks(P, Halts, next, size, N) ==
  /\ N \in Nat /\ next \in [P -> P] /\ size \in [P -> 0..N]
  /\ \A p \in P \ Halts : size[next[p]] < size[p]

Solves(f, P, Halts, found, next) ==
  \A p \in P : f[p] = IF p \in Halts THEN found[p] ELSE f[next[p]]

\* There is such a function: one that is right for every smaller size can be
\* made right for one size more.
LEMMA SearchExists ==
  ASSUME NEW P, NEW V, NEW Halts, NEW found \in [P -> V], NEW next, NEW N, NEW size,
         Shrinks(P, Halts, next, size, N)
  PROVE  \E f \in [P -> V] : Solves(f, P, Halts, found, next)
<1> USE DEF Shrinks
<1> DEFINE Right(f, p) == f[p] = IF p \in Halts THEN found[p] ELSE f[next[p]]
           Upto(n) == {f \in [P -> V] : \A p \in P : size[p] < n => Right(f, p)}
           Bad == {n \in Nat : Upto(n) = {}}
<1>1. Bad = {}
  <2>1. SUFFICES ASSUME Bad # {} PROVE FALSE
    OBVIOUS
  <2>2. PICK n \in Bad : \A k \in Bad : n <= k
    <3> HIDE DEF Upto
    <3>1. Bad \in SUBSET Nat
      OBVIOUS
    <3> HIDE DEF Bad
    <3> QED BY <2>1, <3>1, LeastExists
  <2>3. n # 0
    <3>1. found \in Upto(0)
      OBVIOUS
    <3> HIDE DEF Upto
    <3> QED BY <3>1
  <2>4. n \in Nat /\ n - 1 \in Nat
    BY <2>3
  <2>5. PICK f \in [P -> V] : \A p \in P : size[p] < n - 1 => Right(f, p)
    <3>1. n - 1 \notin Bad
      BY <2>2, <2>4
    <3>2. Upto(n - 1) # {}
      BY <3>1, <2>4
    <3> QED BY <3>2
  <2> DEFINE g == [p \in P |-> IF p \in Halts THEN found[p] ELSE f[next[p]]]
  <2>6. g \in [P -> V]
    OBVIOUS
  <2>7. ASSUME NEW p \in P, size[p] < n
        PROVE  Right(g, p)
    <3>1. CASE p \in Halts
      BY <3>1
    <3>2. CASE p \notin Halts
      <4>1. next[p] \in P /\ size[next[p]] < n - 1
        BY <3>2, <2>4, <2>7
      <4>2. g[next[p]] = f[next[p]]
        BY <4>1, <2>5
      <4> QED BY <3>2, <4>2
    <3> QED BY <3>1, <3>2
  <2>8. g \in Upto(n)
    <3> HIDE DEF g
    <3> QED BY <2>6, <2>7
  <2> QED BY <2>2, <2>8
<1>2. PICK f \in [P -> V] : \A p \in P : size[p] < N + 1 => Right(f, p)
  <2> HIDE DEF Upto
  <2>1. N + 1 \notin Bad /\ N + 1 \in Nat
    BY <1>1
  <2> USE DEF Upto
  <2>2. Upto(N + 1) # {}
    BY <2>1
  <2> QED BY <2>2
<1> QED BY <1>2 DEF Solves

\* The way from the arguments of I stays in I and halts on results in R.
Stays(I, R, Halts, found, next) ==
  /\ \A p \in I \ Halts : next[p] \in I
  /\ \A p \in I \cap Halts : found[p] \in R

\* Then it leads to R.
LEMMA SearchLeadsTo ==
  ASSUME NEW P, NEW I \in SUBSET P, NEW R, NEW Halts, NEW found, NEW f, NEW next, NEW N, NEW size,
         Shrinks(P, Halts, next, size, N), Solves(f, P, Halts, found, next),
         Stays(I, R, Halts, found, next)
  PROVE  \A p \in I : f[p] \in R
<1> USE DEF Shrinks, Solves, Stays
<1> DEFINE Lost == {p \in I : f[p] \notin R}
           Sizes == {size[p] : p \in Lost}
<1>1. SUFFICES ASSUME Lost # {} PROVE FALSE
  OBVIOUS
<1>2. PICK p \in Lost : \A q \in Lost : size[p] <= size[q]
  <2>1. Sizes \in SUBSET Nat /\ Sizes # {}
    BY <1>1
  <2>2. PICK m \in Sizes : \A k \in Sizes : m <= k
    BY <2>1, LeastExists
  <2> QED BY <2>2
<1>3. p \in P /\ p \notin Halts
  BY <1>2
<1>4. next[p] \in Lost
  BY <1>2, <1>3
<1>5. size[next[p]] < size[p] /\ size[p] <= size[next[p]]
  BY <1>2, <1>3, <1>4
<1>6. size[next[p]] \in Int /\ size[p] \in Int
  BY <1>3
<1> QED BY <1>5, <1>6

-----------------------------------------------------------------------------
(***************************************************************************)
(* The bisection and the doubling steps of findDriftBoundaries.            *)
(***************************************************************************)

\* Beyond a distance that is above, every distance is.
Rising(above, last) == \A j, k \in 0..last : j <= k /\ above[j] => above[k]

\* The distances that are the first one above.
Firsts(above, last) ==
  {r \in 0..last : above[r] /\ \A d \in 0..last : d < r => ~above[d]}

LEMMA MiddleLies ==
  ASSUME NEW a \in Nat, NEW b \in Nat, b - a > 1
  PROVE  Middle(a, b) \in Nat /\ a < Middle(a, b) /\ Middle(a, b) < b
BY DEF Middle

Pairs(last) == (0..last) \X (0..last)
Adjacent(last) == {p \in Pairs(last) : p[2] - p[1] <= 1}
HighEnd(last) == [p \in Pairs(last) |-> p[2]]
Width(last) == [p \in Pairs(last) |-> IF p[1] < p[2] THEN p[2] - p[1] ELSE 0]
Half(above, last) ==
  [p \in Pairs(last) |->
     IF p \in Adjacent(last) THEN p
     ELSE IF above[Middle(p[1], p[2])] THEN <<p[1], Middle(p[1], p[2])>>
     ELSE <<Middle(p[1], p[2]), p[2]>>]

LEMMA HalfNarrows ==
  ASSUME NEW last \in Nat, NEW above
  PROVE  /\ Shrinks(Pairs(last), Adjacent(last), Half(above, last), Width(last), last)
         /\ HighEnd(last) \in [Pairs(last) -> 0..last]
<1>1. ASSUME NEW p \in Pairs(last) \ Adjacent(last)
      PROVE  /\ <<p[1], Middle(p[1], p[2])>> \in Pairs(last)
             /\ <<Middle(p[1], p[2]), p[2]>> \in Pairs(last)
             /\ p[1] < Middle(p[1], p[2]) /\ Middle(p[1], p[2]) < p[2]
             /\ p[1] \in Nat /\ p[2] \in Nat /\ Middle(p[1], p[2]) \in Nat
  <2>1. p[1] \in 0..last /\ p[2] \in 0..last /\ p[2] - p[1] > 1
    BY DEF Pairs, Adjacent
  <2>2. /\ Middle(p[1], p[2]) \in Nat
        /\ p[1] < Middle(p[1], p[2]) /\ Middle(p[1], p[2]) < p[2]
    BY <2>1, MiddleLies
  <2> QED BY <2>1, <2>2 DEF Pairs
<1>2. \A p \in Pairs(last) : Half(above, last)[p] \in Pairs(last)
  BY <1>1 DEF Half
<1>3. \A p \in Pairs(last) : p[1] \in 0..last /\ p[2] \in 0..last
  BY DEF Pairs
<1>4. Half(above, last) \in [Pairs(last) -> Pairs(last)]
  <2>1. Half(above, last) = [p \in Pairs(last) |-> Half(above, last)[p]]
    BY DEF Half
  <2> QED BY <1>2, <2>1
<1>5. ASSUME NEW p \in Pairs(last) \ Adjacent(last)
      PROVE  Width(last)[Half(above, last)[p]] < Width(last)[p]
  <2> DEFINE m == Middle(p[1], p[2])
  <2>1. /\ <<p[1], m>> \in Pairs(last) /\ <<m, p[2]>> \in Pairs(last)
        /\ p[1] < m /\ m < p[2] /\ p[1] \in Nat /\ p[2] \in Nat /\ m \in Nat
    BY <1>1
  <2>2. Half(above, last)[p] = <<p[1], m>> \/ Half(above, last)[p] = <<m, p[2]>>
    BY DEF Half
  <2> HIDE DEF m
  <2>3. Width(last)[<<p[1], m>>] = m - p[1] /\ Width(last)[<<m, p[2]>>] = p[2] - m
    BY <2>1 DEF Width
  <2>4. Width(last)[p] = p[2] - p[1]
    BY <2>1 DEF Width
  <2> QED BY <2>1, <2>2, <2>3, <2>4
<1>6. Width(last) \in [Pairs(last) -> 0..last]
  BY <1>3 DEF Width
<1>7. HighEnd(last) \in [Pairs(last) -> 0..last]
  BY <1>3 DEF HighEnd
<1> QED BY <1>4, <1>5, <1>6, <1>7 DEF Shrinks

\* The recursive definition of the bisection has a solution.
LEMMA BisectEquation ==
  ASSUME NEW last \in Nat, NEW above
  PROVE  Solves(Bisect(above, last), Pairs(last), Adjacent(last), HighEnd(last), Half(above, last))
<1> DEFINE Step(f) ==
      [p \in Pairs(last) |->
        IF p[2] - p[1] <= 1 THEN p[2]
        ELSE IF above[Middle(p[1], p[2])] THEN f[<<p[1], Middle(p[1], p[2])>>]
        ELSE f[<<Middle(p[1], p[2]), p[2]>>]]
<1>1. PICK f \in [Pairs(last) -> 0..last] :
        Solves(f, Pairs(last), Adjacent(last), HighEnd(last), Half(above, last))
  BY HalfNarrows, SearchExists
<1>2. ASSUME NEW g, NEW p \in Pairs(last)
      PROVE  Step(g)[p] = IF p \in Adjacent(last) THEN HighEnd(last)[p] ELSE g[Half(above, last)[p]]
  BY DEF Adjacent, HighEnd, Half
<1>3. f = Step(f)
  <2>1. \A p \in Pairs(last) : f[p] = Step(f)[p]
    BY <1>1, <1>2 DEF Solves
  <2>2. f = [p \in Pairs(last) |-> f[p]]
    BY <1>1
  <2>3. Step(f) = [p \in Pairs(last) |-> Step(f)[p]]
    OBVIOUS
  <2> HIDE DEF Step
  <2> QED BY <2>1, <2>2, <2>3
<1>4. Bisect(above, last) = CHOOSE g : g = Step(g)
  BY Zenon DEF Bisect, Pairs
<1>5. Bisect(above, last) = Step(Bisect(above, last))
  <2> HIDE DEF Step
  <2> QED BY <1>3, <1>4
<1> HIDE DEF Step
<1> QED BY <1>2, <1>5 DEF Solves

\* It ends on the first distance above.
LEMMA BisectFinds ==
  ASSUME NEW last \in Nat, NEW above \in [0..last -> BOOLEAN], Rising(above, last),
         NEW low \in 0..last, NEW high \in 0..last, ~above[low], above[high]
  PROVE  Bisect(above, last)[<<low, high>>] \in Firsts(above, last)
<1> DEFINE I == {p \in Pairs(last) : ~above[p[1]] /\ above[p[2]]}
<1>1. \A p \in I \ Adjacent(last) : Half(above, last)[p] \in I
  <2>1. SUFFICES ASSUME NEW p \in I \ Adjacent(last)
                 PROVE  Half(above, last)[p] \in I
    OBVIOUS
  <2>2. Half(above, last)[p] \in Pairs(last)
    BY HalfNarrows DEF Shrinks
  <2>3. Half(above, last)[p] = IF above[Middle(p[1], p[2])] THEN <<p[1], Middle(p[1], p[2])>>
                               ELSE <<Middle(p[1], p[2]), p[2]>>
    BY DEF Half
  <2> QED BY <2>2, <2>3
<1>2. \A p \in I \cap Adjacent(last) : HighEnd(last)[p] \in Firsts(above, last)
  <2>1. SUFFICES ASSUME NEW p \in I, p \in Adjacent(last)
                 PROVE  HighEnd(last)[p] \in Firsts(above, last)
    OBVIOUS
  <2>2. HighEnd(last)[p] = p[2]
    BY DEF HighEnd
  <2>3. p[1] \in 0..last /\ p[2] \in 0..last /\ p[2] - p[1] <= 1 /\ ~above[p[1]] /\ above[p[2]]
    BY <2>1 DEF Adjacent, Pairs
  <2>4. ASSUME NEW d \in 0..last, d < p[2]
        PROVE  ~above[d]
    <3>1. d <= p[1]
      BY <2>3, <2>4
    <3> QED BY <3>1, <2>3 DEF Rising
  <2> QED BY <2>2, <2>3, <2>4 DEF Firsts
<1>3. I \in SUBSET Pairs(last) /\ <<low, high>> \in I
  BY DEF Pairs
<1> HIDE DEF I
<1>4. Stays(I, Firsts(above, last), Adjacent(last), HighEnd(last), Half(above, last))
  BY <1>1, <1>2 DEF Stays
<1>5. \A p \in I : Bisect(above, last)[p] \in Firsts(above, last)
  <2>1. Shrinks(Pairs(last), Adjacent(last), Half(above, last), Width(last), last)
    BY HalfNarrows
  <2>2. Solves(Bisect(above, last), Pairs(last), Adjacent(last), HighEnd(last), Half(above, last))
    BY BisectEquation
  <2> QED BY <1>3, <1>4, <2>1, <2>2, SearchLeadsTo, Zenon
<1> QED BY <1>3, <1>5

Strides(last) == (0..last) \X (1..2 * last + 1)
Ended(above, last) ==
  {p \in Strides(last) : above[Candidate(p, last)] \/ Candidate(p, last) = last}
Bracketed(above, last) ==
  [p \in Strides(last) |->
     IF above[Candidate(p, last)] THEN Bisect(above, last)[<<p[1], Candidate(p, last)>>]
     ELSE NoBoundary]
Remaining(last) == [p \in Strides(last) |-> last - p[1]]
Stride(above, last) ==
  [p \in Strides(last) |->
     IF p \in Ended(above, last) THEN p ELSE <<Candidate(p, last), 2 * p[2]>>]

LEMMA CandidateLies ==
  ASSUME NEW last \in Nat, NEW p \in Strides(last)
  PROVE  /\ p[1] \in 0..last /\ p[2] \in 1..2 * last + 1
         /\ Candidate(p, last) \in 0..last
         /\ Candidate(p, last) # last =>
              p[1] < Candidate(p, last) /\ <<Candidate(p, last), 2 * p[2]>> \in Strides(last)
<1>1. p[1] \in 0..last /\ p[2] \in 1..2 * last + 1
  BY DEF Strides
<1>2. Candidate(p, last) = IF p[1] + p[2] > last THEN last ELSE p[1] + p[2]
  BY DEF Candidate
<1>3. Candidate(p, last) \in 0..last
  BY <1>1, <1>2
<1>4. ASSUME Candidate(p, last) # last
      PROVE  p[1] < Candidate(p, last) /\ 2 * p[2] \in 1..2 * last + 1
  BY <1>1, <1>2, <1>4
<1> QED BY <1>1, <1>3, <1>4 DEF Strides

LEMMA StridesAdvance ==
  ASSUME NEW last \in Nat, NEW above
  PROVE  Shrinks(Strides(last), Ended(above, last), Stride(above, last), Remaining(last), last)
<1>1. \A p \in Strides(last) : Stride(above, last)[p] \in Strides(last)
  BY CandidateLies DEF Stride, Ended
<1>2. Stride(above, last) \in [Strides(last) -> Strides(last)]
  <2>1. Stride(above, last) = [p \in Strides(last) |-> Stride(above, last)[p]]
    BY DEF Stride
  <2> QED BY <1>1, <2>1
<1>3. Remaining(last) \in [Strides(last) -> 0..last]
  <2>1. \A p \in Strides(last) : last - p[1] \in 0..last
    BY DEF Strides
  <2> QED BY <2>1 DEF Remaining
<1>4. ASSUME NEW p \in Strides(last) \ Ended(above, last)
      PROVE  Remaining(last)[Stride(above, last)[p]] < Remaining(last)[p]
  <2> DEFINE c == Candidate(p, last)
  <2>1. Stride(above, last)[p] = <<c, 2 * p[2]>>
    BY DEF Stride
  <2>2. p[1] \in 0..last /\ c \in 0..last /\ p[1] < c /\ <<c, 2 * p[2]>> \in Strides(last)
    BY CandidateLies DEF Ended
  <2> HIDE DEF c
  <2>3. Remaining(last)[<<c, 2 * p[2]>>] = last - c /\ Remaining(last)[p] = last - p[1]
    BY <2>2 DEF Remaining
  <2> QED BY <2>1, <2>2, <2>3
<1> QED BY <1>2, <1>3, <1>4 DEF Shrinks

LEMMA DoubleEquation ==
  ASSUME NEW last \in Nat, NEW above
  PROVE  Solves(Double(above, last), Strides(last), Ended(above, last), Bracketed(above, last),
                Stride(above, last))
<1> DEFINE Step(f) ==
      [p \in Strides(last) |->
        IF above[Candidate(p, last)] THEN Bisect(above, last)[<<p[1], Candidate(p, last)>>]
        ELSE IF Candidate(p, last) = last THEN NoBoundary
        ELSE f[<<Candidate(p, last), 2 * p[2]>>]]
     V == {Bracketed(above, last)[p] : p \in Strides(last)}
<1>1. PICK f \in [Strides(last) -> V] :
        Solves(f, Strides(last), Ended(above, last), Bracketed(above, last), Stride(above, last))
  <2>1. Bracketed(above, last) \in [Strides(last) -> V]
    <3>1. Bracketed(above, last) = [p \in Strides(last) |-> Bracketed(above, last)[p]]
      BY DEF Bracketed
    <3> QED BY <3>1
  <2> HIDE DEF V
  <2> QED BY <2>1, StridesAdvance, SearchExists
<1>2. ASSUME NEW g, NEW p \in Strides(last)
      PROVE  Step(g)[p] = IF p \in Ended(above, last) THEN Bracketed(above, last)[p]
                          ELSE g[Stride(above, last)[p]]
  BY DEF Ended, Bracketed, Stride
<1>3. f = Step(f)
  <2>1. \A p \in Strides(last) : f[p] = Step(f)[p]
    BY <1>1, <1>2 DEF Solves
  <2>2. f = [p \in Strides(last) |-> f[p]]
    BY <1>1
  <2>3. Step(f) = [p \in Strides(last) |-> Step(f)[p]]
    OBVIOUS
  <2> HIDE DEF Step
  <2> QED BY <2>1, <2>2, <2>3
<1>4. Double(above, last) = CHOOSE g : g = Step(g)
  BY Zenon DEF Double, Strides
<1>5. Double(above, last) = Step(Double(above, last))
  <2> HIDE DEF Step
  <2> QED BY <1>3, <1>4
<1> HIDE DEF Step
<1> QED BY <1>2, <1>5 DEF Solves

\* What a search from a safe distance may end on: the first distance above, or
\* no boundary where none is above.
Found(above, last) ==
  Firsts(above, last) \union {r \in {NoBoundary} : \A d \in 0..last : ~above[d]}

LEMMA SearchFinds ==
  ASSUME NEW last \in Nat, NEW above \in [0..last -> BOOLEAN], Rising(above, last), ~above[0]
  PROVE  Search(above, last) \in Found(above, last)
<1> DEFINE I == {p \in Strides(last) : ~above[p[1]]}
<1>1. \A p \in I \ Ended(above, last) : Stride(above, last)[p] \in I
  <2>1. SUFFICES ASSUME NEW p \in I, p \notin Ended(above, last)
                 PROVE  Stride(above, last)[p] \in I
    OBVIOUS
  <2>2. p \in Strides(last) /\ ~above[Candidate(p, last)] /\ Candidate(p, last) # last
    BY <2>1 DEF Ended
  <2>3. Stride(above, last)[p] = <<Candidate(p, last), 2 * p[2]>>
    BY <2>1, <2>2 DEF Stride
  <2> QED BY <2>2, <2>3, CandidateLies
<1>2. \A p \in I \cap Ended(above, last) : Bracketed(above, last)[p] \in Found(above, last)
  <2>1. SUFFICES ASSUME NEW p \in I, p \in Ended(above, last)
                 PROVE  Bracketed(above, last)[p] \in Found(above, last)
    OBVIOUS
  <2> DEFINE c == Candidate(p, last)
  <2>2. c \in 0..last /\ p[1] \in 0..last /\ ~above[p[1]]
    BY CandidateLies
  <2>3. above[c] \/ c = last
    BY <2>1 DEF Ended
  <2>4. Bracketed(above, last)[p] = IF above[c] THEN Bisect(above, last)[<<p[1], c>>] ELSE NoBoundary
    BY DEF Bracketed
  <2> HIDE DEF c
  <2>5. CASE above[c]
    BY <2>2, <2>4, <2>5, BisectFinds DEF Found
  <2>6. CASE ~above[c]
    <3>1. \A d \in 0..last : ~above[d]
      BY <2>3, <2>6 DEF Rising
    <3> QED BY <2>4, <2>6, <3>1 DEF Found
  <2> QED BY <2>5, <2>6
<1>3. CASE last = 0
  BY <1>3 DEF Search, Found
<1>4. CASE last # 0
  <2>1. I \in SUBSET Strides(last) /\ <<0, 1>> \in I
    BY DEF Strides
  <2>2. Stays(I, Found(above, last), Ended(above, last), Bracketed(above, last), Stride(above, last))
    BY <1>1, <1>2 DEF Stays
  <2> HIDE DEF I
  <2>3. \A p \in I : Double(above, last)[p] \in Found(above, last)
    <3>1. Shrinks(Strides(last), Ended(above, last), Stride(above, last), Remaining(last), last)
      BY StridesAdvance
    <3>2. Solves(Double(above, last), Strides(last), Ended(above, last), Bracketed(above, last),
                 Stride(above, last))
      BY DoubleEquation
    <3> QED BY <2>1, <2>2, <3>1, <3>2, SearchLeadsTo, Zenon
  <2> QED BY <1>4, <2>1, <2>3 DEF Search
<1> QED BY <1>3, <1>4

-----------------------------------------------------------------------------
(***************************************************************************)
(* The boundaries of a book.                                               *)
(***************************************************************************)

Distance(h, t) == IF t > h THEN t - h ELSE h - t

LEMMA FartherDriftsMore ==
  ASSUME NEW x \in Nat, NEW y \in Nat, x <= y
  PROVE  Slope * x \in Nat /\ Slope * x <= Slope * y
<1>1. PICK z \in Nat : y = x + z
  <2>1. y - x \in Nat /\ y = x + (y - x)
    OBVIOUS
  <2> QED BY <2>1
<1>2. Slope * y = Slope * x + Slope * z
  BY <1>1, TriggerAssumption
<1>3. Slope * x \in Nat /\ Slope * z \in Nat
  BY TriggerAssumption
<1> QED BY <1>2, <1>3

\* What saturates, saturates above the threshold.
LEMMA DriftByDistance ==
  ASSUME NEW kind \in {"gamma", "capped"}, NEW h \in Ticks, NEW t \in Ticks
  PROVE  DriftAt(kind, h, t) > Threshold <=> Slope * Distance(h, t) > Threshold
<1> DEFINE s == Slope * Distance(h, t)
<1>1. DriftAt(kind, h, t) =
        IF kind = "gamma" THEN s
        ELSE IF t > h /\ s > Threshold + 1 THEN Threshold + 1 ELSE s
  BY DEF DriftAt, Distance
<1>2. s \in Nat
  <2>1. Distance(h, t) \in Nat
    BY TriggerAssumption DEF Distance, Ticks
  <2> QED BY <2>1, FartherDriftsMore
<1> HIDE DEF s
<1>3. DriftAt(kind, h, t) > Threshold <=> s > Threshold
  BY <1>1, <1>2, TriggerAssumption
<1> QED BY <1>3 DEF s

\* A book with boundaries that is safe at a tick drifts further and further
\* beyond the threshold away from it, whatever side of neutral it is on.
LEMMA DriftRises ==
  ASSUME NEW kind \in {"gamma", "capped"}, NEW h \in Ticks, NEW a \in Ticks, NEW t \in Ticks,
         NEW u \in Ticks, (a <= t /\ t <= u) \/ (u <= t /\ t <= a),
         ~ (DriftAt(kind, h, a) > Threshold), DriftAt(kind, h, t) > Threshold
  PROVE  DriftAt(kind, h, u) > Threshold
<1>1. \A x \in Ticks : Distance(h, x) \in Nat
  BY TriggerAssumption DEF Distance, Ticks
<1>2. Distance(h, t) <= Distance(h, a) \/ Distance(h, t) <= Distance(h, u)
  BY TriggerAssumption DEF Distance, Ticks
<1>3. ~ (Slope * Distance(h, a) > Threshold) /\ Slope * Distance(h, t) > Threshold
  BY DriftByDistance
<1>4. ~ (Distance(h, t) <= Distance(h, a))
  <2>1. ASSUME Distance(h, t) <= Distance(h, a) PROVE FALSE
    <3>1. /\ Slope * Distance(h, t) \in Nat /\ Slope * Distance(h, a) \in Nat
          /\ Slope * Distance(h, t) <= Slope * Distance(h, a)
      BY <1>1, <2>1, FartherDriftsMore
    <3> QED BY <1>3, <3>1, TriggerAssumption
  <2> QED BY <2>1
<1>5. /\ Slope * Distance(h, t) \in Nat /\ Slope * Distance(h, u) \in Nat
      /\ Slope * Distance(h, t) <= Slope * Distance(h, u)
  BY <1>1, <1>2, <1>4, FartherDriftsMore
<1>6. Slope * Distance(h, u) > Threshold
  BY <1>3, <1>5, TriggerAssumption
<1> QED BY <1>6, DriftByDistance

LEMMA DriftTyped ==
  ASSUME NEW kind \in {"gamma", "capped"}, NEW h \in Ticks, NEW t \in Ticks
  PROVE  DriftAt(kind, h, t) \in Nat
<1> DEFINE s == Slope * Distance(h, t)
<1>1. DriftAt(kind, h, t) = s \/ DriftAt(kind, h, t) = Threshold + 1
  BY DEF DriftAt, Distance
<1>2. Distance(h, t) \in Nat
  BY TriggerAssumption DEF Distance, Ticks
<1>3. s \in Nat
  BY <1>2, FartherDriftsMore
<1> QED BY <1>1, <1>3, TriggerAssumption

\* A tick is crossed exactly when its drift is above, on either side.
LEMMA BoundariesSeparate ==
  ASSUME NEW kind \in {"gamma", "capped"}, NEW h \in Ticks, NEW a \in Ticks, NEW t \in Ticks,
         ~ (DriftAt(kind, h, a) > Threshold)
  PROVE  Crossed(t, Boundaries(kind, h, a, Threshold)) <=> DriftAt(kind, h, t) > Threshold
<1> DEFINE Above(x) == DriftAt(kind, h, x) > Threshold
           ups == [d \in 0..(MaxTick - a) |-> Above(a + d)]
           downs == [d \in 0..a |-> Above(a - d)]
           up == Search(ups, MaxTick - a)
           down == Search(downs, a)
<1>1. /\ MaxTick \in Nat /\ a \in Nat /\ t \in Nat /\ MaxTick - a \in Nat
      /\ \A d \in 0..(MaxTick - a) : a + d \in Ticks
      /\ \A d \in 0..a : a - d \in Ticks
      /\ t \in 0..MaxTick
  BY TriggerAssumption DEF Ticks
<1>2. ups \in [0..(MaxTick - a) -> BOOLEAN] /\ downs \in [0..a -> BOOLEAN]
  OBVIOUS
<1>3. /\ \A d \in 0..(MaxTick - a) : ups[d] <=> Above(a + d)
      /\ \A d \in 0..a : downs[d] <=> Above(a - d)
  OBVIOUS
<1>4. ~ups[0] /\ ~downs[0]
  <2>1. ~Above(a) /\ a + 0 = a /\ a - 0 = a
    BY <1>1
  <2> HIDE DEF Above, ups, downs
  <2> QED BY <1>1, <1>3, <2>1
<1>5. \A x, y \in Ticks : (a <= x /\ x <= y) \/ (y <= x /\ x <= a) => (Above(x) => Above(y))
  BY DriftRises
<1>6. Boundaries(kind, h, a, Threshold) =
        [down |-> IF down = NoBoundary THEN NoBoundary ELSE a - down,
         up |-> IF up = NoBoundary THEN NoBoundary ELSE a + up]
  BY Zenon DEF Boundaries
<1> HIDE DEF Above, ups, downs
<1>7. Rising(ups, MaxTick - a)
  <2>1. SUFFICES ASSUME NEW j \in 0..(MaxTick - a), NEW k \in 0..(MaxTick - a), j <= k, ups[j]
                 PROVE  ups[k]
    BY DEF Rising
  <2>2. a <= a + j /\ a + j <= a + k
    BY <1>1, <2>1
  <2>3. Above(a + j)
    BY <1>3, <2>1
  <2>4. Above(a + k)
    BY <1>1, <1>5, <2>2, <2>3
  <2> QED BY <1>3, <2>4
<1>8. Rising(downs, a)
  <2>1. SUFFICES ASSUME NEW j \in 0..a, NEW k \in 0..a, j <= k, downs[j]
                 PROVE  downs[k]
    BY DEF Rising
  <2>2. a - k <= a - j /\ a - j <= a
    BY <1>1, <2>1
  <2>3. Above(a - j)
    BY <1>3, <2>1
  <2>4. Above(a - k)
    BY <1>1, <1>5, <2>2, <2>3
  <2> QED BY <1>3, <2>4
<1>9. up \in Found(ups, MaxTick - a) /\ down \in Found(downs, a)
  BY <1>1, <1>2, <1>4, <1>7, <1>8, SearchFinds
<1> HIDE DEF up, down
<1>10. up # NoBoundary => up \in 0..(MaxTick - a) /\ \A d \in 0..(MaxTick - a) : up <= d <=> ups[d]
  <2>1. SUFFICES ASSUME up # NoBoundary
                 PROVE  up \in 0..(MaxTick - a) /\ \A d \in 0..(MaxTick - a) : up <= d <=> ups[d]
    OBVIOUS
  <2>2. /\ up \in 0..(MaxTick - a) /\ ups[up]
        /\ \A d \in 0..(MaxTick - a) : d < up => ~ups[d]
    BY <1>9, <2>1 DEF Found, Firsts
  <2>3. \A d \in 0..(MaxTick - a) : up <= d => ups[d]
    BY <1>7, <2>2 DEF Rising
  <2>4. \A d \in 0..(MaxTick - a) : up <= d \/ d < up
    BY <2>2
  <2> QED BY <2>2, <2>3, <2>4
<1>11. down # NoBoundary => down \in 0..a /\ \A d \in 0..a : down <= d <=> downs[d]
  <2>1. SUFFICES ASSUME down # NoBoundary
                 PROVE  down \in 0..a /\ \A d \in 0..a : down <= d <=> downs[d]
    OBVIOUS
  <2>2. /\ down \in 0..a /\ downs[down]
        /\ \A d \in 0..a : d < down => ~downs[d]
    BY <1>9, <2>1 DEF Found, Firsts
  <2>3. \A d \in 0..a : down <= d => downs[d]
    BY <1>8, <2>2 DEF Rising
  <2>4. \A d \in 0..a : down <= d \/ d < down
    BY <2>2
  <2> QED BY <2>2, <2>3, <2>4
<1>12. /\ up = NoBoundary => \A d \in 0..(MaxTick - a) : ~ups[d]
       /\ down = NoBoundary => \A d \in 0..a : ~downs[d]
  <2>1. NoBoundary \notin Nat
    BY DEF NoBoundary
  <2>2. NoBoundary \notin Firsts(ups, MaxTick - a) /\ NoBoundary \notin Firsts(downs, a)
    BY <1>1, <2>1 DEF Firsts
  <2> QED BY <1>9, <2>2 DEF Found
<1> DEFINE b == Boundaries(kind, h, a, Threshold)
<1>13. /\ down # NoBoundary => b.down = a - down /\ b.down # NoBoundary
       /\ down = NoBoundary => b.down = NoBoundary
       /\ up # NoBoundary => b.up = a + up /\ b.up # NoBoundary
       /\ up = NoBoundary => b.up = NoBoundary
  BY <1>1, <1>6, <1>10, <1>11 DEF NoBoundary
<1> HIDE DEF b
<1>14. CASE t >= a
  <2> DEFINE d == t - a
  <2>1. d \in 0..(MaxTick - a) /\ a + d = t
    BY <1>1, <1>14
  <2>2. Above(t) <=> ups[d]
    BY <1>3, <2>1
  <2>3. b.up # NoBoundary /\ t >= b.up <=> ups[d]
    BY <1>1, <1>10, <1>12, <1>13, <2>1
  <2>4. b.down # NoBoundary /\ t <= b.down => FALSE
    <3>1. SUFFICES ASSUME b.down # NoBoundary, t <= b.down PROVE FALSE
      OBVIOUS
    <3>2. down # NoBoundary /\ b.down = a - down /\ down \in 0..a
      BY <1>11, <1>13, <3>1
    <3>3. down = 0
      BY <1>1, <1>14, <3>1, <3>2
    <3>4. downs[0]
      BY <1>1, <1>11, <3>2, <3>3
    <3> QED BY <1>4, <3>4
  <2> QED BY <2>2, <2>3, <2>4 DEF Crossed, b, Above
<1>15. CASE t < a
  <2> DEFINE d == a - t
  <2>1. d \in 0..a /\ a - d = t
    BY <1>1, <1>15
  <2>2. Above(t) <=> downs[d]
    BY <1>3, <2>1
  <2>3. b.down # NoBoundary /\ t <= b.down <=> downs[d]
    BY <1>1, <1>11, <1>12, <1>13, <2>1
  <2>4. b.up # NoBoundary /\ t >= b.up => FALSE
    BY <1>1, <1>10, <1>13, <1>15
  <2> QED BY <2>2, <2>3, <2>4 DEF Crossed, b, Above
<1> QED BY <1>1, <1>14, <1>15

-----------------------------------------------------------------------------
(***************************************************************************)
(* The cached snapshot.                                                    *)
(***************************************************************************)

\* What the monitor caches is a snapshot of a book at ticks of the pool.
Cached == [known : {TRUE}, neutral : Ticks, at : Ticks,
           approachLatched : BOOLEAN, crossingLatched : BOOLEAN]

BookInv ==
  /\ shape \in Shapes /\ tick \in Ticks /\ neutral \in Ticks
  /\ mon = NoBands \/ mon \in Cached

LEMMA BookInit == Init => BookInv
<1>1. MaxTick \div 2 \in Ticks /\ 0 \in Ticks
  BY TriggerAssumption DEF Ticks
<1> QED BY <1>1 DEF Init, BookInv

LEMMA RefreshIsCached ==
  ASSUME NEW kind, NEW h \in Ticks, NEW a \in Ticks
  PROVE  Refresh(kind, h, a) \in Cached
<1> DEFINE x == DriftAt(kind, h, a) > Approach
           y == DriftAt(kind, h, a) > Threshold
<1>1. x \in BOOLEAN /\ y \in BOOLEAN
  OBVIOUS
<1>2. Refresh(kind, h, a) =
        [known |-> TRUE, neutral |-> h, at |-> a, approachLatched |-> x, crossingLatched |-> y]
  BY Zenon DEF Refresh
<1> HIDE DEF x, y
<1> QED BY <1>1, <1>2 DEF Cached

\* Observing moves the latches of the snapshot and nothing else.
LEMMA ObserveIsCached ==
  ASSUME NEW kind, NEW m \in Cached, NEW t
  PROVE  Observe(kind, m, t).mon \in Cached
<1> DEFINE free == Released(kind, m, t)
<1>1. free \in Cached
  BY DEF Released, Cached
<1>2. \/ Observe(kind, m, t).mon = free
      \/ Observe(kind, m, t).mon = [free EXCEPT !.crossingLatched = TRUE, !.approachLatched = TRUE]
      \/ Observe(kind, m, t).mon = [free EXCEPT !.approachLatched = TRUE]
  BY DEF Observe
<1> HIDE DEF free
<1> QED BY <1>1, <1>2 DEF Cached

LEMMA BookStep == FeeInv /\ BookInv /\ [Next]_vars => BookInv'
<1> SUFFICES ASSUME FeeInv, BookInv, [Next]_vars PROVE BookInv'
  OBVIOUS
<1>0. NoBands.known = FALSE /\ send.target \in Ticks
  BY DEF NoBands, FeeInv, Sendings
<1>1. CASE World
  BY <1>1 DEF World, PriceMoves, AccountChanges, SignalToggles, BaseFeeMoves, BookInv
<1>2. CASE MonitorObserves
  <2>1. mon \in Cached
    BY <1>0, <1>2 DEF MonitorObserves, BookInv
  <2>2. mon' = Observe(shape, mon, tick).mon /\ UNCHANGED <<shape, tick, neutral, send>>
    BY <1>2 DEF MonitorObserves, market
  <2> QED BY <2>1, <2>2, ObserveIsCached DEF BookInv
<1>3. CASE MonitorSeesEvent \/ MonitorHolds
  BY <1>3 DEF MonitorSeesEvent, MonitorHolds, BookInv
<1>4. CASE Tick \/ Reconcile \/ CycleSkips \/ CycleFails \/ NotMined
  BY <1>4 DEF Tick, Reconcile, CycleSkips, CycleFails, NotMined, market, BookInv
<1>5. CASE CyclePlans
  <2>1. mon' = Refresh(shape, neutral, tick) /\ UNCHANGED <<shape, tick, neutral>>
    BY <1>5 DEF CyclePlans
  <2>2. mon' \in Cached
    BY <2>1, RefreshIsCached DEF BookInv
  <2> QED BY <2>1, <2>2 DEF BookInv
<1>6. CASE Defers \/ HeldDropped \/ Sends \/ Bump
  BY <1>6 DEF Defers, HeldDropped, Sends, Bump, market, BookInv
<1>7. CASE Lands \/ HeldLands
  BY <1>0, <1>7 DEF Lands, HeldLands, BookInv
<1>8. CASE UNCHANGED vars
  BY <1>8 DEF vars, BookInv
<1> QED BY <1>1, <1>2, <1>3, <1>4, <1>5, <1>6, <1>7, <1>8
        DEF Next, Monitor, Cycle, Transaction

\* The cached boundaries stand for the drift itself, for every range of ticks,
\* slope and threshold: the doubling steps and the bisection of the monitor
\* find the first tick beyond on each side, and every tick past it is beyond
\* too (runtime/hedgeTriggerMonitor.ts:91-158, :228-250).
THEOREM BandsAlwaysAgree == Spec => []BandsAgree
<1>1. BookInv => BandsAgree
  <2>1. SUFFICES ASSUME BookInv, mon.known, DriftAt(shape, mon.neutral, mon.at) <= Threshold,
                        NEW t \in Ticks
                 PROVE  Beyond(shape, mon, t, Threshold) <=> DriftAt(shape, mon.neutral, t) > Threshold
    BY Zenon DEF BandsAgree
  <2>2. mon \in Cached /\ mon.neutral \in Ticks /\ mon.at \in Ticks
    <3>1. mon # NoBands
      BY <2>1 DEF NoBands
    <3>2. mon \in Cached
      BY <2>1, <3>1 DEF BookInv
    <3> QED BY <3>2 DEF Cached
  <2>3. CASE shape = "mixed"
    BY <2>3 DEF Beyond, Mode
  <2>4. CASE shape \in {"gamma", "capped"}
    <3>1. ~ (DriftAt(shape, mon.neutral, mon.at) > Threshold)
      BY <2>1, <2>2, <2>4, DriftTyped, TriggerAssumption
    <3>2. Beyond(shape, mon, t, Threshold) <=>
            Crossed(t, Boundaries(shape, mon.neutral, mon.at, Threshold))
      BY <2>4 DEF Beyond, Mode
    <3> QED BY <2>2, <2>4, <3>1, <3>2, BoundariesSeparate
  <2> QED BY <2>1, <2>3, <2>4 DEF BookInv, Shapes
<1> QED BY <1>1, FeeInit, FeeStep, BookInit, BookStep, PTL DEF Spec

=============================================================================
