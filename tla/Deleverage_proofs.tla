-------------------------- MODULE Deleverage_proofs --------------------------
(***************************************************************************)
(* What Deleverage guarantees for every number of options, every cooldown  *)
(* and every set of buffers: the selection of burns suffices and burns no  *)
(* more than one option where one would do, and the incident covers every  *)
(* burn and every cooldown.                                                *)
(***************************************************************************)
EXTENDS Deleverage, FiniteSetTheorems, WellFoundedInduction, TLAPS

-----------------------------------------------------------------------------
(***************************************************************************)
(* The selection.                                                          *)
(***************************************************************************)

\* A set of naturals that is not empty has a least element.
LEMMA Least ==
  ASSUME NEW S \in SUBSET Nat, S # {}
  PROVE  \E m \in S : \A k \in S : m <= k
<1> DEFINE Lt == {p \in Nat \X Nat : p[1] < p[2]}
<1>1. OpToRel(<, Nat) = Lt
  BY DEF OpToRel
<1>2. IsWellFoundedOn(Lt, Nat)
  BY <1>1, NatLessThanWellFounded
<1>3. \A k, m \in Nat : k < m => <<k, m>> \in Lt
  OBVIOUS
<1> HIDE DEF Lt
<1>4. PICK m \in S : \A k \in S : ~ (<<k, m>> \in Lt)
  BY <1>2, WFMin
<1>5. ASSUME NEW k \in S
      PROVE  m <= k
  <2>1. k \in Nat /\ m \in Nat
    OBVIOUS
  <2>2. ~ (k < m)
    BY <1>3, <1>4, <2>1, Zenon
  <2> QED BY <2>1, <2>2
<1> QED BY <1>5

\* What is selected are candidates.
LEMMA SelectedAreCandidates ==
  ASSUME NEW candidates, NEW sim, NEW target
  PROVE  SelectOptionBurns(candidates, sim, target) \subseteq candidates
BY DEF SelectOptionBurns, UpTo

\* A simulation of one candidate gives a number.
LEMMA BufferIsInt ==
  ASSUME NEW C, NEW sim \in Simulations(C), NEW a \in C
  PROVE  sim[{a}] \in Int
<1>1. {a} \in (SUBSET C) \ {{}}
  OBVIOUS
<1>2. sim[{a}] \in Buffers \cup {Fails}
  BY <1>1, Zenon DEF Simulations
<1>3. Buffers \cup {Fails} \subseteq Int
  BY DeleverageAssumption DEF Fails
<1> QED BY <1>2, <1>3, Zenon

\* The order of the candidates is strict and total.
LEMMA BeforeIsAnOrder ==
  ASSUME NEW C \in SUBSET Int, NEW sim \in Simulations(C)
  PROVE  /\ \A a \in C : ~ Before(sim, a, a)
         /\ \A a, b \in C : a # b => Before(sim, a, b) \/ Before(sim, b, a)
         /\ \A a, b \in C : ~ (Before(sim, a, b) /\ Before(sim, b, a))
         /\ \A a, b, c \in C :
              Before(sim, a, b) /\ Before(sim, b, c) => Before(sim, a, c)
<1> DEFINE buffer == [a \in C |-> sim[{a}]]
<1>1. buffer \in [C -> Int]
  BY BufferIsInt
<1>2. \A a, b \in C :
        Before(sim, a, b) <=> buffer[a] > buffer[b] \/ (buffer[a] = buffer[b] /\ a < b)
  BY Zenon DEF Before
<1> HIDE DEF buffer
<1> QED BY <1>1, <1>2

\* Every set of candidates that is not empty has a first one.
LEMMA FirstOf ==
  ASSUME NEW C \in SUBSET Int, IsFiniteSet(C), NEW sim \in Simulations(C),
         NEW S \in SUBSET C, S # {}
  PROVE  \E o \in S : \A p \in S \ {o} : Before(sim, o, p)
<1> DEFINE Place(o) == UpTo(C, sim, o)
<1> DEFINE Places == {Cardinality(Place(o)) : o \in S}
<1>1. \A o \in C : IsFiniteSet(Place(o)) /\ Cardinality(Place(o)) \in Nat
  <2>1. \A o \in C : Place(o) \in SUBSET C
    BY DEF UpTo
  <2> QED BY <2>1, FS_Subset, FS_CardinalityType
<1>2. PICK o \in S : \A p \in S : Cardinality(Place(o)) <= Cardinality(Place(p))
  <2>1. Places \in SUBSET Nat /\ Places # {}
    BY <1>1
  <2>2. PICK m \in Places : \A k \in Places : m <= k
    BY <2>1, Least
  <2> QED BY <2>2
<1>3. ASSUME NEW p \in S \ {o}
      PROVE  Before(sim, o, p)
  <2>1. SUFFICES ASSUME Before(sim, p, o) PROVE FALSE
    BY BeforeIsAnOrder
  <2>2. Place(p) \in SUBSET Place(o)
    BY <2>1, BeforeIsAnOrder DEF UpTo
  <2>3. o \in Place(o) /\ o \notin Place(p)
    BY <2>1, BeforeIsAnOrder DEF UpTo
  <2>4. Cardinality(Place(p)) < Cardinality(Place(o))
    <3>1. Cardinality(Place(p)) <= Cardinality(Place(o))
      BY <1>1, <2>2, FS_Subset
    <3>2. Cardinality(Place(p)) # Cardinality(Place(o))
      BY <1>1, <2>2, <2>3, FS_Subset
    <3> QED BY <1>1, <3>1, <3>2
  <2> QED BY <1>1, <1>2, <2>4
<1> QED BY <1>3

\* A selection that is not every candidate reaches the target, and where one
\* option alone would reach it, one option is burned (deleverage.ts:176-219).
THEOREM SelectionIsFrugal ==
  ASSUME NEW C \in SUBSET Int, IsFiniteSet(C), NEW sim \in Simulations(C),
         NEW target \in Nat
  PROVE  LET burned == SelectOptionBurns(C, sim, target)
         IN  /\ burned = C \/ sim[burned] >= target
             /\ (\E o \in C : sim[{o}] >= target) => Cardinality(burned) = 1
<1> DEFINE burned == SelectOptionBurns(C, sim, target)
           reaching == {o \in C : sim[UpTo(C, sim, o)] >= target}
           first == CHOOSE o \in reaching : \A p \in reaching \ {o} : Before(sim, o, p)
<1>1. ASSUME reaching # {}
      PROVE  /\ first \in reaching
             /\ \A p \in reaching \ {first} : Before(sim, first, p)
             /\ burned = UpTo(C, sim, first)
  <2>1. \E o \in reaching : \A p \in reaching \ {o} : Before(sim, o, p)
    BY <1>1, FirstOf
  <2> QED BY <1>1, <2>1, Zenon DEF SelectOptionBurns
<1>2. reaching = {} => burned = C
  BY DEF SelectOptionBurns
<1> HIDE DEF burned, first
<1>3. burned = C \/ sim[burned] >= target
  BY <1>1, <1>2
<1>4. ASSUME NEW o \in C, sim[{o}] >= target
      PROVE  Cardinality(burned) = 1
  <2>1. PICK best \in C : \A p \in C \ {best} : Before(sim, best, p)
    BY FirstOf
  <2>2. UpTo(C, sim, best) = {best}
    BY <2>1, BeforeIsAnOrder DEF UpTo
  <2>3. sim[{best}] >= target
    <3>1. sim[{best}] \in Int /\ sim[{o}] \in Int
      BY BufferIsInt
    <3>2. sim[{best}] > sim[{o}] \/ sim[{best}] = sim[{o}]
      BY <2>1, Zenon DEF Before
    <3> QED BY <1>4, <3>1, <3>2
  <2>4. best \in reaching
    BY <2>2, <2>3
  <2>5. first = best
    BY <1>1, <2>1, <2>4, BeforeIsAnOrder
  <2> QED BY <1>1, <2>2, <2>4, <2>5, FS_Singleton
<1> QED BY <1>3, <1>4 DEF burned

-----------------------------------------------------------------------------
(***************************************************************************)
(* The incident.                                                           *)
(***************************************************************************)

\* Counting options stays within bounds.
LEMMA CountOfOptions ==
  ASSUME NEW S \in SUBSET Options
  PROVE  Cardinality(S) \in 0..NoCount
<1>1. IsFiniteSet(Options) /\ Cardinality(Options) = N
  BY DeleverageAssumption, FS_Interval DEF Options
<1>2. Cardinality(S) \in Nat /\ Cardinality(S) <= N
  BY <1>1, FS_Subset, FS_CardinalityType
<1> QED BY <1>2, DeleverageAssumption DEF NoCount

\* The values that variables start from, and that their cycle leaves them.
LEMMA Resting ==
  /\ NoRead \in [options : SUBSET Options, loans : BOOLEAN]
  /\ NoCount \in 0..NoCount
  /\ 0 \in 0..Cooldown
  /\ NotCooling \in [Stages -> 0..Cooldown]
  /\ NoBurn \in Burns
<1>1. NoCount \in 0..NoCount /\ 0 \in 0..Cooldown
  BY DeleverageAssumption DEF NoCount
<1>2. NotCooling \in [Stages -> 0..Cooldown]
  BY <1>1 DEF NotCooling
<1>3. NoRead \in [options : SUBSET Options, loans : BOOLEAN]
  BY DEF NoRead
<1> QED BY <1>1, <1>2, <1>3 DEF Burns

\* What the cycle leaves when it ends, and what an observation leaves.
LEMMA EndAndObservation ==
  ASSUME TypeOK
  PROVE  /\ CycleEnds =>
              /\ pc' = "idle" /\ read' \in [options : SUBSET Options, loans : BOOLEAN]
              /\ chosen' \in SUBSET Options /\ count' \in 0..NoCount
              /\ mayBurnLoans' \in BOOLEAN /\ since' \in 0..Cooldown
         /\ Observe => incident' \in BOOLEAN /\ cooling' \in [Stages -> 0..Cooldown]
<1>1. CycleEnds => /\ pc' = "idle" /\ read' \in [options : SUBSET Options, loans : BOOLEAN]
                   /\ chosen' \in SUBSET Options /\ count' \in 0..NoCount
                   /\ mayBurnLoans' \in BOOLEAN /\ since' \in 0..Cooldown
  BY Resting DEF CycleEnds
<1>2. Observe => incident' \in BOOLEAN /\ cooling' \in [Stages -> 0..Cooldown]
  BY Resting DEF Observe, Observed, TypeOK
<1> QED BY <1>1, <1>2

\* Every step keeps the types.
LEMMA TypeKept ==
  ASSUME TypeOK, [Next]_vars
  PROVE  TypeOK'
<1> USE DeleverageAssumption DEF TypeOK, account, cycle, memory
<1>1. CASE BeginDeleverage
  BY <1>1, EndAndObservation DEF BeginDeleverage, TakeSnapshot, CanRunStage
<1>2. CASE HedgeAsUsual
  BY <1>2 DEF HedgeAsUsual
<1>3. CASE SelectOptions
  <2>1. count' \in 0..NoCount
    BY <1>3, CountOfOptions DEF SelectOptions
  <2>2. chosen' \subseteq Options
    BY <1>3, SelectedAreCandidates DEF SelectOptions
  <2> QED BY <1>3, <2>1, <2>2 DEF SelectOptions
<1>4. CASE NoMoreOptions \/ BurnLoans \/ NoRehedge \/ Rehedged
  BY <1>4 DEF NoMoreOptions, BurnLoans, NoRehedge, Rehedged
<1>5. CASE OptionsBurned \/ LoansBurned
  <2>1. Cooldown - since \in 0..Cooldown
    OBVIOUS
  <2>2. cooling' \in [Stages -> 0..Cooldown]
    BY <1>5, <2>1 DEF OptionsBurned, LoansBurned, MarkStageRun
  <2>3. CASE OptionsBurned
    BY <2>2, <2>3 DEF OptionsBurned
  <2>4. CASE LoansBurned
    BY <2>2, <2>4 DEF LoansBurned
  <2> QED BY <1>5, <2>3, <2>4
<1>6. CASE StillTriggered
  BY <1>6, EndAndObservation DEF StillTriggered, TakeSnapshot
<1>7. CASE Recovered \/ ReassessLoans
  BY <1>7, EndAndObservation DEF Recovered, ReassessLoans
<1>8. CASE Exhausted \/ CycleFails
  BY <1>8, EndAndObservation DEF Exhausted, CycleFails
<1>9. BurnUnderWay \in Burns
  BY DEF BurnUnderWay, Burns, NoBurn
<1>10. CASE BurnNotMined
  BY <1>9, <1>10, EndAndObservation DEF BurnNotMined
<1>11. CASE Restart
  <2>1. pending' \in Burns
    BY <1>9, <1>11 DEF Restart
  <2>2. cooling' \in [Stages -> 0..Cooldown] /\ incident' \in BOOLEAN
    BY <1>11, Resting DEF Restart
  <2> QED BY <1>11, <2>1, <2>2, EndAndObservation DEF Restart
<1>12. CASE PendingLands
  <2>1. options' \subseteq Options /\ loans' \in BOOLEAN
    BY <1>12 DEF PendingLands
  <2> QED BY <1>12, <2>1 DEF PendingLands, Burns
<1>13. CASE PendingDropped
  BY <1>13 DEF PendingDropped, Burns
<1>14. CASE UserTrades \/ Market
  BY <1>14 DEF UserTrades, Market
<1>15. CASE Tick
  BY <1>15 DEF Tick
<1>16. CASE UNCHANGED vars
  BY <1>16 DEF vars
<1> QED
  BY <1>1, <1>2, <1>3, <1>4, <1>5, <1>6, <1>7, <1>8, <1>10, <1>11, <1>12, <1>13, <1>14,
     <1>15, <1>16 DEF Next

\* Every step keeps the incident over its burns and its cooldowns.
LEMMA IncidentKept ==
  ASSUME TypeOK, IncidentCovers, [Next]_vars
  PROVE  IncidentCovers'
<1> USE DEF IncidentCovers, account, cycle, memory
<1>1. CASE BeginDeleverage
  BY <1>1 DEF BeginDeleverage, Observe, Observed
<1>2. CASE HedgeAsUsual \/ UserTrades \/ Market \/ PendingLands \/ PendingDropped
  BY <1>2 DEF HedgeAsUsual, UserTrades, Market, PendingLands, PendingDropped
<1>3. CASE SelectOptions \/ NoMoreOptions \/ BurnLoans \/ NoRehedge \/ Rehedged
  BY <1>3 DEF SelectOptions, NoMoreOptions, BurnLoans, NoRehedge, Rehedged
<1>4. CASE OptionsBurned \/ LoansBurned
  BY <1>4 DEF OptionsBurned, LoansBurned
<1>5. CASE StillTriggered
  BY <1>5 DEF StillTriggered, Observe
<1>6. CASE Recovered \/ ReassessLoans
  BY <1>6 DEF Recovered, ReassessLoans, Observe, Observed, CycleEnds, TypeOK
<1>7. CASE Exhausted \/ CycleFails \/ BurnNotMined
  BY <1>7 DEF Exhausted, CycleFails, BurnNotMined, CycleEnds
<1>8. CASE Restart
  BY <1>8 DEF Restart, CycleEnds
<1>9. CASE Tick
  BY <1>9 DEF Tick, NotCooling, TypeOK
<1>10. CASE UNCHANGED vars
  BY <1>10 DEF vars
<1> QED
  BY <1>1, <1>2, <1>3, <1>4, <1>5, <1>6, <1>7, <1>8, <1>9, <1>10 DEF Next

LEMMA InitOK == Init => TypeOK /\ IncidentCovers
<1>1. Init => TypeOK
  BY Resting DEF Init, TypeOK
<1>2. Init => IncidentCovers
  BY DEF Init, IncidentCovers
<1> QED BY <1>1, <1>2

\* Every reachable state of the deleverager has its types, for any number of
\* options and any cooldown.
THEOREM TypeCorrect == Spec => []TypeOK
<1>1. Init => TypeOK
  BY InitOK
<1>2. TypeOK /\ [Next]_vars => TypeOK'
  BY TypeKept
<1> QED BY <1>1, <1>2, PTL DEF Spec

\* In every reachable state the selection from the snapshot suffices and is
\* frugal, whatever the simulations say, for any number of options
\* (deleverage.ts:176-219).
THEOREM SelectionAlwaysSuffices == Spec => []SelectionSuffices
<1>1. ASSUME TypeOK
      PROVE  SelectionSuffices
  <2>1. read.options \in SUBSET Options
    BY <1>1 DEF TypeOK
  <2>2. Options \in SUBSET Int /\ IsFiniteSet(Options)
    BY DeleverageAssumption, FS_Interval DEF Options
  <2>3. read.options \in SUBSET Int /\ IsFiniteSet(read.options)
    BY <2>1, <2>2, FS_Subset
  <2>4. Buffers \subseteq Nat
    BY DeleverageAssumption
  <2> QED BY <2>3, <2>4, SelectionIsFrugal DEF SelectionSuffices
<1> QED BY <1>1, TypeCorrect, PTL

\* Nothing is burned outside an incident and no cooldown outlives one: recovery
\* closes the incident and clears its cooldowns together (deleverage.ts:115-127).
THEOREM IncidentAlwaysCovers == Spec => []IncidentCovers
<1>1. Init => TypeOK /\ IncidentCovers
  BY InitOK
<1>2. TypeOK /\ IncidentCovers /\ [Next]_vars => TypeOK' /\ IncidentCovers'
  BY TypeKept, IncidentKept
<1> QED BY <1>1, <1>2, PTL DEF Spec

=============================================================================
