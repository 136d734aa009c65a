--------------------------- MODULE CexFeeds_proofs ---------------------------
(***************************************************************************)
(* What CexFeeds guarantees for every set of exchanges, every price and    *)
(* every limit: a signal rests on enough quotes that are fresh, and        *)
(* exchanges that lie, at most half of MinFeeds, cannot move it further    *)
(* from the honest quotes than the dispersion limit.                       *)
(***************************************************************************)
EXTENDS CexFeeds, FiniteSetTheorems, WellFoundedInduction, TLAPS

-----------------------------------------------------------------------------
(***************************************************************************)
(* Least and greatest elements.                                            *)
(***************************************************************************)

\* A set of naturals that is not empty has a least element.
LEMMA LeastExists ==
  ASSUME NEW S \in SUBSET Nat, S # {}
  PROVE  \E m \in S : \A k \in S : m <= k
<1> DEFINE Lt == {p \in Nat \X Nat : p[1] < p[2]}
<1>1. IsWellFoundedOn(Lt, Nat)
  BY NatLessThanWellFounded DEF OpToRel
<1>2. \A k, m \in Nat : k < m => <<k, m>> \in Lt
  OBVIOUS
<1> HIDE DEF Lt
<1>3. PICK m \in S : \A k \in S : ~ (<<k, m>> \in Lt)
  BY <1>1, WFMin
<1>4. ASSUME NEW k \in S
      PROVE  m <= k
  <2>1. k \in Nat /\ m \in Nat
    OBVIOUS
  <2>2. ~ (k < m)
    BY <1>2, <1>3, <2>1, Zenon
  <2> QED BY <2>1, <2>2
<1> QED BY <1>4

\* A finite one has a greatest element too: the smallest set without one would
\* have it beside an element that is taken out.
LEMMA GreatestExists ==
  ASSUME NEW S \in SUBSET Nat, S # {}, IsFiniteSet(S)
  PROVE  \E m \in S : \A k \in S : k <= m
<1> DEFINE Bad == {T \in SUBSET S : T # {} /\ ~ \E m \in T : \A k \in T : k <= m}
           Sizes == {Cardinality(T) : T \in Bad}
<1>1. SUFFICES ASSUME Bad # {} PROVE FALSE
  OBVIOUS
<1>2. \A T \in SUBSET S : IsFiniteSet(T) /\ Cardinality(T) \in Nat
  BY FS_Subset, FS_CardinalityType
<1>3. Sizes \in SUBSET Nat /\ Sizes # {}
  BY <1>1, <1>2
<1>4. PICK T \in Bad : \A U \in Bad : Cardinality(T) <= Cardinality(U)
  <2>1. PICK size \in Sizes : \A k \in Sizes : size <= k
    BY <1>3, LeastExists
  <2> QED BY <2>1
<1>5. PICK x \in T : TRUE
  OBVIOUS
<1>6. Cardinality(T \ {x}) = Cardinality(T) - 1
  BY <1>2, <1>5, FS_RemoveElement
<1>7. T \ {x} \notin Bad
  <2>1. Cardinality(T) \in Nat
    BY <1>2
  <2>2. T \ {x} \in Bad => Cardinality(T) <= Cardinality(T \ {x})
    BY <1>4
  <2> QED BY <1>6, <2>1, <2>2
<1>8. CASE T \ {x} = {}
  BY <1>5, <1>8
<1>9. CASE T \ {x} # {}
  <2>1. PICK m \in T \ {x} : \A k \in T \ {x} : k <= m
    BY <1>7, <1>9
  <2>2. \A k \in T : k <= (IF m >= x THEN m ELSE x)
    BY <2>1, <1>5
  <2> QED BY <2>1, <2>2, <1>5
<1> QED BY <1>8, <1>9

-----------------------------------------------------------------------------
(***************************************************************************)
(* The order of the readings.                                              *)
(***************************************************************************)

\* Readings: positive prices of finitely many feeds.
Readings == UNION {[D -> Nat \ {0}] : D \in SUBSET Feeds}

LEMMA ReadingsTyped ==
  ASSUME NEW q \in Readings
  PROVE  /\ DOMAIN q \subseteq Feeds /\ IsFiniteSet(DOMAIN q)
         /\ Cardinality(DOMAIN q) \in Nat
         /\ \A f \in DOMAIN q : q[f] \in Nat \ {0}
         /\ \A P \in SUBSET DOMAIN q :
              IsFiniteSet(P) /\ Cardinality(P) \in Nat /\ Cardinality(P) <= Cardinality(DOMAIN q)
<1>1. PICK D \in SUBSET Feeds : q \in [D -> Nat \ {0}]
  BY DEF Readings
<1>2. DOMAIN q = D /\ IsFiniteSet(D)
  BY <1>1, FeedsAssumption, FS_Subset
<1> QED BY <1>1, <1>2, FS_Subset, FS_CardinalityType

\* There is an i-th reading for every i up to their number: the least price
\* that i readings do not exceed.
LEMMA NthExists ==
  ASSUME NEW q \in Readings, NEW i \in 1..Cardinality(DOMAIN q)
  PROVE  /\ \E f \in DOMAIN q : q[f] = Nth(q, i)
         /\ Cardinality({f \in DOMAIN q : q[f] < Nth(q, i)}) < i
         /\ i <= Cardinality({f \in DOMAIN q : q[f] <= Nth(q, i)})
<1> DEFINE D == DOMAIN q
           Below(v) == {f \in D : q[f] < v}
           UpTo(v) == {f \in D : q[f] <= v}
           Enough == {v \in Range(q) : i <= Cardinality(UpTo(v))}
<1>1. /\ IsFiniteSet(D) /\ Cardinality(D) \in Nat
      /\ \A f \in D : q[f] \in Nat
      /\ \A P \in SUBSET D :
           IsFiniteSet(P) /\ Cardinality(P) \in Nat /\ Cardinality(P) <= Cardinality(D)
  BY ReadingsTyped
<1>2. Range(q) \in SUBSET Nat
  BY <1>1 DEF Range
<1>3. \A P \in SUBSET D : P # {} => \E v \in Range(q) : (\E f \in P : v = q[f]) /\ P \subseteq UpTo(v)
  <2>1. SUFFICES ASSUME NEW P \in SUBSET D, P # {}
                 PROVE  \E v \in Range(q) : (\E f \in P : v = q[f]) /\ P \subseteq UpTo(v)
    OBVIOUS
  <2> DEFINE Values == {q[f] : f \in P}
  <2>2. Values \in SUBSET Nat /\ Values # {} /\ IsFiniteSet(Values)
    <3>1. IsFiniteSet(P)
      BY <1>1
    <3>2. [f \in P |-> q[f]] \in Surjection(P, Values)
      BY DEF Surjection
    <3>3. IsFiniteSet(Values)
      BY <3>1, <3>2, FS_Surjection
    <3> QED BY <1>1, <2>1, <3>3
  <2>3. PICK v \in Values : \A k \in Values : k <= v
    BY <2>2, GreatestExists
  <2> QED BY <2>3 DEF Range
<1>4. Enough # {}
  <2>1. D # {}
    BY FS_EmptySet, <1>1
  <2>2. PICK v \in Range(q) : D \subseteq UpTo(v)
    BY <1>3, <2>1
  <2>3. UpTo(v) = D
    BY <2>2
  <2> QED BY <2>2, <2>3, <1>1
<1>5. PICK v \in Enough : \A w \in Enough : v <= w
  <2>1. Enough \in SUBSET Nat
    BY <1>2
  <2> QED BY <1>4, <2>1, LeastExists
<1>6. Cardinality(Below(v)) < i
  <2>1. SUFFICES ASSUME i <= Cardinality(Below(v)) PROVE FALSE
    BY <1>1
  <2>2. Below(v) # {}
    BY <2>1, FS_EmptySet
  <2>3. PICK w \in Range(q) : (\E f \in Below(v) : w = q[f]) /\ Below(v) \subseteq UpTo(w)
    BY <1>3, <2>2
  <2>4. Cardinality(Below(v)) <= Cardinality(UpTo(w))
    BY <1>1, <2>3, FS_Subset
  <2>5. w \in Enough
    BY <1>1, <2>1, <2>3, <2>4
  <2>6. w < v /\ v \in Nat /\ w \in Nat
    BY <1>2, <2>3
  <2> QED BY <1>5, <2>5, <2>6
<1>7. \E u \in Range(q) : Cardinality(Below(u)) < i /\ i <= Cardinality(UpTo(u))
  BY <1>5, <1>6
<1>8. /\ Nth(q, i) \in Range(q)
      /\ Cardinality(Below(Nth(q, i))) < i /\ i <= Cardinality(UpTo(Nth(q, i)))
  BY <1>7 DEF Nth
<1> QED BY <1>8 DEF Range

-----------------------------------------------------------------------------
(***************************************************************************)
(* The median.                                                             *)
(***************************************************************************)

\* The two readings in the middle have more than any minority on either side.
Central(n, i) == \A few \in Nat : 2 * few < n => few < i /\ i <= n - few

LEMMA MedianIsCentral ==
  ASSUME NEW q \in Readings, DOMAIN q # {}
  PROVE  \E i, j \in 1..Cardinality(DOMAIN q) :
           /\ Central(Cardinality(DOMAIN q), i) /\ Central(Cardinality(DOMAIN q), j)
           /\ TwiceMedian(q) = Nth(q, i) + Nth(q, j)
<1> DEFINE n == Cardinality(DOMAIN q)
<1>1. n \in Nat /\ n # 0
  BY ReadingsTyped, FS_EmptySet
<1>2. TwiceMedian(q) = IF n % 2 = 1 THEN 2 * Nth(q, (n + 1) \div 2)
                       ELSE Nth(q, n \div 2) + Nth(q, n \div 2 + 1)
  BY DEF TwiceMedian
<1>3. \A i \in 1..n : Nth(q, i) \in Nat
  BY NthExists, ReadingsTyped
<1> HIDE DEF n
<1>4. CASE n % 2 = 1
  <2> DEFINE i == (n + 1) \div 2
  <2>1. i \in 1..n /\ 2 * i = n + 1
    BY <1>1, <1>4
  <2>2. Central(n, i)
    BY <1>1, <2>1 DEF Central
  <2>3. TwiceMedian(q) = Nth(q, i) + Nth(q, i)
    BY <1>2, <1>3, <1>4, <2>1
  <2> QED BY <2>1, <2>2, <2>3 DEF n
<1>5. CASE n % 2 # 1
  <2> DEFINE i == n \div 2
  <2>1. i \in 1..n /\ i + 1 \in 1..n /\ 2 * i = n
    BY <1>1, <1>5
  <2>2. Central(n, i) /\ Central(n, i + 1)
    BY <1>1, <2>1 DEF Central
  <2> QED BY <1>2, <1>5, <2>1, <2>2 DEF n
<1> QED BY <1>4, <1>5

\* The median lies between any bounds of the readings.
LEMMA MedianBounded ==
  ASSUME NEW q \in Readings, DOMAIN q # {}
  PROVE  /\ TwiceMedian(q) \in Nat \ {0}
         /\ \E f, g \in DOMAIN q : TwiceMedian(q) = q[f] + q[g]
<1>1. PICK i, j \in 1..Cardinality(DOMAIN q) : TwiceMedian(q) = Nth(q, i) + Nth(q, j)
  BY MedianIsCentral
<1>2. PICK f \in DOMAIN q : q[f] = Nth(q, i)
  BY NthExists
<1>3. PICK g \in DOMAIN q : q[g] = Nth(q, j)
  BY NthExists
<1>4. q[f] \in Nat \ {0} /\ q[g] \in Nat \ {0}
  BY ReadingsTyped
<1> QED BY <1>1, <1>2, <1>3, <1>4

\* A central reading lies between the bounds of a majority.
LEMMA CentralIsHonest ==
  ASSUME NEW q \in Readings, NEW honest \in SUBSET DOMAIN q, NEW lo \in Nat, NEW hi \in Nat,
         \A f \in honest : lo <= q[f] /\ q[f] <= hi,
         2 * Cardinality(DOMAIN q \ honest) < Cardinality(DOMAIN q),
         NEW i \in 1..Cardinality(DOMAIN q), Central(Cardinality(DOMAIN q), i)
  PROVE  lo <= Nth(q, i) /\ Nth(q, i) <= hi
<1> DEFINE D == DOMAIN q
           n == Cardinality(D)
           few == Cardinality(D \ honest)
           v == Nth(q, i)
           Below == {f \in D : q[f] < v}
           UpTo == {f \in D : q[f] <= v}
<1>1. /\ IsFiniteSet(D) /\ n \in Nat
      /\ \A f \in D : q[f] \in Nat
      /\ \A P \in SUBSET D : IsFiniteSet(P) /\ Cardinality(P) \in Nat
  BY ReadingsTyped
<1>2. Cardinality(Below) < i /\ i <= Cardinality(UpTo) /\ v \in Nat
  BY <1>1, NthExists
<1>3. few \in Nat /\ few < i /\ i <= n - few
  BY <1>1 DEF Central
<1>4. Cardinality(honest) = n - few
  <2>1. Cardinality(D \ honest) = n - Cardinality(D \cap honest) /\ D \cap honest = honest
    BY <1>1, FS_Difference
  <2> QED BY <1>1, <2>1
<1>5. lo <= v
  <2>1. SUFFICES ASSUME v < lo PROVE FALSE
    BY <1>2
  <2>2. UpTo \subseteq D \ honest
    BY <1>1, <1>2, <2>1
  <2>3. Cardinality(UpTo) <= few
    BY <1>1, <2>2, FS_Subset
  <2>4. Cardinality(UpTo) \in Nat
    BY <1>1
  <2> QED BY <1>2, <1>3, <2>3, <2>4
<1>6. v <= hi
  <2>1. SUFFICES ASSUME hi < v PROVE FALSE
    BY <1>2
  <2>2. honest \subseteq Below
    BY <1>1, <1>2, <2>1
  <2>3. Cardinality(honest) <= Cardinality(Below)
    BY <1>1, <2>2, FS_Subset
  <2>4. Cardinality(Below) \in Nat /\ Cardinality(honest) \in Nat
    BY <1>1
  <2> QED BY <1>2, <1>3, <1>4, <2>3, <2>4
<1> QED BY <1>5, <1>6

\* The median of readings most of which are honest is an honest price.
LEMMA MedianIsHonest ==
  ASSUME NEW q \in Readings, NEW honest \in SUBSET DOMAIN q, NEW lo \in Nat, NEW hi \in Nat,
         \A f \in honest : lo <= q[f] /\ q[f] <= hi,
         2 * Cardinality(DOMAIN q \ honest) < Cardinality(DOMAIN q)
  PROVE  2 * lo <= TwiceMedian(q) /\ TwiceMedian(q) <= 2 * hi
<1>1. DOMAIN q # {}
  <2>1. Cardinality(DOMAIN q) \in Nat /\ Cardinality(DOMAIN q \ honest) \in Nat
    BY ReadingsTyped
  <2> QED BY <2>1, FS_EmptySet
<1>2. PICK i, j \in 1..Cardinality(DOMAIN q) :
        /\ Central(Cardinality(DOMAIN q), i) /\ Central(Cardinality(DOMAIN q), j)
        /\ TwiceMedian(q) = Nth(q, i) + Nth(q, j)
  BY <1>1, MedianIsCentral
<1>3. lo <= Nth(q, i) /\ Nth(q, i) <= hi
  BY <1>2, CentralIsHonest
<1>4. lo <= Nth(q, j) /\ Nth(q, j) <= hi
  BY <1>2, CentralIsHonest
<1>5. Nth(q, i) \in Nat /\ Nth(q, j) \in Nat
  BY NthExists, ReadingsTyped
<1> QED BY <1>2, <1>3, <1>4, <1>5

-----------------------------------------------------------------------------
(***************************************************************************)
(* Outliers.                                                               *)
(***************************************************************************)

\* A price, doubled, that the limit lets stand beside a center, doubled.
Near(s, center) ==
  /\ (s - center) * 10000 <= center * MaxDispersion
  /\ (center - s) * 10000 <= center * MaxDispersion

\* What is not rejected is near the median of what is live.
LEMMA KeptAreNear ==
  ASSUME NEW q \in Readings, DOMAIN q # {}
  PROVE  /\ RejectOutliers(q) \in Readings
         /\ DOMAIN RejectOutliers(q) \subseteq DOMAIN q
         /\ \A f \in DOMAIN RejectOutliers(q) :
              RejectOutliers(q)[f] = q[f] /\ Near(2 * q[f], TwiceMedian(q))
<1> DEFINE center == TwiceMedian(q)
           distance(f) == IF 2 * q[f] > center THEN 2 * q[f] - center ELSE center - 2 * q[f]
           kept == {f \in DOMAIN q : distance(f) * 10000 <= center * MaxDispersion}
<1>1. RejectOutliers(q) = [f \in kept |-> q[f]]
  BY DEF RejectOutliers, Restrict
<1>2. center \in Nat /\ \A f \in DOMAIN q : q[f] \in Nat \ {0}
  BY MedianBounded, ReadingsTyped
<1>3. kept \in SUBSET Feeds /\ kept \subseteq DOMAIN q
  BY ReadingsTyped
<1>4. ASSUME NEW f \in kept PROVE Near(2 * q[f], center)
  <2>1. distance(f) * 10000 <= center * MaxDispersion
    OBVIOUS
  <2>2. q[f] \in Nat /\ center * MaxDispersion \in Nat
    BY <1>2, <1>3, FeedsAssumption
  <2> HIDE DEF center
  <2>3. (2 * q[f] - center) * 10000 <= distance(f) * 10000
    BY <1>2, <2>2
  <2>4. (center - 2 * q[f]) * 10000 <= distance(f) * 10000
    BY <1>2, <2>2
  <2>5. distance(f) \in Int
    BY <1>2, <2>2
  <2> HIDE DEF distance
  <2> QED BY <1>2, <2>1, <2>2, <2>3, <2>4, <2>5 DEF Near
<1>5. [f \in kept |-> q[f]] \in Readings
  <2>1. [f \in kept |-> q[f]] \in [kept -> Nat \ {0}]
    BY <1>2, <1>3
  <2>2. kept \in SUBSET Feeds
    BY <1>3
  <2> HIDE DEF kept
  <2> QED BY <2>1, <2>2 DEF Readings
<1> HIDE DEF kept
<1> QED BY <1>1, <1>3, <1>4, <1>5

\* A price, doubled, that is within the limit of a market from lo to hi.
Within(s, lo, hi) ==
  /\ s * 10000 >= 2 * lo * (10000 - MaxDispersion)
  /\ s * (10000 - MaxDispersion) <= 2 * hi * 10000

\* What is near an honest median is within the limit.
LEMMA NearHonestMedian ==
  ASSUME NEW s \in Nat, NEW c \in Nat, NEW lo \in Nat, NEW hi \in Nat,
         Near(s, c), 2 * lo <= c, c <= 2 * hi
  PROVE  Within(s, lo, hi)
<1> DEFINE d == MaxDispersion
<1>1. d \in Nat
  BY FeedsAssumption
<1>2. s * 10000 <= c * (10000 + d) /\ c * (10000 - d) <= s * 10000
  BY <1>1 DEF Near
<1> HIDE DEF d
<1>3. CASE d <= 10000
  <2>1. 2 * lo * (10000 - d) <= c * (10000 - d)
    BY <1>1, <1>3
  <2>2. s * (10000 - d) <= 2 * hi * 10000
    <3>1. (s * 10000) * (10000 - d) <= (c * (10000 + d)) * (10000 - d)
      <4> DEFINE e == 10000 - d
                 x == s * 10000
                 y == c * (10000 + d)
      <4>1. e \in Nat /\ x \in Nat /\ y \in Nat /\ x <= y
        BY <1>1, <1>2, <1>3
      <4> HIDE DEF e, x, y
      <4>2. x * e <= y * e
        BY <4>1
      <4> QED BY <4>2 DEF e, x, y
    <3>2. (c * (10000 + d)) * (10000 - d) = c * 100000000 - c * (d * d)
      BY <1>1
    <3>3. c * (d * d) >= 0
      BY <1>1
    <3>4. (s * 10000) * (10000 - d) = 10000 * (s * (10000 - d))
      BY <1>1
    <3>5. s * (10000 - d) \in Int /\ c * (d * d) \in Int
      BY <1>1
    <3>6. 10000 * (s * (10000 - d)) <= c * 100000000
      BY <3>1, <3>2, <3>3, <3>4, <3>5
    <3> QED BY <3>5, <3>6
  <2>3. 2 * lo * (10000 - d) \in Int /\ c * (10000 - d) \in Int
    BY <1>1
  <2> QED BY <1>2, <2>1, <2>2, <2>3 DEF Within, d
<1>4. CASE d > 10000
  <2>1. 2 * lo * (10000 - d) <= 0 /\ s * (10000 - d) <= 0
    BY <1>1, <1>4
  <2>2. 2 * lo * (10000 - d) \in Int /\ s * (10000 - d) \in Int
    BY <1>1
  <2> QED BY <2>1, <2>2 DEF Within, d
<1> QED BY <1>1, <1>3, <1>4

\* A median that an honest quote is near to is within the limit.
LEMMA MedianNearHonest ==
  ASSUME NEW c \in Nat, NEW h \in Nat, NEW lo \in Nat, NEW hi \in Nat,
         Near(2 * h, c), lo <= h, h <= hi
  PROVE  Within(c, lo, hi)
<1> DEFINE d == MaxDispersion
<1>1. d \in Nat
  BY FeedsAssumption
<1>2. c * (10000 - d) <= 2 * h * 10000 /\ 2 * h * 10000 <= c * (10000 + d)
  BY <1>1 DEF Near
<1> HIDE DEF d
<1>3. c * (10000 - d) <= 2 * hi * 10000
  <2>1. c * (10000 - d) \in Int
    BY <1>1
  <2> QED BY <1>2, <2>1
<1>4. 2 * lo * (10000 - d) <= c * 10000
  <2>1. CASE d <= 10000
    <3>1. 2 * lo * (10000 - d) <= 2 * h * (10000 - d)
      BY <1>1, <2>1
    <3>2. (2 * h * 10000) * (10000 - d) <= (c * (10000 + d)) * (10000 - d)
      <4> DEFINE e == 10000 - d
                 x == 2 * h * 10000
                 y == c * (10000 + d)
      <4>1. e \in Nat /\ x \in Nat /\ y \in Nat /\ x <= y
        BY <1>1, <1>2, <2>1
      <4> HIDE DEF e, x, y
      <4>2. x * e <= y * e
        BY <4>1
      <4> QED BY <4>2 DEF e, x, y
    <3>3. (c * (10000 + d)) * (10000 - d) = c * 100000000 - c * (d * d)
      BY <1>1
    <3>4. c * (d * d) >= 0
      BY <1>1
    <3>5. (2 * h * 10000) * (10000 - d) = 10000 * (2 * h * (10000 - d))
      BY <1>1
    <3>6. 2 * h * (10000 - d) \in Int /\ c * (d * d) \in Int /\ 2 * lo * (10000 - d) \in Int
      BY <1>1
    <3>7. 10000 * (2 * h * (10000 - d)) <= c * 100000000
      BY <3>2, <3>3, <3>4, <3>5, <3>6
    <3>8. 2 * h * (10000 - d) <= c * 10000
      BY <3>6, <3>7
    <3> QED BY <3>1, <3>6, <3>8
  <2>2. CASE d > 10000
    <3>1. 2 * lo * (10000 - d) <= 0 /\ 2 * lo * (10000 - d) \in Int
      BY <1>1, <2>2
    <3> QED BY <3>1
  <2> QED BY <1>1, <2>1, <2>2
<1> QED BY <1>3, <1>4 DEF Within, d

\* Two prices near a center have a sum that is.
LEMMA NearSum ==
  ASSUME NEW x \in Nat, NEW y \in Nat, NEW c \in Nat, Near(2 * x, c), Near(2 * y, c)
  PROVE  Near(x + y, c)
<1>1. c * MaxDispersion \in Nat
  BY FeedsAssumption
<1> QED BY <1>1 DEF Near

\* An aggregate rests on MinFeeds of the live quotes or more.
LEMMA AggregateIsEnough ==
  ASSUME NEW q \in Readings, BuildAggregate(q) # <<>>
  PROVE  /\ BuildAggregate(q) = RejectOutliers(q) /\ DOMAIN q # {}
         /\ BuildAggregate(q) \in Readings /\ DOMAIN BuildAggregate(q) \subseteq DOMAIN q
         /\ Cardinality(DOMAIN q) >= MinFeeds
         /\ Cardinality(DOMAIN BuildAggregate(q)) >= MinFeeds
         /\ DOMAIN BuildAggregate(q) # {}
<1> DEFINE D == DOMAIN q
           kept == RejectOutliers(q)
<1>1. /\ ~(Cardinality(D) < MinFeeds) /\ ~(Cardinality(DOMAIN kept) < MinFeeds)
      /\ BuildAggregate(q) = kept
  BY DEF BuildAggregate
<1>2. Cardinality(D) \in Nat /\ IsFiniteSet(D)
  BY ReadingsTyped
<1>3. D # {}
  BY <1>1, <1>2, FS_EmptySet, FeedsAssumption
<1>4. kept \in Readings /\ DOMAIN kept \subseteq D
  BY <1>3, KeptAreNear
<1>5. Cardinality(DOMAIN kept) \in Nat
  BY <1>4, ReadingsTyped
<1>6. Cardinality(DOMAIN kept) # 0
  BY <1>1, <1>5, FeedsAssumption
<1>7. DOMAIN kept # {}
  BY <1>6, FS_EmptySet
<1> QED BY <1>1, <1>2, <1>3, <1>4, <1>5, <1>7, FeedsAssumption

\* An aggregate of honest quotes and at most MinFeeds / 2 others is within the
\* limit of the honest quotes: either most of what is live is honest, and its
\* median with it, or nothing was rejected and an honest quote is near.
LEMMA AggregateIsWithin ==
  ASSUME NEW q \in Readings, NEW lo \in Nat, NEW hi \in Nat,
         \A f \in DOMAIN q \ Liars : lo <= q[f] /\ q[f] <= hi,
         2 * Cardinality(Liars) <= MinFeeds,
         BuildAggregate(q) # <<>>
  PROVE  /\ TwiceMedian(BuildAggregate(q)) \in Nat
         /\ Within(TwiceMedian(BuildAggregate(q)), lo, hi)
<1> DEFINE D == DOMAIN q
           kept == RejectOutliers(q)
           center == TwiceMedian(q)
<1>1. /\ BuildAggregate(q) = kept /\ D # {} /\ DOMAIN kept # {}
      /\ Cardinality(D) >= MinFeeds /\ Cardinality(DOMAIN kept) >= MinFeeds
  BY AggregateIsEnough
<1>2. /\ IsFiniteSet(D) /\ Cardinality(D) \in Nat
      /\ \A P \in SUBSET D : IsFiniteSet(P) /\ Cardinality(P) \in Nat
  BY ReadingsTyped
<1>3. D # {}
  BY <1>1
<1>4. /\ kept \in Readings /\ DOMAIN kept \subseteq D
      /\ \A f \in DOMAIN kept : kept[f] = q[f] /\ Near(2 * q[f], center)
  BY <1>3, KeptAreNear
<1>5. DOMAIN kept # {}
  BY <1>1
<1>6. center \in Nat
  BY <1>3, MedianBounded
<1> HIDE DEF center
<1>7. PICK f, g \in DOMAIN kept : TwiceMedian(kept) = q[f] + q[g]
  BY <1>4, <1>5, MedianBounded
<1>8. q[f] \in Nat /\ q[g] \in Nat
  BY <1>4, <1>7, ReadingsTyped
<1>9. TwiceMedian(kept) \in Nat /\ Near(TwiceMedian(kept), center)
  BY <1>4, <1>6, <1>7, <1>8, NearSum
<1>10. Within(TwiceMedian(kept), lo, hi)
  <2> DEFINE bad == D \cap Liars
  <2>1. Cardinality(bad) <= Cardinality(Liars) /\ Cardinality(Liars) \in Nat
    BY FeedsAssumption, FS_Subset, FS_CardinalityType
  <2>2. bad = D \ (D \ Liars) /\ Cardinality(bad) \in Nat
    BY <1>2
  <2>3. 2 * Cardinality(bad) <= Cardinality(D)
    BY <1>1, <1>2, <2>1, <2>2, FeedsAssumption
  <2>4. CASE 2 * Cardinality(bad) < Cardinality(D)
    <3>1. 2 * lo <= center /\ center <= 2 * hi
      BY <2>2, <2>4, MedianIsHonest DEF center
    <3> QED BY <1>6, <1>9, <3>1, NearHonestMedian
  <2>5. CASE 2 * Cardinality(bad) = Cardinality(D)
    <3>1. Cardinality(D) = MinFeeds
      BY <1>1, <1>2, <2>1, <2>2, <2>5, FeedsAssumption
    <3>2. DOMAIN kept = D
      <4>1. Cardinality(DOMAIN kept) <= Cardinality(D)
        BY <1>2, <1>4, FS_Subset
      <4>2. Cardinality(DOMAIN kept) \in Nat
        BY <1>2, <1>4
      <4>3. Cardinality(D) = Cardinality(DOMAIN kept)
        BY <1>1, <1>2, <3>1, <4>1, <4>2
      <4> QED BY <1>2, <1>4, <4>3, FS_Subset
    <3>3. kept = q
      <4>1. \A x \in D : kept[x] = q[x]
        BY <1>4, <3>2
      <4>2. kept = [x \in D |-> kept[x]] /\ q = [x \in D |-> q[x]]
        BY <1>4, <3>2 DEF Readings
      <4> QED BY <4>1, <4>2
    <3>4. PICK h \in D \ Liars : TRUE
      <4>1. bad # D
        BY <1>2, <2>5, <3>1, FeedsAssumption
      <4> QED BY <4>1
    <3>5. q[h] \in Nat /\ lo <= q[h] /\ q[h] <= hi
      BY <3>4, ReadingsTyped
    <3>6. Near(2 * q[h], center)
      BY <1>4, <3>2, <3>4
    <3>7. Within(center, lo, hi)
      BY <1>6, <3>5, <3>6, MedianNearHonest
    <3> QED BY <3>3, <3>7 DEF center
  <2> QED BY <1>2, <2>2, <2>3, <2>4, <2>5
<1> QED BY <1>1, <1>4, <1>9, <1>10

-----------------------------------------------------------------------------
(***************************************************************************)
(* The feeds.                                                              *)
(***************************************************************************)
Samples == [readings : Readings, age : 0..(Stale + 1), oldest : 0..Old]

\* A quote is a price, and its age is counted.
QuotesTyped ==
  /\ latest \in [Feeds -> {NoQuote} \union Mids \union LiarMids]
  /\ age \in [Feeds -> 0..Old]

\* A sample was taken of quotes within the limit, and has aged with them since.
SampleFresh ==
  agg # NoSample =>
    /\ agg \in Samples
    /\ agg.age <= Stale => agg.oldest <= Stale + agg.age
    /\ Cardinality(DOMAIN agg.readings) >= MinFeeds

FreshInv == QuotesTyped /\ SampleFresh

\* The exchanges that do not lie quote their market, and a sample is near it.
HonestQuotes == \A f \in Feeds \ Liars : latest[f] \in {NoQuote} \union Mids

SampleWithin ==
  agg # NoSample =>
    /\ TwiceMedian(agg.readings) \in Nat
    /\ Within(TwiceMedian(agg.readings), Least(Mids), Max(Mids))

MarketInv == HonestQuotes /\ SampleWithin

\* The quotes a sample looks at.
Live == {f \in Feeds : Fresh(f)}

LEMMA LiveIsReadings ==
  ASSUME QuotesTyped
  PROVE  /\ Restrict(latest, Live) \in Readings /\ DOMAIN Restrict(latest, Live) = Live
         /\ \A f \in Live : Restrict(latest, Live)[f] = latest[f]
<1> DEFINE q == [f \in Live |-> latest[f]]
<1>1. \A f \in Live : latest[f] \in Nat \ {0}
  BY FeedsAssumption DEF QuotesTyped, Live, Fresh, NoQuote
<1>2. Live \in SUBSET Feeds /\ q \in [Live -> Nat \ {0}]
  BY <1>1 DEF Live
<1>3. q \in Readings
  BY <1>2 DEF Readings
<1> QED BY <1>3 DEF Restrict

\* What a sample leaves: nothing, or an aggregate of live quotes.
LEMMA SampleTakes ==
  ASSUME QuotesTyped, Sample
  PROVE  \/ agg' = NoSample
         \/ LET b == BuildAggregate(Restrict(latest, Live))
            IN  /\ b # <<>>
                /\ agg' = [readings |-> b, age |-> 0, oldest |-> Max({age[f] : f \in DOMAIN b})]
<1> DEFINE b == BuildAggregate(Restrict(latest, Live))
<1>1. agg' = IF DOMAIN b = {} THEN NoSample
             ELSE [readings |-> b, age |-> 0, oldest |-> Max({age[f] : f \in DOMAIN b})]
  BY DEF Sample, Live
<1>2. DOMAIN << >> = {}
  OBVIOUS
<1> HIDE DEF b
<1>3. CASE DOMAIN b = {}
  BY <1>1, <1>3
<1>4. CASE DOMAIN b # {}
  <2>1. b # <<>>
    BY <1>2, <1>4
  <2> QED BY <1>1, <1>4, <2>1 DEF b
<1> QED BY <1>3, <1>4

\* The oldest quote of a sample is within the limit when it is taken.
LEMMA OldestIsFresh ==
  ASSUME QuotesTyped, NEW P \in SUBSET Live, P # {}
  PROVE  Max({age[f] : f \in P}) \in 0..Stale
<1> DEFINE Ages == {age[f] : f \in P}
<1>1. \A f \in P : age[f] \in 0..Stale
  BY DEF QuotesTyped, Live, Fresh, Old
<1>2. Ages \in SUBSET Nat /\ Ages # {}
  BY <1>1, FeedsAssumption
<1>3. IsFiniteSet(Ages)
  <2>1. \A k \in Ages : k <= Stale
    BY <1>1
  <2> HIDE DEF Ages
  <2> QED BY <1>2, <2>1, FS_BoundedSetOfNaturals, FeedsAssumption
<1>4. \E m \in Ages : \A k \in Ages : k <= m
  BY <1>2, <1>3, GreatestExists
<1>5. \E m \in Ages : \A k \in Ages : m >= k
  BY <1>2, <1>4
<1>6. Max(Ages) \in Ages
  BY <1>5 DEF Max
<1> QED BY <1>1, <1>6

\* A step of an exchange changes no age but to zero, and no sample.
LEMMA ExchangeStep ==
  ASSUME QuotesTyped, NEW f \in Feeds, Exchange(f) \/ Connect(f)
  PROVE  /\ QuotesTyped' /\ agg' = agg
         /\ \A g \in Feeds : latest'[g] = latest[g] \/ (g \notin Liars => latest'[g] \in Mids)
<1>0. 0 \in 0..Old
  BY FeedsAssumption DEF Old
<1>1. CASE SetQuote(f)
  <2>1. PICK mid \in IF f \in Liars THEN LiarMids ELSE Mids :
          latest' = [latest EXCEPT ![f] = mid]
    BY <1>1 DEF SetQuote
  <2> QED BY <1>0, <1>1, <2>1 DEF SetQuote, QuotesTyped
<1>2. CASE Opens(f) \/ OpensMute(f)
  BY <1>0, <1>2 DEF Opens, OpensMute, Opened, QuotesTyped
<1>3. CASE FallsSilent(f) \/ Fails(f) \/ Connect(f)
  BY <1>3 DEF FallsSilent, Fails, Connect, QuotesTyped
<1> QED BY <1>1, <1>2, <1>3 DEF Exchange

LEMMA InitFreshInv == Init => FreshInv /\ MarketInv
<1>1. Old \in 0..Old
  BY FeedsAssumption DEF Old
<1> QED BY <1>1 DEF Init, FreshInv, QuotesTyped, SampleFresh, MarketInv, HonestQuotes, SampleWithin

LEMMA FreshStep == FreshInv /\ [Next]_vars => FreshInv'
<1> SUFFICES ASSUME FreshInv, [Next]_vars PROVE FreshInv'
  OBVIOUS
<1> USE DEF FreshInv
<1>1. CASE \E f \in Feeds : Exchange(f) \/ Connect(f)
  BY <1>1, ExchangeStep DEF SampleFresh
<1>2. CASE Sample
  <2>1. QuotesTyped'
    BY <1>2 DEF Sample, QuotesTyped
  <2>2. SampleFresh'
    <3> DEFINE q == Restrict(latest, Live)
               b == BuildAggregate(q)
    <3>1. CASE agg' = NoSample
      BY <3>1 DEF SampleFresh
    <3>2. CASE b # <<>> /\ agg' = [readings |-> b, age |-> 0, oldest |-> Max({age[f] : f \in DOMAIN b})]
      <4>1. q \in Readings /\ DOMAIN q = Live
        BY LiveIsReadings
      <4>2. /\ b \in Readings /\ Cardinality(DOMAIN b) >= MinFeeds
            /\ DOMAIN b \subseteq Live /\ DOMAIN b # {}
        BY <3>2, <4>1, AggregateIsEnough
      <4>3. Max({age[f] : f \in DOMAIN b}) \in 0..Stale
        BY <4>2, OldestIsFresh
      <4>4. 0 \in 0..(Stale + 1) /\ 0..Stale \subseteq 0..Old /\ Stale \in Nat
        BY FeedsAssumption DEF Old
      <4> DEFINE m == Max({age[f] : f \in DOMAIN b})
      <4> HIDE DEF b, m
      <4>5. m \in 0..Stale /\ agg' = [readings |-> b, age |-> 0, oldest |-> m]
        BY <3>2, <4>3 DEF m
      <4> QED BY <4>2, <4>4, <4>5 DEF SampleFresh, Samples
    <3> QED BY <1>2, <3>1, <3>2, SampleTakes
  <2> QED BY <2>1, <2>2
<1>3. CASE Tick
  <2>1. QuotesTyped'
    <3>1. \A f \in Feeds : Older(age[f]) \in 0..Old
      BY FeedsAssumption DEF QuotesTyped, Older, Old
    <3> QED BY <1>3, <3>1 DEF Tick, QuotesTyped
  <2>2. CASE agg = NoSample
    BY <1>3, <2>1, <2>2 DEF Tick, SampleFresh
  <2>3. CASE agg # NoSample
    <3>1. agg' = [agg EXCEPT !.age = IF @ > Stale THEN @ ELSE @ + 1, !.oldest = Older(@)]
      BY <1>3, <2>3 DEF Tick
    <3>2. agg \in Samples
      BY <2>3 DEF SampleFresh
    <3>3. /\ agg'.readings = agg.readings /\ agg'.oldest = Older(agg.oldest)
          /\ agg'.age = IF agg.age > Stale THEN agg.age ELSE agg.age + 1
      BY <3>1, <3>2 DEF Samples
    <3>4. agg.age \in 0..(Stale + 1) /\ agg.oldest \in 0..Old
      BY <3>2 DEF Samples
    <3>5. /\ Older(agg.oldest) \in 0..Old
          /\ (IF agg.age > Stale THEN agg.age ELSE agg.age + 1) \in 0..(Stale + 1)
      BY <3>4, FeedsAssumption DEF Older, Old
    <3>6. agg' \in Samples
      BY <3>1, <3>2, <3>5 DEF Samples
    <3>7. agg'.age <= Stale => agg'.oldest <= Stale + agg'.age
      BY <2>3, <3>3, <3>4, FeedsAssumption DEF SampleFresh, Older, Old
    <3> QED BY <2>1, <2>3, <3>3, <3>6, <3>7 DEF SampleFresh
  <2> QED BY <2>2, <2>3
<1>4. CASE UNCHANGED vars
  BY <1>4 DEF vars, QuotesTyped, SampleFresh
<1> QED BY <1>1, <1>2, <1>3, <1>4 DEF Next

\* A cycle never trades on a quote older than twice the limit, nor on fewer than
\* MinFeeds of them, whatever the sockets do and however late the sampler runs
\* (cexAggregator.ts:449-476, the age check of getSignal in cexSource.ts).
THEOREM SignalStaysFresh == Spec => []SignalIsFresh
<1>1. FreshInv => SignalIsFresh
  <2> SUFFICES ASSUME FreshInv, Signal # NoPrice
               PROVE  /\ agg.oldest <= 2 * Stale
                      /\ Cardinality(DOMAIN agg.readings) >= MinFeeds
    BY DEF SignalIsFresh
  <2>1. agg # NoSample /\ ~(agg.age > Stale)
    BY DEF Signal
  <2>2. agg \in Samples
    BY <2>1 DEF FreshInv, SampleFresh
  <2>3. agg.age \in 0..(Stale + 1) /\ agg.oldest \in 0..Old
    BY <2>2 DEF Samples
  <2> QED BY <2>1, <2>3, FeedsAssumption DEF FreshInv, SampleFresh, Old
<1> QED BY <1>1, InitFreshInv, FreshStep, PTL DEF Spec

-----------------------------------------------------------------------------
(***************************************************************************)
(* The market.                                                             *)
(***************************************************************************)

\* The honest prices have a least and a greatest one.
LEMMA MarketBounds ==
  /\ Least(Mids) \in Nat /\ Max(Mids) \in Nat
  /\ \A mid \in Mids : Least(Mids) <= mid /\ mid <= Max(Mids)
<1>1. Mids \in SUBSET Nat /\ Mids # {} /\ IsFiniteSet(Mids)
  BY FeedsAssumption
<1>2. \E m \in Mids : \A k \in Mids : m <= k
  BY <1>1, LeastExists
<1>3. \E m \in Mids : \A k \in Mids : m >= k
  BY <1>1, GreatestExists
<1>4. Least(Mids) \in Mids /\ \A k \in Mids : Least(Mids) <= k
  BY <1>2 DEF Least
<1>5. Max(Mids) \in Mids /\ \A k \in Mids : Max(Mids) >= k
  BY <1>3 DEF Max
<1> QED BY <1>1, <1>4, <1>5

LEMMA MarketStep ==
  ASSUME 2 * Cardinality(Liars) <= MinFeeds
  PROVE  FreshInv /\ MarketInv /\ [Next]_vars => MarketInv'
<1> SUFFICES ASSUME FreshInv, MarketInv, [Next]_vars PROVE MarketInv'
  OBVIOUS
<1> USE DEF FreshInv, MarketInv
<1>1. CASE \E f \in Feeds : Exchange(f) \/ Connect(f)
  BY <1>1, ExchangeStep DEF HonestQuotes, SampleWithin
<1>2. CASE Sample
  <2>1. HonestQuotes'
    BY <1>2 DEF Sample, HonestQuotes
  <2>2. SampleWithin'
    <3> DEFINE q == Restrict(latest, Live)
               b == BuildAggregate(q)
    <3>1. CASE agg' = NoSample
      BY <3>1 DEF SampleWithin
    <3>2. CASE b # <<>> /\ agg' = [readings |-> b, age |-> 0, oldest |-> Max({age[f] : f \in DOMAIN b})]
      <4>1. q \in Readings /\ DOMAIN q = Live /\ \A f \in Live : q[f] = latest[f]
        BY LiveIsReadings
      <4>2. \A f \in DOMAIN q \ Liars : Least(Mids) <= q[f] /\ q[f] <= Max(Mids)
        BY <4>1, MarketBounds DEF HonestQuotes, Live, Fresh
      <4> HIDE DEF q
      <4>3. TwiceMedian(b) \in Nat /\ Within(TwiceMedian(b), Least(Mids), Max(Mids))
        BY <3>2, <4>1, <4>2, MarketBounds, AggregateIsWithin
      <4>4. agg'.readings = b
        BY <3>2
      <4> HIDE DEF b
      <4> QED BY <4>3, <4>4 DEF SampleWithin
    <3> QED BY <1>2, <3>1, <3>2, SampleTakes
  <2> QED BY <2>1, <2>2
<1>3. CASE Tick
  <2>1. HonestQuotes'
    BY <1>3 DEF Tick, HonestQuotes
  <2>2. CASE agg = NoSample
    BY <1>3, <2>1, <2>2 DEF Tick, SampleWithin
  <2>3. CASE agg # NoSample
    <3>1. agg'.readings = agg.readings
      BY <1>3, <2>3 DEF Tick, SampleFresh, Samples
    <3> QED BY <2>1, <2>3, <3>1 DEF SampleWithin
  <2> QED BY <2>2, <2>3
<1>4. CASE UNCHANGED vars
  BY <1>4 DEF vars, HonestQuotes, SampleWithin
<1> QED BY <1>1, <1>2, <1>3, <1>4 DEF Next

\* Exchanges that lie, at most half of MinFeeds, do not move a price off the
\* market of the others by more than the dispersion limit, whichever of those
\* others are stale (cexAggregator.ts:478-515).
THEOREM LiarsAreOutvoted ==
  ASSUME 2 * Cardinality(Liars) <= MinFeeds
  PROVE  Spec => []LiarIsOutvoted
<1>1. MarketInv => LiarIsOutvoted
  <2> SUFFICES ASSUME MarketInv, Signal # NoPrice
               PROVE  Within(Signal, Least(Mids), Max(Mids))
    BY DEF LiarIsOutvoted, Within
  <2>1. agg # NoSample /\ Signal = TwiceMedian(agg.readings)
    BY DEF Signal
  <2> QED BY <2>1 DEF MarketInv, SampleWithin
<1> QED BY <1>1, InitFreshInv, FreshStep, MarketStep, PTL DEF Spec

=============================================================================
