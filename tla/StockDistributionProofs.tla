------------------------ MODULE StockDistributionProofs ------------------------
(***************************************************************************)
(* What holds of StockDistribution for any cabinets, warehouses, regions,  *)
(* shares, settings and number of failures.                                *)
(*                                                                         *)
(* The plans: what largest_remainder, priority_order and                   *)
(* _raise_zeros_to_one make of any input, by induction over the finite     *)
(* sets they run over, and that every plan is made of its basis.           *)
(*                                                                         *)
(* The publications: their memory is what Wildberries shows, and a         *)
(* verified one brings Wildberries to the plan it took.                    *)
(***************************************************************************)
EXTENDS StockDistribution, FiniteSums

\* largest_remainder.

\* largest_remainder deals out the whole total; everybody gets his quota, rounded down or
\* by one unit more, and nobody gets less than someone with a smaller weight, or with the
\* same weight and later in the list.
THEOREM AllIsDealtOut ==
  ASSUME NEW D, IsFiniteSet(D), \A i \in D : i \in Nat,
         NEW weights \in [D -> Nat], NEW total \in Nat,
         SumFunctionOnSet(weights, D) > 0
  PROVE  LET parts == LargestRemainder(total, weights) IN
         /\ parts \in [D -> Nat] /\ SumFunctionOnSet(parts, D) = total
         /\ \A i \in D : parts[i] - (total * weights[i]) \div SumFunctionOnSet(weights, D)
                            \in {0, 1}
         /\ \A i, j \in D : weights[i] > weights[j] \/ (weights[i] = weights[j] /\ i < j)
                              => parts[i] >= parts[j]
<1> DEFINE sum == SumFunctionOnSet(weights, D)
           n == Cardinality(D)
           quota == [i \in D |-> total * weights[i]]
           base == [i \in D |-> (total * weights[i]) \div sum]
           fraction == [i \in D |-> (total * weights[i]) % sum]
           ahead == [i \in D |-> {j \in D : fraction[j] > fraction[i]
                                             \/ (fraction[j] = fraction[i] /\ j < i)}]
           left == total - SumFunctionOnSet(base, D)
           extra == [i \in D |-> IF Cardinality(ahead[i]) < left THEN 1 ELSE 0]
           parts == [i \in D |-> base[i] + extra[i]]
<1>1. sum \in Nat /\ sum > 0 /\ n \in Nat
  BY SumNat, FS_CardinalityType
<1>2. \A i \in D : /\ quota[i] \in Nat /\ base[i] \in Nat /\ fraction[i] \in 0..sum - 1
                   /\ quota[i] = sum * base[i] + fraction[i]
  <2> SUFFICES ASSUME NEW i \in D
               PROVE  /\ quota[i] \in Nat /\ base[i] \in Nat /\ fraction[i] \in 0..sum - 1
                      /\ quota[i] = sum * base[i] + fraction[i]
    OBVIOUS
  <2>1. total * weights[i] \in Nat
    OBVIOUS
  <2> HIDE DEF sum
  <2> QED BY <1>1, <2>1, Division
<1>3. SumFunctionOnSet(quota, D) = total * sum
  <2>1. \A i \in D : weights[i] \in Int /\ quota[i] = total * weights[i]
    OBVIOUS
  <2>2. total \in Int
    OBVIOUS
  <2> HIDE DEF quota
  <2> QED BY <2>1, <2>2, SumTimes
<1>4. left \in 0..n
  <2> DEFINE B == SumFunctionOnSet(base, D)
             F == SumFunctionOnSet(fraction, D)
             whole == [i \in D |-> sum * base[i]]
             full == [i \in D |-> sum * 1]
             lost == [i \in D |-> sum - 1]
             ones == [i \in D |-> 1]
  <2>1. B \in Nat /\ F \in Nat
    <3>1. \A i \in D : base[i] \in Nat /\ fraction[i] \in Nat
      BY <1>1, <1>2
    <3> HIDE DEF base, fraction
    <3> QED BY <3>1, SumNat
  <2>2. SumFunctionOnSet(whole, D) = sum * B
    <3>1. \A i \in D : base[i] \in Int /\ whole[i] = sum * base[i]
      BY <1>2
    <3>2. sum \in Int
      BY <1>1
    <3> HIDE DEF base, whole, sum
    <3> QED BY <3>1, <3>2, SumTimes
  <2>3. SumFunctionOnSet(quota, D) = sum * B + F
    <3>1. \A i \in D : whole[i] \in Int /\ fraction[i] \in Int
                       /\ quota[i] = whole[i] + fraction[i]
      BY <1>1, <1>2
    <3> HIDE DEF base, whole, sum, quota, fraction
    <3> QED BY <2>2, <3>1, SumPlus
  <2>4. SumFunctionOnSet(ones, D) = n
    <3>1. \A i \in D : ones[i] = IF i \in D THEN 1 ELSE 0
      OBVIOUS
    <3>2. D \cap D = D
      OBVIOUS
    <3> HIDE DEF ones
    <3>3. SumFunctionOnSet(ones, D) = Cardinality(D \cap D)
      BY <3>1, SumCounts
    <3> QED BY <3>2, <3>3
  <2>5. SumFunctionOnSet(lost, D) = (sum - 1) * n
    <3>1. \A i \in D : ones[i] \in Int /\ lost[i] = (sum - 1) * ones[i]
      BY <1>1
    <3>2. sum - 1 \in Int
      BY <1>1
    <3> HIDE DEF ones, lost, sum
    <3> QED BY <2>4, <3>1, <3>2, SumTimes
  <2>6. F <= (sum - 1) * n
    <3>1. \A i \in D : fraction[i] \in Int /\ lost[i] \in Int /\ fraction[i] <= lost[i]
      BY <1>1, <1>2
    <3> HIDE DEF fraction, lost, sum
    <3> QED BY <2>5, <3>1, SumAtMost
  <2>7. sum * left = F
    <3>1. sum \in Int /\ B \in Int /\ F \in Int /\ total * sum = sum * B + F
      BY <1>1, <1>3, <2>1, <2>3
    <3> HIDE DEF sum, B, F
    <3>2. left = total - B /\ total \in Int
      BY DEF left, B
    <3> QED BY <3>1, <3>2, Factored
  <2> HIDE DEF sum, B, F, n, left
  <2>8. left \in Int
    BY <2>1 DEF left, B
  <2>9. sum * left <= sum * n
    <3>1. (sum - 1) * n <= sum * n
      BY <1>1
    <3> QED BY <1>1, <2>1, <2>6, <2>7, <2>8, <3>1
  <2> QED BY <1>1, <2>1, <2>7, <2>8, <2>9
<1>5. InOneLine(ahead, D)
  <2>1. \A i \in D : fraction[i] \in Int /\ i \in Int
    BY <1>1, <1>2
  <2> HIDE DEF fraction
  <2> QED BY <2>1 DEF InOneLine
<1>6. SumFunctionOnSet(extra, D) = left
  <2> DEFINE P == {i \in D : Cardinality(ahead[i]) < left}
  <2>1. Cardinality(P) = left
    <3> HIDE DEF ahead, left
    <3> QED BY <1>4, <1>5, RanksBelow
  <2>2. \A i \in D : extra[i] = IF i \in P THEN 1 ELSE 0
    OBVIOUS
  <2>3. D \cap P = P
    OBVIOUS
  <2> HIDE DEF P, extra
  <2>4. SumFunctionOnSet(extra, D) = Cardinality(D \cap P)
    BY <2>2, SumCounts
  <2> QED BY <2>1, <2>3, <2>4
<1>7. \A i \in D : extra[i] \in Nat
  OBVIOUS
<1>8. SumFunctionOnSet(parts, D) = total
  <2>1. \A i \in D : base[i] \in Int /\ extra[i] \in Int /\ parts[i] = base[i] + extra[i]
    BY <1>2, <1>7
  <2>2. SumFunctionOnSet(base, D) \in Int
    <3> HIDE DEF base
    <3> QED BY <2>1, SumInt
  <2>3. SumFunctionOnSet(parts, D) = SumFunctionOnSet(base, D) + SumFunctionOnSet(extra, D)
    <3> HIDE DEF base, extra, parts
    <3> QED BY <2>1, SumPlus
  <2>4. left = total - SumFunctionOnSet(base, D)
    OBVIOUS
  <2> HIDE DEF base, extra, parts, left
  <2> QED BY <1>6, <2>2, <2>3, <2>4
<1>9. LargestRemainder(total, weights) = parts
  <2>1. SumFunction(weights) = sum /\ SumFunction(base) = SumFunctionOnSet(base, D)
    BY SumIsOnSet
  <2>2. DOMAIN weights = D /\ DOMAIN base = D
    OBVIOUS
  <2>3. ASSUME NEW i \in D
        PROVE  {j \in DOMAIN weights : fraction[j] > fraction[i]
                                         \/ (fraction[j] = fraction[i] /\ j < i)} = ahead[i]
    BY <2>2
  <2>4. LargestRemainder(total, weights) =
          [i \in DOMAIN weights |->
             base[i] + IF Cardinality({j \in DOMAIN weights : fraction[j] > fraction[i]
                                         \/ (fraction[j] = fraction[i] /\ j < i)})
                          < total - SumFunction(base) THEN 1 ELSE 0]
    <3>1. SumFunction(weights) # 0
      BY <1>1, <2>1
    <3> QED BY <2>1, <2>2, <3>1 DEF LargestRemainder
  <2> QED BY <2>1, <2>2, <2>3, <2>4
<1>10. parts \in [D -> Nat] /\ \A i \in D : parts[i] - base[i] \in {0, 1}
  BY <1>2, <1>7
<1>11. ASSUME NEW i \in D, NEW j \in D,
              weights[i] > weights[j] \/ (weights[i] = weights[j] /\ i < j)
       PROVE  parts[i] >= parts[j]
  <2>1. weights[i] \in Nat /\ weights[j] \in Nat /\ i \in Nat /\ j \in Nat
    OBVIOUS
  <2>2. CASE total = 0
    <3>1. left = 0
      <4>1. SumFunctionOnSet(base, D) \in Nat
        <5> HIDE DEF base
        <5> QED BY <1>2, SumNat
      <4>2. left = total - SumFunctionOnSet(base, D)
        OBVIOUS
      <4> HIDE DEF left, base
      <4> QED BY <1>1, <1>4, <2>2, <4>1, <4>2
    <3>2. Cardinality(ahead[i]) \in 0..n - 1 /\ Cardinality(ahead[j]) \in 0..n - 1
      <4> HIDE DEF ahead
      <4> QED BY <1>5, RanksGrow
    <3>3. extra[i] = 0 /\ extra[j] = 0
      <4> HIDE DEF ahead, left, n
      <4> QED BY <1>1, <3>1, <3>2
    <3>4. base[i] = 0 /\ base[j] = 0
      <4>1. quota[i] = 0 /\ quota[j] = 0
        BY <2>1, <2>2
      <4>2. base[i] = quota[i] \div sum /\ base[j] = quota[j] \div sum
        OBVIOUS
      <4>3. 0 \div sum = 0
        <5> HIDE DEF sum
        <5> QED BY <1>1
      <4> HIDE DEF quota, base, sum
      <4> QED BY <4>1, <4>2, <4>3
    <3> QED BY <3>3, <3>4
  <2>3. CASE total > 0
    <3>1. quota[i] > quota[j] \/ (quota[i] = quota[j] /\ i < j)
      BY <1>11, <2>1, <2>3
    <3>2. base[i] > base[j] \/ (base[i] = base[j] /\ fraction[i] >= fraction[j])
      <4> HIDE DEF quota, base, fraction, sum
      <4>1. quota[i] >= quota[j] /\ sum * base[i] \in Nat /\ sum * base[j] \in Nat
        BY <1>1, <1>2, <3>1
      <4>2. CASE base[i] < base[j]
        <5>1. base[i] + 1 \in Int /\ base[j] \in Int /\ base[i] + 1 <= base[j]
          BY <1>2, <4>2
        <5>2. sum * (base[i] + 1) <= sum * base[j]
          BY <1>1, <5>1, FactorAtMost
        <5>3. sum * (base[i] + 1) = sum * base[i] + sum
          BY <1>1, <1>2
        <5> QED BY <1>1, <1>2, <4>1, <5>2, <5>3
      <4>3. CASE base[i] = base[j]
        BY <1>1, <1>2, <4>1, <4>3
      <4> QED BY <1>2, <4>2, <4>3
    <3>3. CASE base[i] > base[j]
      <4>1. extra[i] \in {0, 1} /\ extra[j] \in {0, 1} /\ base[i] \in Nat /\ base[j] \in Nat
        BY <1>2
      <4> HIDE DEF extra, base
      <4> QED BY <3>3, <4>1
    <3>4. CASE base[i] = base[j]
      <4>1. fraction[i] > fraction[j] \/ (fraction[i] = fraction[j] /\ i < j)
        <5> HIDE DEF quota, base, fraction, sum
        <5> QED BY <1>1, <1>2, <2>1, <3>1, <3>2, <3>4
      <4>2. i \in ahead[j]
        BY <4>1
      <4>3. Cardinality(ahead[i]) < Cardinality(ahead[j])
            /\ Cardinality(ahead[i]) \in Nat /\ Cardinality(ahead[j]) \in Nat
        <5> HIDE DEF ahead
        <5> QED BY <1>1, <1>5, <4>2, RanksGrow
      <4>4. left \in Int
        <5> HIDE DEF left, n
        <5> QED BY <1>1, <1>4
      <4>5. extra[i] >= extra[j]
        <5> HIDE DEF ahead, left
        <5> QED BY <4>3, <4>4
      <4>6. extra[i] \in Nat /\ extra[j] \in Nat /\ base[i] \in Nat
        BY <1>2, <1>7
      <4> HIDE DEF extra, base
      <4> QED BY <3>4, <4>5, <4>6
    <3> QED BY <3>2, <3>3, <3>4
  <2> QED BY <2>2, <2>3
<1> QED BY <1>8, <1>9, <1>10, <1>11

\* Equal parts add up, and nobody goes without while there is one for each.
LEMMA EqualParts ==
  ASSUME NEW D, IsFiniteSet(D), D # {}, \A i \in D : i \in Nat, NEW total \in Nat
  PROVE  LET parts == LargestRemainder(total, [i \in D |-> 1]) IN
         /\ parts \in [D -> Nat] /\ SumFunctionOnSet(parts, D) = total
         /\ total >= Cardinality(D) => \A i \in D : parts[i] >= 1
<1> DEFINE ones == [i \in D |-> 1]
           n == Cardinality(D)
           parts == LargestRemainder(total, ones)
<1>1. ones \in [D -> Nat] /\ SumFunctionOnSet(ones, D) = n
  BY SumOfOnes
<1>2. n \in Nat /\ n > 0
  BY FS_CardinalityType, FS_EmptySet
<1>3. \A i \in D : ones[i] = 1
  OBVIOUS
<1>4. /\ parts \in [D -> Nat] /\ SumFunctionOnSet(parts, D) = total
      /\ \A i \in D : parts[i] >= (total * ones[i]) \div n
  <2>1. \A i \in D : (total * ones[i]) \div n \in Nat
    <3>1. \A i \in D : total * ones[i] \in Nat
      OBVIOUS
    <3> HIDE DEF ones, n
    <3> QED BY <1>2, <3>1, Division
  <2>2. /\ parts \in [D -> Nat] /\ SumFunctionOnSet(parts, D) = total
        /\ \A i \in D : parts[i] - (total * ones[i]) \div n \in {0, 1}
    <3> HIDE DEF ones, n
    <3> QED BY <1>1, <1>2, AllIsDealtOut
  <2> HIDE DEF ones, n, parts
  <2> QED BY <2>1, <2>2
<1>5. total >= n => total \div n >= 1
  <2> HIDE DEF n
  <2>1. /\ total \div n \in Nat /\ (total % n) \in 0..n - 1
        /\ total = n * (total \div n) + (total % n)
    BY <1>2, Division
  <2>2. total \div n = 0 => n * (total \div n) = 0
    BY <1>2
  <2> QED BY <1>2, <2>1, <2>2
<1>6. total * 1 = total
  OBVIOUS
<1>7. total >= n => \A i \in D : parts[i] >= 1
  <2>1. total \div n \in Nat
    BY <1>2, Division
  <2>2. \A i \in D : parts[i] \in Nat /\ parts[i] >= total \div n
    <3> HIDE DEF parts, ones, n
    <3> QED BY <1>3, <1>4, <1>6
  <2> HIDE DEF parts, n
  <2> QED BY <1>5, <2>1, <2>2
<1> QED BY <1>4, <1>7
-----------------------------------------------------------------------------
\* priority_order.

\* A sequence without repetitions of the elements of K.
Lists(line, K) ==
  /\ line \in [1..Cardinality(K) -> K]
  /\ \A i, j \in 1..Cardinality(K) : line[i] = line[j] => i = j
  /\ \A x \in K : \E i \in 1..Cardinality(K) : line[i] = x

\* Everybody stands behind as many as are ahead of him.
LEMMA LinedUp ==
  ASSUME NEW D, IsFiniteSet(D), NEW ahead, InOneLine(ahead, D)
  PROVE  /\ Lists(InOrder(ahead), D)
         /\ \A i \in 1..Cardinality(D) : Cardinality(ahead[InOrder(ahead)[i]]) = i - 1
<1> DEFINE n == Cardinality(D)
           line == InOrder(ahead)
<1>1. n \in Nat /\ DOMAIN ahead = D
  BY FS_CardinalityType DEF InOneLine
<1>2. ASSUME NEW i \in 1..n
      PROVE  line[i] \in D /\ Cardinality(ahead[line[i]]) = i - 1
  <2>1. line[i] = CHOOSE x \in D : Cardinality(ahead[x]) = i - 1
    BY <1>1 DEF InOrder
  <2>2. \E x \in D : Cardinality(ahead[x]) = i - 1
    <3>1. i - 1 \in 0..n - 1
      BY <1>1
    <3> HIDE DEF n
    <3> QED BY <3>1, RanksFill DEF n
  <2> HIDE DEF line
  <2> QED BY <2>1, <2>2
<1>3. line = [i \in 1..n |-> line[i]]
  BY <1>1 DEF InOrder
<1>4. ASSUME NEW x \in D PROVE \E i \in 1..n : line[i] = x
  <2>1. Cardinality(ahead[x]) + 1 \in 1..n
    BY <1>1, RanksGrow
  <2>2. PICK i \in 1..n : i = Cardinality(ahead[x]) + 1
    BY <2>1
  <2>3. line[i] \in D /\ Cardinality(ahead[line[i]]) = Cardinality(ahead[x])
    <3>1. Cardinality(ahead[x]) \in 0..n - 1
      BY RanksGrow
    <3> QED BY <1>1, <1>2, <2>2, <3>1
  <2>4. line[i] = x
    <3> HIDE DEF line
    <3> QED BY <2>3, RanksGrow
  <2> QED BY <2>4
<1>5. \A i, j \in 1..n : line[i] = line[j] => i = j
  <2> HIDE DEF line
  <2> QED BY <1>1, <1>2
<1>6. line \in [1..n -> D]
  <2> HIDE DEF line
  <2> QED BY <1>2, <1>3
<1> HIDE DEF line
<1>7. \A i \in 1..n : Cardinality(ahead[line[i]]) = i - 1
  BY <1>2
<1> QED BY <1>4, <1>5, <1>6, <1>7 DEF Lists, line

\* A list is a sequence, and everybody has a place in it.
LEMMA ListFacts ==
  ASSUME NEW K, IsFiniteSet(K), NEW line, Lists(line, K)
  PROVE  /\ Cardinality(K) \in Nat /\ DOMAIN line = 1..Cardinality(K)
         /\ line \in Seq(K) /\ Len(line) = Cardinality(K) /\ Range(line) = K
         /\ IsInjective(line)
         /\ \A x \in K : Place(line, x) \in DOMAIN line /\ line[Place(line, x)] = x
         /\ \A i \in DOMAIN line : line[i] \in K /\ Place(line, line[i]) = i
         /\ \A x, y \in K : Place(line, x) = Place(line, y) => x = y
<1>1. Cardinality(K) \in Nat /\ DOMAIN line = 1..Cardinality(K)
  BY FS_CardinalityType DEF Lists
<1>2. line \in Seq(K) /\ Len(line) = Cardinality(K)
  BY <1>1 DEF Lists
<1>3. Range(line) = K
  BY <1>1 DEF Lists, Range
<1>4. IsInjective(line)
  BY <1>1 DEF Lists, IsInjective
<1>5. \A x \in K : Place(line, x) \in DOMAIN line /\ line[Place(line, x)] = x
  BY <1>1 DEF Lists, Place
<1>6. \A i \in DOMAIN line : line[i] \in K
  BY <1>1 DEF Lists
<1>7. \A i \in DOMAIN line : Place(line, line[i]) = i
  BY <1>1, <1>5, <1>6 DEF Lists
<1>8. \A x, y \in K : Place(line, x) = Place(line, y) => x = y
  BY <1>5
<1> QED BY <1>1, <1>2, <1>3, <1>4, <1>5, <1>6, <1>7, <1>8

\* The lap of a warehouse, and those before it in the queue.
Laps(set) == [w \in set |-> Cardinality({v \in set : RegionOf[v] = RegionOf[w] /\ v < w})]

Before(set, kept) ==
  [w \in kept |-> {v \in kept : Laps(set)[v] < Laps(set)[w]
                     \/ (Laps(set)[v] = Laps(set)[w] /\ RegionOf[v] < RegionOf[w])}]

\* priority_order lines the warehouses up lap by lap, and by region in a lap.
LEMMA OrderOfLaps ==
  ASSUME NEW set, NEW kept
  PROVE  PriorityOrder(set, kept) = InOrder(Before(set, kept))
BY DEF PriorityOrder, Before, Laps

\* In a lap, a region has one warehouse.
LEMMA LapsDiffer ==
  ASSUME NEW set \in SUBSET Warehouses
  PROVE  \A v, w \in set : /\ Laps(set)[v] \in Nat
                           /\ Laps(set)[v] = Laps(set)[w] /\ RegionOf[v] = RegionOf[w] => v = w
<1> SUFFICES ASSUME NEW w \in set
             PROVE  /\ Laps(set)[w] \in Nat
                    /\ \A v \in set :
                         Laps(set)[v] = Laps(set)[w] /\ RegionOf[v] = RegionOf[w] => v = w
  OBVIOUS
<1> DEFINE D == {v \in set : RegionOf[v] = RegionOf[w]}
           ahead == [x \in D |-> {v \in D : v < x}]
<1>1. IsFiniteSet(D)
  BY DistributionAssumption, FS_Subset
<1>2. InOneLine(ahead, D)
  <2>1. \A x \in D : x \in Nat
    BY DistributionAssumption
  <2> QED BY <2>1 DEF InOneLine
<1>3. \A x \in D : Laps(set)[x] = Cardinality(ahead[x])
  <2> SUFFICES ASSUME NEW x \in D PROVE Laps(set)[x] = Cardinality(ahead[x])
    OBVIOUS
  <2>1. {v \in set : RegionOf[v] = RegionOf[x] /\ v < x} = ahead[x]
    OBVIOUS
  <2> QED BY <2>1 DEF Laps
<1>4. \A x, y \in D : Cardinality(ahead[x]) \in Nat
                      /\ (Cardinality(ahead[x]) = Cardinality(ahead[y]) => x = y)
  <2> HIDE DEF D, ahead
  <2> QED BY <1>1, <1>2, RanksGrow
<1>5. w \in D /\ \A v \in set : RegionOf[v] = RegionOf[w] => v \in D
  OBVIOUS
<1> HIDE DEF D, ahead
<1> QED BY <1>3, <1>4, <1>5

\* The warehouses that are kept stand in one line.
LEMMA BeforeIsALine ==
  ASSUME NEW set \in SUBSET Warehouses, NEW kept \in SUBSET set
  PROVE  InOneLine(Before(set, kept), kept)
<1>1. \A v, w \in kept : /\ Laps(set)[v] \in Nat /\ RegionOf[v] \in Nat
                         /\ Laps(set)[v] = Laps(set)[w] /\ RegionOf[v] = RegionOf[w] => v = w
  BY LapsDiffer, DistributionAssumption
<1> QED BY <1>1 DEF InOneLine, Before

\* The queue of a cabinet lists the warehouses that are kept.
LEMMA QueueLists ==
  ASSUME NEW set \in SUBSET Warehouses, NEW kept \in SUBSET set
  PROVE  Lists(PriorityOrder(set, kept), kept)
<1>1. IsFiniteSet(kept)
  BY DistributionAssumption, FS_Subset
<1> QED BY <1>1, BeforeIsALine, LinedUp, OrderOfLaps

\* The warehouses of the first lap come first, one of each region.
LEMMA FirstLap ==
  ASSUME NEW set \in SUBSET Warehouses
  PROVE  LET Z == {w \in set : Laps(set)[w] = 0}
             regions == {RegionOf[w] : w \in set}
         IN  /\ {RegionOf[w] : w \in Z} = regions
             /\ \A v, w \in Z : RegionOf[v] = RegionOf[w] => v = w
             /\ \A w \in set : w \in Z <=>
                  Cardinality(Before(set, set)[w]) < Cardinality(regions)
<1> DEFINE Z == {w \in set : Laps(set)[w] = 0}
           regions == {RegionOf[w] : w \in set}
           line == Before(set, set)
<1>1. IsFiniteSet(set) /\ IsFiniteSet(Z) /\ set \subseteq Nat /\ \A w \in set : w \in Nat
  BY DistributionAssumption, FS_Subset
<1>2. \A v, w \in set : /\ Laps(set)[v] \in Nat
                        /\ Laps(set)[v] = Laps(set)[w] /\ RegionOf[v] = RegionOf[w] => v = w
  BY LapsDiffer
<1>3. \A v, w \in Z : RegionOf[v] = RegionOf[w] => v = w
  BY <1>2
<1>4. ASSUME NEW w \in set PROVE \E v \in Z : RegionOf[v] = RegionOf[w]
  <2> DEFINE S == {v \in set : RegionOf[v] = RegionOf[w]}
  <2>1. S # {} /\ S \in SUBSET set
    OBVIOUS
  <2>2. PICK v \in S : \A u \in S : v <= u
    <3> HIDE DEF S
    <3> QED BY <1>1, <2>1, SmallestExists
  <2>3. {u \in set : RegionOf[u] = RegionOf[v] /\ u < v} = {}
    <3> SUFFICES ASSUME NEW u \in set, RegionOf[u] = RegionOf[v], u < v PROVE FALSE
      OBVIOUS
    <3>1. u \in S /\ v \in Nat /\ u \in Nat
      BY <1>1, <2>2
    <3>2. v <= u
      BY <2>2, <3>1
    <3> QED BY <3>1, <3>2
  <2>4. Laps(set)[v] = 0
    BY <2>3, FS_EmptySet DEF Laps
  <2> QED BY <2>4
<1>5. {RegionOf[w] : w \in Z} = regions
  <2>1. \A w \in Z : w \in set
    OBVIOUS
  <2> HIDE DEF Z
  <2> QED BY <1>4, <2>1
<1>6. Cardinality(Z) = Cardinality(regions)
  <2> HIDE DEF Z, regions
  <2> QED BY <1>1, <1>3, <1>5, ImageSize
<1>7. ASSUME NEW w \in Z PROVE Cardinality(line[w]) < Cardinality(Z)
  <2>1. line[w] \in SUBSET Z
    BY <1>2 DEF Before
  <2>2. w \notin line[w]
    BY BeforeIsALine DEF InOneLine
  <2> HIDE DEF line, Z
  <2>3. Cardinality(line[w]) <= Cardinality(Z) /\ Cardinality(line[w]) # Cardinality(Z)
    BY <1>1, <2>1, <2>2, FS_Subset
  <2>4. Cardinality(line[w]) \in Nat /\ Cardinality(Z) \in Nat
    BY <1>1, <2>1, FS_Subset, FS_CardinalityType
  <2> QED BY <2>3, <2>4
<1>8. ASSUME NEW w \in set \ Z PROVE ~(Cardinality(line[w]) < Cardinality(Z))
  <2>1. Z \in SUBSET line[w]
    BY <1>2 DEF Before
  <2>2. line[w] \in SUBSET set
    BY DEF Before
  <2> HIDE DEF line, Z
  <2>3. IsFiniteSet(line[w])
    BY <1>1, <2>2, FS_Subset
  <2>4. Cardinality(Z) <= Cardinality(line[w])
    BY <2>1, <2>3, FS_Subset
  <2>5. Cardinality(line[w]) \in Nat /\ Cardinality(Z) \in Nat
    BY <1>1, <2>3, FS_CardinalityType
  <2> QED BY <2>4, <2>5
<1>9. \A w \in set : w \in Z <=> Cardinality(line[w]) < Cardinality(regions)
  <2> HIDE DEF line, Z, regions
  <2> QED BY <1>6, <1>7, <1>8
<1> QED BY <1>3, <1>5, <1>9

\* priority_order: whatever number of warehouses is served from the front of the queue,
\* they stand in as many different regions as that number allows.
THEOREM FrontSpreads ==
  ASSUME NEW set \in SUBSET Warehouses, NEW take \in 0..Cardinality(set)
  PROVE  LET queue == PriorityOrder(set, set) IN
         Cardinality({RegionOf[w] : w \in {queue[i] : i \in 1..take}}) =
           Least(Cardinality({RegionOf[w] : w \in set}), take)
<1> DEFINE n == Cardinality(set)
           queue == PriorityOrder(set, set)
           Z == {w \in set : Laps(set)[w] = 0}
           regions == {RegionOf[w] : w \in set}
           line == Before(set, set)
           T == {queue[i] : i \in 1..take}
           m == Cardinality(regions)
<1>1. IsFiniteSet(set) /\ n \in Nat
  BY DistributionAssumption, FS_Subset, FS_CardinalityType
<1>2. IsFiniteSet(regions) /\ m \in Nat /\ m <= n
  BY <1>1, ImageSize, FS_CardinalityType
<1>3. /\ {RegionOf[w] : w \in Z} = regions
      /\ \A v, w \in Z : RegionOf[v] = RegionOf[w] => v = w
      /\ \A w \in set : w \in Z <=> Cardinality(line[w]) < m
  BY FirstLap
<1>4. /\ Lists(queue, set) /\ InOneLine(line, set)
      /\ \A i \in 1..n : Cardinality(line[queue[i]]) = i - 1
  BY <1>1, BeforeIsALine, LinedUp, OrderOfLaps
<1>5. /\ \A i \in 1..n : queue[i] \in set /\ Cardinality(line[queue[i]]) = i - 1
      /\ \A i, j \in 1..n : queue[i] = queue[j] => i = j
      /\ \A w \in set : \E i \in 1..n : queue[i] = w
  BY <1>4 DEF Lists
<1>6. T \in SUBSET set /\ IsFiniteSet(T) /\ Cardinality(T) = take
  <2>1. IsFiniteSet(1..take) /\ Cardinality(1..take) = take
    BY <1>1, FS_Interval
  <2>2. \A i \in 1..take : i \in 1..n
    BY <1>1
  <2>3. \A i, j \in 1..take : queue[i] = queue[j] => i = j
    <3> HIDE DEF queue
    <3> QED BY <1>5, <2>2
  <2>4. Cardinality(T) = take
    <3> DEFINE I == 1..take
    <3>1. IsFiniteSet(I) /\ Cardinality(I) = take /\ T = {queue[i] : i \in I}
      BY <2>1
    <3>2. \A i, j \in I : queue[i] = queue[j] => i = j
      BY <2>3
    <3> HIDE DEF queue, I, T
    <3>3. Cardinality({queue[i] : i \in I}) = Cardinality(I)
      BY <3>1, <3>2, ImageSize
    <3> QED BY <3>1, <3>3
  <2>5. T \in SUBSET set
    <3> HIDE DEF queue
    <3> QED BY <1>5, <2>2
  <2> HIDE DEF T
  <2> QED BY <1>1, <2>4, <2>5, FS_Subset
<1>7. ASSUME take <= m PROVE Cardinality({RegionOf[w] : w \in T}) = take
  <2>1. \A w \in T : w \in Z
    <3> SUFFICES ASSUME NEW i \in 1..take PROVE queue[i] \in Z
      OBVIOUS
    <3>1. i \in 1..n /\ i - 1 < m
      BY <1>1, <1>2, <1>7
    <3> HIDE DEF queue, line, Z, n, m
    <3> QED BY <1>3, <1>5, <3>1
  <2>2. \A v, w \in T : RegionOf[v] = RegionOf[w] => v = w
    <3> HIDE DEF T, Z
    <3> QED BY <1>3, <2>1
  <2> HIDE DEF T
  <2> QED BY <1>6, <2>2, ImageSize
<1>8. ASSUME ~(take <= m) PROVE Cardinality({RegionOf[w] : w \in T}) = m
  <2>1. \A w \in Z : w \in T
    <3> SUFFICES ASSUME NEW w \in Z PROVE \E i \in 1..take : queue[i] = w
      OBVIOUS
    <3>1. w \in set /\ Cardinality(line[w]) < m
      BY <1>3
    <3>2. PICK i \in 1..n : queue[i] = w
      BY <1>5, <3>1
    <3>3. i - 1 < m
      <4> HIDE DEF queue, line, m, n
      <4> QED BY <1>5, <3>1, <3>2
    <3>4. i \in 1..take
      <4> HIDE DEF m, n
      <4> QED BY <1>1, <1>2, <1>8, <3>3 DEF n
    <3> QED BY <3>2, <3>4
  <2>2. {RegionOf[w] : w \in T} = regions
    <3>1. \A r \in regions : \E w \in Z : r = RegionOf[w]
      <4> HIDE DEF Z, regions
      <4> QED BY <1>3
    <3>2. \A w \in T : RegionOf[w] \in regions
      <4> HIDE DEF T
      <4> QED BY <1>6
    <3> HIDE DEF T, Z, regions
    <3> QED BY <2>1, <3>1, <3>2
  <2> QED BY <2>2
<1>9. take \in Nat
  BY <1>1
<1> HIDE DEF T, m
<1>10. Cardinality({RegionOf[w] : w \in T}) = Least(m, take)
  BY <1>2, <1>7, <1>8, <1>9 DEF Least
<1> QED BY <1>10 DEF T, m
-----------------------------------------------------------------------------
\* allocate.

\* The number of warehouses that little stock goes to.
Taken(available, queue) == Least(Least(PriorityRegions, Len(queue)), available)

\* The front of the queue shares it, and nobody of it goes without.
Split(amounts, available, queue, K) ==
  /\ Taken(available, queue) \in 1..Cardinality(K)
  /\ DOMAIN amounts = {queue[i] : i \in 1..Taken(available, queue)}
  /\ \A w \in DOMAIN amounts : amounts[w] \in Nat /\ amounts[w] > 0
  /\ SumFunction(amounts) = available

\* Little stock is shared among the front of the queue.
LEMMA SplitIsShared ==
  ASSUME NEW K \in SUBSET Warehouses, NEW queue, Lists(queue, K), K # {},
         NEW available \in Nat, available > 0
  PROVE  Split(PrioritySplit(available, queue), available, queue, K)
<1> DEFINE n == Cardinality(K)
           take == Taken(available, queue)
           D == 1..take
           parts == LargestRemainder(available, [i \in 1..take |-> 1])
           amounts == PrioritySplit(available, queue)
<1>1. IsFiniteSet(K) /\ n \in Nat /\ n > 0
  BY DistributionAssumption, FS_Subset, FS_CardinalityType, FS_EmptySet
<1>2. /\ DOMAIN queue = 1..n /\ Len(queue) = n
      /\ \A i \in 1..n : queue[i] \in K /\ Place(queue, queue[i]) = i
      /\ \A i, j \in 1..n : queue[i] = queue[j] => i = j
  BY <1>1, ListFacts DEF Lists
<1>3. take \in 1..n /\ take <= available
  BY <1>1, <1>2, DistributionAssumption DEF Taken, Least
<1>4. /\ parts \in [D -> Nat] /\ SumFunctionOnSet(parts, D) = available
      /\ \A i \in D : parts[i] >= 1
  <2> HIDE DEF n, take
  <2>1. IsFiniteSet(1..take) /\ Cardinality(1..take) = take
    BY <1>1, <1>3, FS_Interval
  <2>2. 1..take # {} /\ \A i \in 1..take : i \in Nat
    BY <1>1, <1>3
  <2> QED BY <1>1, <1>3, <2>1, <2>2, EqualParts
<1>5. amounts = [w \in {queue[i] : i \in D} |-> parts[Place(queue, w)]]
  BY DEF PrioritySplit, Taken
<1>6. \A i \in D : i \in 1..n
  BY <1>1, <1>3
<1>7. \A i \in D : amounts[queue[i]] = parts[i]
  <2> HIDE DEF parts, amounts, D, n
  <2> QED BY <1>2, <1>5, <1>6
<1>8. DOMAIN amounts = {queue[i] : i \in D}
  BY <1>5
<1>9. \A w \in DOMAIN amounts : amounts[w] \in Nat /\ amounts[w] > 0
  <2> SUFFICES ASSUME NEW w \in DOMAIN amounts PROVE amounts[w] \in Nat /\ amounts[w] > 0
    OBVIOUS
  <2>1. PICK i \in D : w = queue[i]
    BY <1>8
  <2>2. parts[i] \in Nat /\ parts[i] >= 1
    <3> HIDE DEF parts, D
    <3> QED BY <1>4
  <2> HIDE DEF parts, amounts, D
  <2> QED BY <1>7, <2>1, <2>2
<1>10. SumFunction(amounts) = available
  <2>1. IsFiniteSet(D)
    BY <1>1, <1>3, FS_Interval
  <2>2. \A i, j \in D : queue[i] = queue[j] => i = j
    BY <1>2, <1>6
  <2>3. \A i \in D : amounts[queue[i]] \in Int /\ parts[i] = amounts[queue[i]]
    <3> HIDE DEF parts, amounts, D
    <3>1. \A i \in D : parts[i] \in Int
      BY <1>4
    <3> QED BY <1>7, <3>1
  <2>4. SumFunctionOnSet(parts, D) = SumFunctionOnSet(amounts, {queue[i] : i \in D})
    <3> HIDE DEF parts, amounts, D
    <3> QED BY <2>1, <2>2, <2>3, SumRenamed
  <2> HIDE DEF parts, amounts, D
  <2> QED BY <1>4, <1>8, <2>4, SumIsOnSet
<1> HIDE DEF amounts, take
<1> QED BY <1>3, <1>8, <1>9, <1>10 DEF amounts, take, Split

\* Everything is spread: over the regions first, inside each region then.
LEMMA SpreadIsShared ==
  ASSUME NEW K \in SUBSET Warehouses, NEW queue, Lists(queue, K), NEW available \in Nat,
         NEW sharesRead, \A w \in K : sharesRead[RegionOf[w]] \in Nat,
         SharesConfigured(queue, sharesRead)
  PROVE  LET amounts == Spread(available, queue, sharesRead) IN
         amounts \in [K -> Nat] /\ SumFunctionOnSet(amounts, K) = available
<1> DEFINE D == DOMAIN queue
           Same(i) == {j \in DOMAIN queue : RegionOf[queue[j]] = RegionOf[queue[i]]}
           FirstOf(i) == CHOOSE j \in Same(i) : \A k \in Same(i) : j <= k
           first == [i \in D |-> FirstOf(i)]
           F == {FirstOf(j) : j \in DOMAIN queue}
           weights == [i \in F |-> sharesRead[RegionOf[queue[i]]]]
           parts == LargestRemainder(available, weights)
           Inside(i) == LargestRemainder(parts[FirstOf(i)], [j \in Same(i) |-> 1])
           byPlace == [i \in D |-> Inside(i)[i]]
           amounts == Spread(available, queue, sharesRead)
<1>1. IsFiniteSet(K) /\ IsFiniteSet(D) /\ \A i \in D : i \in Nat
  <2>1. IsFiniteSet(K) /\ Cardinality(K) \in Nat /\ D = 1..Cardinality(K)
    BY DistributionAssumption, FS_Subset, FS_CardinalityType, ListFacts
  <2>2. IsFiniteSet(1..Cardinality(K))
    BY <2>1, FS_Interval
  <2> QED BY <2>1, <2>2
<1>2. /\ \A i \in D : queue[i] \in K /\ Place(queue, queue[i]) = i
      /\ \A w \in K : Place(queue, w) \in D /\ queue[Place(queue, w)] = w
      /\ Range(queue) = K
  BY <1>1, ListFacts
<1>3. \A i \in D : /\ i \in Same(i) /\ Same(i) \subseteq D /\ IsFiniteSet(Same(i))
                   /\ \A j \in Same(i) : Same(j) = Same(i)
  BY <1>1, FS_Subset
<1>4. \A i \in D : FirstOf(i) \in Same(i)
  <2> SUFFICES ASSUME NEW i \in D PROVE FirstOf(i) \in Same(i)
    OBVIOUS
  <2>1. IsFiniteSet(D) /\ D \subseteq Nat /\ Same(i) \in SUBSET D /\ Same(i) # {}
    BY <1>1, <1>3
  <2>2. \E x \in Same(i) : \A y \in Same(i) : x <= y
    <3> HIDE DEF Same, D
    <3> QED BY <2>1, SmallestExists
  <2> HIDE DEF Same
  <2> QED BY <2>2
<1>5. \A i, j \in D : j \in Same(i) => FirstOf(j) = FirstOf(i)
  <2> SUFFICES ASSUME NEW i \in D, NEW j \in D, j \in Same(i) PROVE FirstOf(j) = FirstOf(i)
    OBVIOUS
  <2>1. Same(j) = Same(i)
    BY <1>3
  <2> HIDE DEF Same
  <2> QED BY <2>1
<1>6. /\ F \subseteq D /\ IsFiniteSet(F) /\ \A k \in F : FirstOf(k) = k
  <2>1. F \subseteq D
    <3> HIDE DEF FirstOf, Same
    <3> QED BY <1>3, <1>4
  <2>2. \A k \in F : FirstOf(k) = k
    <3> SUFFICES ASSUME NEW i \in D PROVE FirstOf(FirstOf(i)) = FirstOf(i)
      <4> HIDE DEF FirstOf, Same
      <4> QED OBVIOUS
    <3>1. FirstOf(i) \in D /\ FirstOf(i) \in Same(i)
      BY <1>3, <1>4
    <3> HIDE DEF FirstOf, Same, D
    <3> QED BY <1>5, <3>1
  <2> HIDE DEF F, D
  <2> QED BY <1>1, <2>1, <2>2, FS_Subset
<1>7. weights \in [F -> Nat] /\ SumFunctionOnSet(weights, F) > 0
  <2>1. \A i \in F : weights[i] \in Nat
    <3> HIDE DEF F, D
    <3> QED BY <1>2, <1>6
  <2>2. PICK w \in K : sharesRead[RegionOf[w]] > 0
    BY <1>2 DEF SharesConfigured
  <2>3. PICK i \in D : queue[i] = w
    BY <1>2
  <2>4. FirstOf(i) \in F /\ RegionOf[queue[FirstOf(i)]] = RegionOf[w]
    <3>1. FirstOf(i) \in Same(i)
      BY <1>4
    <3>2. RegionOf[queue[FirstOf(i)]] = RegionOf[queue[i]]
      <4> HIDE DEF FirstOf
      <4> QED BY <3>1
    <3>3. FirstOf(i) \in F
      OBVIOUS
    <3> HIDE DEF FirstOf, F
    <3> QED BY <2>3, <3>2, <3>3
  <2>5. weights[FirstOf(i)] > 0
    <3> HIDE DEF FirstOf, F
    <3> QED BY <2>2, <2>4
  <2>6. weights \in [F -> Nat]
    <3> HIDE DEF F
    <3> QED BY <2>1
  <2> HIDE DEF FirstOf, F, weights
  <2> QED BY <1>6, <2>1, <2>4, <2>5, <2>6, SumPositive
<1>8. parts \in [F -> Nat] /\ SumFunctionOnSet(parts, F) = available
  <2>1. \A i \in F : i \in Nat
    <3> HIDE DEF F
    <3> QED BY <1>1, <1>6
  <2> HIDE DEF F, weights
  <2> QED BY <1>6, <1>7, <2>1, AllIsDealtOut
<1>9. ASSUME NEW i \in D
      PROVE  /\ Inside(i) \in [Same(i) -> Nat]
             /\ SumFunctionOnSet(Inside(i), Same(i)) = parts[FirstOf(i)]
  <2>1. FirstOf(i) \in F /\ parts[FirstOf(i)] \in Nat
    <3>1. FirstOf(i) \in F
      OBVIOUS
    <3> HIDE DEF FirstOf, F, parts
    <3> QED BY <1>8, <3>1
  <2>2. Same(i) # {} /\ \A j \in Same(i) : j \in Nat
    BY <1>1, <1>3
  <2>3. IsFiniteSet(Same(i))
    BY <1>3
  <2> DEFINE p == parts[FirstOf(i)]
  <2>4. p \in Nat
    BY <2>1
  <2> HIDE DEF FirstOf, F, parts, Same, p
  <2>5. LargestRemainder(p, [j \in Same(i) |-> 1]) \in [Same(i) -> Nat]
        /\ SumFunctionOnSet(LargestRemainder(p, [j \in Same(i) |-> 1]), Same(i)) = p
    BY <2>2, <2>3, <2>4, EqualParts
  <2> QED BY <2>5 DEF p
<1>10. \A i \in D : byPlace[i] = Inside(i)[i] /\ byPlace[i] \in Nat
  <2> SUFFICES ASSUME NEW i \in D PROVE Inside(i)[i] \in Nat
    OBVIOUS
  <2>1. Inside(i) \in [Same(i) -> Nat] /\ i \in Same(i)
    BY <1>3, <1>9
  <2> HIDE DEF Inside, Same
  <2> QED BY <2>1
<1>11. \A i \in D : byPlace[i] \in Nat /\ byPlace[i] \in Int
  <2>1. \A i \in D : byPlace[i] \in Nat
    BY <1>10
  <2> HIDE DEF byPlace
  <2> QED BY <2>1
<1>12. ASSUME NEW k \in F
       PROVE  SumFunctionOnSet(byPlace, {i \in D : first[i] = k}) = parts[k]
  <2>1. k \in D /\ FirstOf(k) = k
    BY <1>6
  <2>2. {i \in D : first[i] = k} = Same(k)
    <3>1. \A i \in D : first[i] = k => i \in Same(k)
      <4> SUFFICES ASSUME NEW i \in D, FirstOf(i) = k PROVE i \in Same(k)
        OBVIOUS
      <4>1. k \in Same(i)
        BY <1>4
      <4> QED BY <4>1
    <3>2. \A i \in Same(k) : i \in D /\ first[i] = k
      <4> SUFFICES ASSUME NEW i \in Same(k) PROVE i \in D /\ FirstOf(i) = k
        OBVIOUS
      <4>1. i \in D
        BY <1>3, <2>1
      <4> HIDE DEF FirstOf, Same
      <4> QED BY <1>5, <2>1, <4>1
    <3> HIDE DEF first, Same
    <3> QED BY <3>1, <3>2
  <2>3. \A i \in Same(k) : byPlace[i] = Inside(k)[i]
    <3> SUFFICES ASSUME NEW i \in Same(k) PROVE byPlace[i] = Inside(k)[i]
      OBVIOUS
    <3>1. i \in D /\ Same(i) = Same(k) /\ FirstOf(i) = FirstOf(k)
      <4>1. i \in D /\ Same(i) = Same(k)
        BY <1>3, <2>1
      <4> HIDE DEF FirstOf, Same
      <4> QED BY <1>5, <2>1, <4>1
    <3>2. byPlace[i] = Inside(i)[i]
      BY <1>10, <3>1
    <3> HIDE DEF FirstOf, Same, byPlace, parts
    <3> QED BY <3>1, <3>2
  <2>4. SumFunctionOnSet(byPlace, Same(k)) = SumFunctionOnSet(Inside(k), Same(k))
    <3>1. IsFiniteSet(Same(k))
      BY <1>3, <2>1
    <3> HIDE DEF byPlace, Same, Inside
    <3> QED BY <2>3, <3>1, SumSame
  <2>5. SumFunctionOnSet(Inside(k), Same(k)) = parts[FirstOf(k)]
    BY <1>9, <2>1
  <2> HIDE DEF byPlace, Same, Inside, FirstOf, parts, first
  <2> QED BY <2>1, <2>2, <2>4, <2>5
<1>13. SumFunctionOnSet(byPlace, D) = available
  <2> DEFINE perRegion == [k \in F |-> SumFunctionOnSet(byPlace, {i \in D : first[i] = k})]
  <2>1. \A k \in F : perRegion[k] = parts[k]
    BY <1>12
  <2>2. SumFunctionOnSet(perRegion, F) = SumFunctionOnSet(parts, F)
    <3> HIDE DEF perRegion, parts, F
    <3> QED BY <1>6, <2>1, SumSame
  <2>3. \A i \in D : byPlace[i] \in Int /\ first[i] \in F
    <3>1. \A i \in D : first[i] \in F
      OBVIOUS
    <3> HIDE DEF byPlace, first, F
    <3> QED BY <1>11, <3>1
  <2>4. SumFunctionOnSet(byPlace, D) = SumFunctionOnSet(perRegion, F)
    <3> HIDE DEF byPlace, first, F, D
    <3> QED BY <1>1, <1>6, <2>3, SumByClass
  <2> QED BY <1>8, <2>2, <2>4
<1>14. amounts = [w \in K |-> byPlace[Place(queue, w)]]
  <2>1. amounts = [w \in Range(queue) |-> Inside(Place(queue, w))[Place(queue, w)]]
    BY DEF Spread
  <2> HIDE DEF amounts, Inside, byPlace
  <2> QED BY <1>2, <1>10, <2>1
<1>15. amounts \in [K -> Nat]
  <2> HIDE DEF amounts, byPlace
  <2> QED BY <1>2, <1>10, <1>14
<1>16. SumFunctionOnSet(amounts, K) = available
  <2>1. \A i \in D : amounts[queue[i]] \in Int /\ byPlace[i] = amounts[queue[i]]
    <3> HIDE DEF amounts, byPlace
    <3> QED BY <1>2, <1>11, <1>14
  <2>2. \A i, j \in D : queue[i] = queue[j] => i = j
    BY <1>2
  <2>3. {queue[i] : i \in D} = K
    BY <1>2
  <2>4. SumFunctionOnSet(byPlace, D) = SumFunctionOnSet(amounts, {queue[i] : i \in D})
    <3> HIDE DEF amounts, byPlace, D
    <3> QED BY <1>1, <2>1, <2>2, SumRenamed
  <2> HIDE DEF amounts, byPlace
  <2> QED BY <1>13, <2>3, <2>4
<1> QED BY <1>15, <1>16
-----------------------------------------------------------------------------
\* _raise_zeros_to_one.

\* RaiseZerosToOne lifts with the function that its definition chooses.
Lift(queue, w, now) == [now EXCEPT ![Donor(now, queue)] = @ - 1, ![w] = 1]

Lifts(amounts, queue, S, g) ==
  g = [s \in SUBSET S |-> IF s = {} THEN amounts
                          ELSE Lift(queue, First(s), g[s \ {First(s)}])]

Lifter(amounts, queue, S) == CHOOSE g : Lifts(amounts, queue, S, g)

Zeros(amounts) == {w \in DOMAIN amounts : amounts[w] = 0}

\* What is raised is what that function gives for all the zeros.
LEMMA RaiseIsLifters ==
  ASSUME NEW amounts, NEW queue
  PROVE  RaiseZerosToOne(amounts, queue) =
           Lifter(amounts, queue, Zeros(amounts))[Zeros(amounts)]
BY DEF RaiseZerosToOne, FoldSet, MapThenFoldSet, Lifter, Lifts, Lift, First, Zeros

\* As for sums: there is at most one such function.
LEMMA LiftsOnce ==
  ASSUME NEW a, NEW queue, NEW S, IsFiniteSet(S), NEW g, NEW h, Lifts(a, queue, S, g),
         NEW R, S \subseteq R, Lifts(a, queue, R, h)
  PROVE  \A T \in SUBSET S : g[T] = h[T]
<1> DEFINE G == {T \in SUBSET S : g[T] = h[T]}
<1>1. ASSUME NEW T \in SUBSET S, \A U \in SUBSET T : U # T => U \in G PROVE T \in G
  <2>1. T \in SUBSET R
    OBVIOUS
  <2>2. g[T] = IF T = {} THEN a ELSE Lift(queue, First(T), g[T \ {First(T)}])
    BY DEF Lifts
  <2>3. h[T] = IF T = {} THEN a ELSE Lift(queue, First(T), h[T \ {First(T)}])
    BY <2>1 DEF Lifts
  <2>4. T # {} => g[T \ {First(T)}] = h[T \ {First(T)}]
    <3> SUFFICES ASSUME T # {} PROVE T \ {First(T)} \in G
      OBVIOUS
    <3>1. First(T) \in T
      BY DEF First
    <3> QED BY <1>1, <3>1
  <2> QED BY <2>2, <2>3, <2>4
<1>2. \A T \in SUBSET S : T \in G
  <2> HIDE DEF G
  <2> QED BY <1>1, SubsetInduction
<1> QED BY <1>2

\* There is one.
LEMMA LifterLifts ==
  ASSUME NEW a, NEW queue, NEW S, IsFiniteSet(S)
  PROVE  Lifts(a, queue, S, Lifter(a, queue, S))
<1> DEFINE G == {T \in SUBSET S : \E g : Lifts(a, queue, T, g)}
<1>1. ASSUME NEW T \in SUBSET S, \A U \in SUBSET T : U # T => U \in G PROVE T \in G
  <2> DEFINE Of(s) == Lifter(a, queue, s)
             V(s) == IF s = {} THEN a
                     ELSE Lift(queue, First(s), Of(s \ {First(s)})[s \ {First(s)}])
             g == [s \in SUBSET T |-> V(s)]
  <2>1. ASSUME NEW U \in SUBSET T, U # T PROVE Lifts(a, queue, U, Of(U))
    BY <1>1, <2>1 DEF Lifter
  <2>2. ASSUME NEW U \in SUBSET T, U # T PROVE g[U] = Of(U)[U]
    <3>1. Of(U)[U] = IF U = {} THEN a ELSE Lift(queue, First(U), Of(U)[U \ {First(U)}])
      BY <2>1, <2>2 DEF Lifts
    <3>2. ASSUME U # {}
          PROVE  Of(U)[U \ {First(U)}] = Of(U \ {First(U)})[U \ {First(U)}]
      <4> DEFINE W == U \ {First(U)}
      <4>1. W \in SUBSET T /\ W # T /\ W \subseteq U
        BY <2>2
      <4>2. Lifts(a, queue, W, Of(W)) /\ Lifts(a, queue, U, Of(U))
        BY <2>1, <2>2, <4>1
      <4>3. IsFiniteSet(W)
        BY <4>1, FS_Subset
      <4> QED BY <4>1, <4>2, <4>3, LiftsOnce
    <3> QED BY <3>1, <3>2
  <2>3. ASSUME NEW s \in SUBSET T
        PROVE  g[s] = IF s = {} THEN a ELSE Lift(queue, First(s), g[s \ {First(s)}])
    <3>1. g[s] = V(s)
      OBVIOUS
    <3>2. s # {} => First(s) \in s
      BY DEF First
    <3>3. s # {} => g[s \ {First(s)}] = Of(s \ {First(s)})[s \ {First(s)}]
      BY <2>2, <3>2
    <3> HIDE DEF g
    <3> QED BY <3>1, <3>3
  <2>4. g = [s \in SUBSET T |-> IF s = {} THEN a
                                ELSE Lift(queue, First(s), g[s \ {First(s)}])]
    <3>1. g = [s \in SUBSET T |-> g[s]]
      OBVIOUS
    <3> HIDE DEF g
    <3> QED BY <2>3, <3>1
  <2>5. Lifts(a, queue, T, g)
    <3> HIDE DEF g
    <3> QED BY <2>4 DEF Lifts
  <2> QED BY <2>5
<1>2. S \in G
  <2> HIDE DEF G
  <2> QED BY <1>1, SubsetInduction
<1> QED BY <1>2 DEF Lifter

\* There is always a donor: the one behind whom all others come.
LEMMA DonorExists ==
  ASSUME NEW K, IsFiniteSet(K), K # {}, NEW queue, Lists(queue, K), NEW now \in [K -> Nat]
  PROVE  /\ Donor(now, queue) \in K
         /\ \A v \in K : now[v] <= now[Donor(now, queue)]
<1> DEFINE Less(v, w) == now[v] < now[w]
                         \/ (now[v] = now[w] /\ Place(queue, v) < Place(queue, w))
           ahead == [w \in K |-> {v \in K : Less(v, w)}]
           n == Cardinality(K)
<1>1. n \in Nat /\ n > 0
  BY FS_CardinalityType, FS_EmptySet
<1>2. \A v, w \in K : /\ now[v] \in Nat /\ Place(queue, v) \in Nat
                      /\ Place(queue, v) = Place(queue, w) => v = w
  BY ListFacts
<1>3. InOneLine(ahead, K)
  BY <1>2 DEF InOneLine
<1>4. PICK d \in K : Cardinality(ahead[d]) = n - 1
  <2>1. n - 1 \in 0..n - 1
    BY <1>1
  <2> HIDE DEF ahead
  <2> QED BY <1>3, <2>1, RanksFill
<1>5. \A v \in K \ {d} : v \in ahead[d]
  <2> HIDE DEF ahead
  <2>1. \A v \in K : /\ Cardinality(ahead[v]) \in 0..n - 1
                     /\ v \in ahead[d] <=> Cardinality(ahead[v]) < Cardinality(ahead[d])
                     /\ Cardinality(ahead[v]) = Cardinality(ahead[d]) => v = d
    BY <1>3, RanksGrow
  <2> QED BY <1>1, <1>4, <2>1
<1>6. \E w \in K : \A v \in K \ {w} : Less(v, w)
  BY <1>5
<1>7. Donor(now, queue) = CHOOSE w \in K : \A v \in K \ {w} : Less(v, w)
  BY DEF Donor
<1>8. Donor(now, queue) \in K /\ \A v \in K \ {Donor(now, queue)} : Less(v, Donor(now, queue))
  <2> HIDE DEF Less
  <2> QED BY <1>6, <1>7
<1> QED BY <1>2, <1>8

\* With a unit for each warehouse, the donor of a zero has two at least.
LEMMA DonorCanGive ==
  ASSUME NEW K, IsFiniteSet(K), NEW queue, Lists(queue, K), NEW now \in [K -> Nat],
         SumFunctionOnSet(now, K) >= Cardinality(K), NEW x \in K, now[x] = 0
  PROVE  /\ Donor(now, queue) \in K /\ Donor(now, queue) # x
         /\ now[Donor(now, queue)] >= 2
<1> DEFINE d == Donor(now, queue)
           ones == [w \in K |-> 1]
<1>1. d \in K /\ \A v \in K : now[v] <= now[d]
  BY DonorExists
<1>2. Cardinality(K) \in Nat
  BY FS_CardinalityType
<1>3. now[d] >= 2
  <2> SUFFICES ASSUME \A v \in K : now[v] <= 1 PROVE FALSE
    <3> HIDE DEF d
    <3> QED BY <1>1
  <2>1. \A v \in K : now[v] \in Int /\ ones[v] \in Int /\ now[v] <= ones[v] /\ ones[v] = 1
    OBVIOUS
  <2>2. SumFunctionOnSet(ones, K) = Cardinality(K)
    BY SumOfOnes
  <2> HIDE DEF ones
  <2>3. /\ SumFunctionOnSet(now, K) = now[x] + SumFunctionOnSet(now, K \ {x})
        /\ SumFunctionOnSet(ones, K) = ones[x] + SumFunctionOnSet(ones, K \ {x})
    BY <2>1, SumTake
  <2>4. SumFunctionOnSet(now, K \ {x}) <= SumFunctionOnSet(ones, K \ {x})
    <3>1. IsFiniteSet(K \ {x}) /\ \A v \in K \ {x} : v \in K
      BY FS_Subset
    <3> QED BY <2>1, <3>1, SumAtMost
  <2>5. /\ SumFunctionOnSet(now, K \ {x}) \in Int
        /\ SumFunctionOnSet(ones, K \ {x}) \in Int
    BY <2>1, SumInt
  <2>6. ones[x] = 1
    BY <2>1
  <2> QED BY <1>2, <2>2, <2>3, <2>4, <2>5, <2>6
<1> HIDE DEF d
<1>4. d # x
  BY <1>3
<1> QED BY <1>1, <1>3, <1>4 DEF d

\* _raise_zeros_to_one, for any amounts with a unit for each warehouse: a donor is always
\* found, nothing is lost, and no warehouse is left or made empty.
THEOREM RaiseLeavesNoZero ==
  ASSUME NEW K, IsFiniteSet(K), NEW queue, Lists(queue, K), NEW amounts \in [K -> Nat],
         SumFunctionOnSet(amounts, K) >= Cardinality(K)
  PROVE  LET raised == RaiseZerosToOne(amounts, queue) IN
         /\ raised \in [K -> Nat] /\ \A w \in K : raised[w] >= 1
         /\ SumFunctionOnSet(raised, K) = SumFunctionOnSet(amounts, K)
<1> DEFINE Z == Zeros(amounts)
           g == Lifter(amounts, queue, Z)
           Good(s, v) == /\ v \in [K -> Nat]
                         /\ SumFunctionOnSet(v, K) = SumFunctionOnSet(amounts, K)
                         /\ \A w \in K : IF w \in Z \ s THEN v[w] = 0 ELSE v[w] >= 1
           G == {s \in SUBSET Z : Good(s, g[s])}
<1>1. Z \in SUBSET K /\ IsFiniteSet(Z)
  BY FS_Subset DEF Zeros
<1>2. \A s \in SUBSET Z : g[s] = IF s = {} THEN amounts
                                 ELSE Lift(queue, First(s), g[s \ {First(s)}])
  <2>1. Lifts(amounts, queue, Z, g)
    <3> HIDE DEF Z
    <3> QED BY <1>1, LifterLifts
  <2> HIDE DEF g, Z
  <2> QED BY <2>1 DEF Lifts
<1>3. ASSUME NEW s \in SUBSET Z, \A r \in SUBSET s : r # s => r \in G PROVE s \in G
  <2>1. CASE s = {}
    <3>1. g[s] = amounts
      BY <1>2, <2>1
    <3>2. \A w \in K : IF w \in Z THEN amounts[w] = 0 ELSE amounts[w] >= 1
      BY DEF Zeros
    <3>3. Good(s, amounts)
      <4> HIDE DEF Z
      <4> QED BY <2>1, <3>2
    <3> HIDE DEF Good, g, Z
    <3> QED BY <3>1, <3>3
  <2>2. CASE s # {}
    <3> DEFINE x == First(s)
               v == g[s \ {x}]
               d == Donor(v, queue)
               u == [v EXCEPT ![d] = @ - 1, ![x] = 1]
    <3>1. x \in s /\ x \in K /\ x \in Z
      BY <1>1, <2>2 DEF First
    <3>2. Good(s \ {x}, v)
      <4>1. s \ {x} \in G
        <5> HIDE DEF G
        <5> QED BY <1>3, <3>1
      <4> HIDE DEF Good, g, Z, x
      <4> QED BY <4>1
    <3>3. g[s] = u
      BY <1>2, <2>2 DEF Lift
    <3> HIDE DEF x, v, u, d, g, Z
    <3>4. /\ v \in [K -> Nat] /\ SumFunctionOnSet(v, K) = SumFunctionOnSet(amounts, K)
          /\ v[x] = 0
          /\ \A w \in K : IF w \in Z \ (s \ {x}) THEN v[w] = 0 ELSE v[w] >= 1
      BY <3>1, <3>2
    <3>5. d \in K /\ d # x /\ v[d] >= 2
      BY <3>1, <3>4, DonorCanGive DEF d
    <3>6. /\ u \in [K -> Nat] /\ SumFunctionOnSet(u, K) = SumFunctionOnSet(v, K)
      <4>1. u \in [K -> Nat]
        BY <3>1, <3>4, <3>5 DEF u
      <4>2. u[d] = v[d] - 1 /\ u[x] = v[x] + 1 /\ \A w \in K \ {d, x} : u[w] = v[w]
        BY <3>1, <3>4, <3>5 DEF u
      <4>3. \A w \in K : v[w] \in Int /\ u[w] \in Int
        BY <3>4, <4>1
      <4> QED BY <3>1, <3>5, <4>1, <4>2, <4>3, UnitMoves
    <3>7. \A w \in K : IF w \in Z \ s THEN u[w] = 0 ELSE u[w] >= 1
      <4> SUFFICES ASSUME NEW w \in K PROVE IF w \in Z \ s THEN u[w] = 0 ELSE u[w] >= 1
        OBVIOUS
      <4>1. u[w] = IF w = x THEN 1 ELSE IF w = d THEN v[w] - 1 ELSE v[w]
        BY <3>1, <3>4, <3>5 DEF u
      <4>2. d \notin Z \ (s \ {x})
        BY <3>4, <3>5
      <4> QED BY <3>1, <3>4, <3>5, <4>1, <4>2
    <3>8. Good(s, u)
      BY <3>4, <3>6, <3>7
    <3> HIDE DEF Good
    <3> QED BY <3>3, <3>8
  <2> QED BY <2>1, <2>2
<1>4. Z \in G
  <2> HIDE DEF G, Z
  <2> QED BY <1>1, <1>3, SubsetInduction
<1>5. Good(Z, g[Z])
  BY <1>4
<1>6. RaiseZerosToOne(amounts, queue) = g[Z]
  BY RaiseIsLifters
<1> HIDE DEF g, Z
<1> QED BY <1>5, <1>6
-----------------------------------------------------------------------------
\* build.

\* The amounts of a plan that holds the item.
Spends(amounts, available, queue) ==
  /\ available > 0 /\ SumFunction(amounts) = available
  /\ \A w \in DOMAIN amounts : amounts[w] \in Nat /\ amounts[w] > 0
  /\ DOMAIN amounts \subseteq Range(queue)
  /\ available >= Len(queue) => DOMAIN amounts = Range(queue)
  /\ available < Len(queue) => amounts = PrioritySplit(available, queue)

\* What allocate gives out, whatever the shares of the regions are.
LEMMA AllocationSpends ==
  ASSUME NEW K \in SUBSET Warehouses, NEW queue, Lists(queue, K), NEW available \in Nat,
         NEW sharesRead \in RegionShares, NEW amounts,
         amounts = Allocate(available, queue, sharesRead), amounts # Nobody
  PROVE  Spends(amounts, available, queue)
<1>1. /\ IsFiniteSet(K) /\ Cardinality(K) \in Nat /\ queue \in Seq(K)
      /\ Len(queue) = Cardinality(K) /\ Range(queue) = K /\ DOMAIN queue = 1..Cardinality(K)
  BY DistributionAssumption, FS_Subset, ListFacts
<1>2. available > 0 /\ queue # <<>>
  BY DEF Allocate
<1>3. K # {}
  <2>1. Len(queue) # 0
    BY <1>1, <1>2
  <2> QED BY <1>1, <2>1, FS_EmptySet
<1>4. CASE available < Len(queue)
  <2>1. amounts = PrioritySplit(available, queue)
    BY <1>2, <1>4 DEF Allocate
  <2>2. /\ Taken(available, queue) \in 1..Cardinality(K)
        /\ DOMAIN amounts = {queue[i] : i \in 1..Taken(available, queue)}
        /\ \A w \in DOMAIN amounts : amounts[w] \in Nat /\ amounts[w] > 0
        /\ SumFunction(amounts) = available
    <3>1. Split(PrioritySplit(available, queue), available, queue, K)
      BY <1>2, <1>3, SplitIsShared
    <3> QED BY <2>1, <3>1 DEF Split
  <2>3. DOMAIN amounts \subseteq K
    <3>1. \A i \in 1..Taken(available, queue) : i \in 1..Cardinality(K)
      BY <1>1, <2>2
    <3>2. \A i \in 1..Cardinality(K) : queue[i] \in K
      BY DEF Lists
    <3> QED BY <2>2, <3>1, <3>2
  <2> QED BY <1>1, <1>2, <1>4, <2>1, <2>2, <2>3 DEF Spends
<1>5. CASE ~(available < Len(queue))
  <2> DEFINE spread == Spread(available, queue, sharesRead)
  <2>1. SharesConfigured(queue, sharesRead) /\ amounts = RaiseZerosToOne(spread, queue)
    BY <1>2, <1>5 DEF Allocate, FullCoverage
  <2>2. \A w \in K : sharesRead[RegionOf[w]] \in Nat
    <3> SUFFICES ASSUME NEW w \in K PROVE sharesRead[RegionOf[w]] \in Nat
      OBVIOUS
    <3>1. RegionOf[w] \in Regions /\ sharesRead \in [Regions -> 0..BasisPoints]
      BY DistributionAssumption DEF Regions
    <3> QED BY <3>1
  <2>3. spread \in [K -> Nat] /\ SumFunctionOnSet(spread, K) = available
    BY <2>1, <2>2, SpreadIsShared
  <2>4. SumFunctionOnSet(spread, K) >= Cardinality(K)
    BY <1>1, <1>5, <2>3
  <2> HIDE DEF spread
  <2>5. /\ amounts \in [K -> Nat] /\ \A w \in K : amounts[w] >= 1
        /\ SumFunctionOnSet(amounts, K) = available
    BY <1>1, <2>1, <2>3, <2>4, RaiseLeavesNoZero
  <2>6. SumFunction(amounts) = available
    BY <2>5, SumIsOnSet
  <2>7. DOMAIN amounts = K /\ \A w \in K : amounts[w] \in Nat /\ amounts[w] > 0
    BY <2>5
  <2> QED BY <1>1, <1>2, <1>5, <2>6, <2>7 DEF Spends
<1> QED BY <1>4, <1>5

\* Little stock is split over the regions while nobody has left the queue.
LEMMA SplitSpreads ==
  ASSUME NEW K \in SUBSET Warehouses, K # {}, NEW n \in Nat, n > 0
  PROVE  Cardinality({RegionOf[w] : w \in DOMAIN PrioritySplit(n, PriorityOrder(K, K))}) =
           Least(Cardinality({RegionOf[w] : w \in K}), Least(PriorityRegions, n))
<1> DEFINE queue == PriorityOrder(K, K)
           take == Taken(n, queue)
           reachable == Cardinality({RegionOf[w] : w \in K})
<1>1. IsFiniteSet(K) /\ Cardinality(K) \in Nat
  BY DistributionAssumption, FS_Subset, FS_CardinalityType
<1>2. Lists(queue, K) /\ Len(queue) = Cardinality(K)
  BY <1>1, QueueLists, ListFacts
<1>3. take \in 1..Cardinality(K) /\ DOMAIN PrioritySplit(n, queue) = {queue[i] : i \in 1..take}
  <2> HIDE DEF queue
  <2>1. Split(PrioritySplit(n, queue), n, queue, K)
    BY <1>2, SplitIsShared
  <2> QED BY <2>1 DEF Split
<1>4. reachable \in Nat /\ reachable <= Cardinality(K)
  BY <1>1, ImageSize, FS_CardinalityType
<1>5. Cardinality({RegionOf[w] : w \in {queue[i] : i \in 1..take}}) = Least(reachable, take)
  <2>1. take \in 0..Cardinality(K)
    BY <1>1, <1>3
  <2> HIDE DEF take
  <2> QED BY <2>1, FrontSpreads
<1>6. Least(reachable, take) = Least(reachable, Least(PriorityRegions, n))
  <2> HIDE DEF reachable, queue
  <2> QED BY <1>1, <1>2, <1>4, DistributionAssumption DEF Taken, Least
<1> HIDE DEF take, queue, reachable
<1> QED BY <1>3, <1>5, <1>6 DEF queue, reachable

\* What a pool gives out is a count.
LEMMA UnitsAreCounted ==
  ASSUME NEW onHand \in Nat
  PROVE  AvailableUnits(onHand) \in Nat
BY DistributionAssumption DEF AvailableUnits, Least

\* The parts of a whole rule, rounded down, are no more than the pool gives out.
LEMMA PartsFit ==
  ASSUME NEW T \in SUBSET Sellers, NEW f, Counts(f, Sellers), SumFunction(f) = BasisPoints,
         NEW units \in Nat, NEW part,
         \A c \in T : part[c] \in Nat /\ part[c] <= (units * Wanted(f, c)) \div BasisPoints
  PROVE  SumFunctionOnSet(part, T) <= units
<1> DEFINE b == BasisPoints
           D == DOMAIN f
           w == [c \in T |-> Wanted(f, c)]
           bp == [c \in T |-> b * part[c]]
           uw == [c \in T |-> units * w[c]]
<1>1. /\ IsFiniteSet(T) /\ IsFiniteSet(D) /\ IsFiniteSet(T \cap D) /\ b \in Nat /\ b > 0
      /\ \A c \in D : f[c] \in Nat
  BY DistributionAssumption, FS_Subset DEF Counts
<1>2. \A c \in T : w[c] \in Nat /\ w[c] = IF c \in D THEN f[c] ELSE 0
  BY <1>1 DEF Wanted
<1>3. SumFunctionOnSet(w, T) <= b
  <2>1. SumFunctionOnSet(w, T) = SumFunctionOnSet(w, T \cap D)
    <3>1. T \cap D \in SUBSET T
      OBVIOUS
    <3>2. /\ \A c \in T \cap D : w[c] \in Int
          /\ \A c \in T \ (T \cap D) : w[c] = 0
      <4> HIDE DEF w, D
      <4> QED BY <1>2
    <3> HIDE DEF w, D
    <3> QED BY <1>1, <3>1, <3>2, SumWithoutZeros
  <2>2. SumFunctionOnSet(w, T \cap D) = SumFunctionOnSet(f, T \cap D)
    <3>1. \A c \in T \cap D : w[c] = f[c]
      <4> HIDE DEF w, D
      <4> QED BY <1>2
    <3> HIDE DEF w, D
    <3> QED BY <1>1, <3>1, SumSame
  <2>3. SumFunctionOnSet(f, T \cap D) <= SumFunctionOnSet(f, D)
    <3>1. T \cap D \in SUBSET D
      OBVIOUS
    <3> HIDE DEF D
    <3> QED BY <1>1, <3>1, SumOfPart
  <2>4. SumFunctionOnSet(f, D) = b
    BY SumIsOnSet
  <2> QED BY <2>1, <2>2, <2>3, <2>4
<1>4. ASSUME NEW c \in T
      PROVE  bp[c] \in Int /\ uw[c] \in Int /\ bp[c] <= uw[c]
  <2>1. w[c] \in Nat /\ w[c] = Wanted(f, c)
    BY <1>2
  <2> DEFINE a == units * w[c]
  <2>2. a \in Nat
    BY <2>1
  <2>3. part[c] \in Nat /\ part[c] <= a \div b
    BY <2>1
  <2>4. bp[c] = b * part[c] /\ uw[c] = a
    OBVIOUS
  <2> HIDE DEF a, b, bp, uw
  <2>5. a \div b \in Nat /\ (a % b) \in 0..b - 1 /\ a = b * (a \div b) + (a % b)
    BY <1>1, <2>2, Division
  <2>6. b * part[c] <= b * (a \div b)
    BY <1>1, <2>3, <2>5, FactorAtMost
  <2>7. b * part[c] \in Int /\ b * (a \div b) \in Int
    BY <1>1, <2>3, <2>5
  <2> QED BY <1>1, <2>2, <2>4, <2>5, <2>6, <2>7
<1>5. SumFunctionOnSet(bp, T) <= SumFunctionOnSet(uw, T)
  <2> HIDE DEF bp, uw
  <2> QED BY <1>1, <1>4, SumAtMost
<1>6. SumFunctionOnSet(bp, T) = b * SumFunctionOnSet(part, T)
  <2>1. \A c \in T : part[c] \in Int /\ bp[c] = b * part[c]
    OBVIOUS
  <2>2. b \in Int
    BY <1>1
  <2> HIDE DEF bp, b
  <2> QED BY <1>1, <2>1, <2>2, SumTimes
<1>7. SumFunctionOnSet(uw, T) = units * SumFunctionOnSet(w, T)
  <2>1. \A c \in T : w[c] \in Int /\ uw[c] = units * w[c]
    BY <1>2
  <2> HIDE DEF uw, w
  <2> QED BY <1>1, <2>1, SumTimes
<1>8. SumFunctionOnSet(part, T) \in Int /\ SumFunctionOnSet(w, T) \in Int
  <2>1. \A c \in T : part[c] \in Int /\ w[c] \in Int
    BY <1>2
  <2> HIDE DEF w
  <2> QED BY <1>1, <2>1, SumInt
<1>9. units * SumFunctionOnSet(w, T) <= units * b
  <2> HIDE DEF w, b
  <2> QED BY <1>1, <1>3, <1>8
<1> HIDE DEF w, b, bp, uw
<1>10. b * SumFunctionOnSet(part, T) <= units * b
  <2>1. /\ b * SumFunctionOnSet(part, T) \in Int /\ units * SumFunctionOnSet(w, T) \in Int
        /\ units * b \in Int
    BY <1>1, <1>8
  <2>2. b * SumFunctionOnSet(part, T) <= units * SumFunctionOnSet(w, T)
    BY <1>5, <1>6, <1>7
  <2> QED BY <1>9, <2>1, <2>2
<1> QED BY <1>1, <1>8, <1>10, Cancels
-----------------------------------------------------------------------------
\* publish and confirm_published.

\* What the publications are made of.
Stock(f) == f = [s \in Sellers |-> [w \in Warehouses |-> f[s][w]]]

Publication(q) ==
  /\ q = [job |-> "publish", seller |-> q.seller, pc |-> q.pc, desired |-> q.desired,
          todo |-> q.todo, actual |-> q.actual, verified |-> q.verified]
  /\ q.seller \in Sellers /\ q.todo \in SUBSET Warehouses
  /\ q.pc # "write" => q.todo # {}

Shapes ==
  /\ Stock(published) /\ Stock(wb)
  /\ DOMAIN request = Requests
  /\ \A r \in Requests : request[r].job = "publish" => Publication(request[r])

\* Of a cabinet whose publications never overlapped one runs at most.
OneAtATime == \A s \in Sellers \ overlapped : \A q, r \in Publishing(s) : q = r

\* What was read is still what Wildberries shows when it is committed.
ReadingHolds ==
  \A s \in Sellers \ overlapped : \A r \in Publishing(s) :
    request[r].pc = "confirm" /\ <<s, At(r)>> \notin disturbed
    => request[r].actual = wb[s][At(r)]

\* The warehouses a verified publication is through with show its plan.
ThroughIsWanted ==
  \A s \in Sellers \ overlapped : \A r \in Publishing(s) :
    request[r].verified =>
      \A w \in Warehouses \ request[r].todo :
        <<s, w>> \notin disturbed => wb[s][w] = Wanted(request[r].desired, w)

IInv == Shapes /\ OneAtATime /\ ReadingHolds /\ MemoryIsWildberries /\ ThroughIsWanted
-----------------------------------------------------------------------------
\* A nonempty set of warehouses has a first one.
LEMMA FirstExists ==
  ASSUME NEW T \in SUBSET Warehouses, T # {}
  PROVE  \E w \in T : \A v \in T : w <= v
BY DistributionAssumption, SmallestExists

\* A publication that is at a warehouse has it among those to do.
LEMMA AtIsToDo ==
  ASSUME NEW r \in Requests, request[r].todo \in SUBSET Warehouses, request[r].todo # {}
  PROVE  At(r) \in request[r].todo
BY FirstExists DEF At

\* A changed amount is the only one that changes.
LEMMA OneAmountChanges ==
  ASSUME NEW f, Stock(f), NEW s \in Sellers, NEW w, NEW n
  PROVE  /\ Stock(Write(f, s, w, n))
         /\ \A t \in Sellers, v \in Warehouses :
              Write(f, s, w, n)[t][v] = IF t = s /\ v = w THEN n ELSE f[t][v]
BY DEF Stock, Write
-----------------------------------------------------------------------------
\* Initially nothing is published and Wildberries shows nothing.
LEMMA InitHolds == Init => IInv
<1> SUFFICES ASSUME Init PROVE IInv
  OBVIOUS
<1>1. Shapes
  BY DEF Init, Shapes, Stock, Idle
<1>2. \A s \in Sellers : Publishing(s) = {}
  BY DEF Init, Publishing, Idle
<1>3. wb = published
  BY DEF Init
<1> QED BY <1>1, <1>2, <1>3
        DEF IInv, OneAtATime, ReadingHolds, MemoryIsWildberries, ThroughIsWanted

\* Steps that leave the amounts and the publications alone.
LEMMA ElsewhereKeeps ==
  ASSUME IInv, UNCHANGED <<published, wb, request, disturbed, overlapped>>
  PROVE  IInv'
BY DEF IInv, Shapes, OneAtATime, ReadingHolds, MemoryIsWildberries, ThroughIsWanted,
       Publishing, At

\* PurgeSeller: every pair of the cabinet counts as disturbed.
LEMMA PurgeKeeps ==
  ASSUME IInv, NEW s \in Sellers, PurgeSeller(s)
  PROVE  IInv'
<1>1. /\ published' = [published EXCEPT ![s] = [w \in Warehouses |-> 0]]
      /\ disturbed' = disturbed \cup {<<s, w>> : w \in Warehouses}
      /\ UNCHANGED <<wb, request, overlapped>>
  BY DEF PurgeSeller, Edit
<1>2. Stock(published') /\ \A t \in Sellers \ {s} : published'[t] = published[t]
  BY <1>1 DEF IInv, Shapes, Stock
<1>3. Shapes'
  BY <1>1, <1>2 DEF IInv, Shapes, Stock
<1>4. \A t : Publishing(t)' = Publishing(t)
  BY <1>1 DEF Publishing
<1>5. \A r : At(r)' = At(r)
  BY <1>1 DEF At
<1>6. OneAtATime' /\ ReadingHolds' /\ ThroughIsWanted'
  BY <1>1, <1>4, <1>5 DEF IInv, OneAtATime, ReadingHolds, ThroughIsWanted
<1>7. MemoryIsWildberries'
  BY <1>1, <1>2, <1>4, <1>5 DEF IInv, MemoryIsWildberries
<1> QED BY <1>3, <1>6, <1>7 DEF IInv

\* Order: the pair counts as disturbed.
LEMMA OrderKeeps ==
  ASSUME IInv, NEW s \in Sellers, NEW w \in Warehouses, Order(s, w)
  PROVE  IInv'
<1>1. /\ wb' = Write(wb, s, w, wb[s][w] - 1) /\ disturbed' = disturbed \cup {<<s, w>>}
      /\ UNCHANGED <<published, request, overlapped>>
  BY DEF Order
<1>2. Stock(wb') /\ \A t \in Sellers, v \in Warehouses :
                      <<t, v>> \notin disturbed' => wb'[t][v] = wb[t][v]
  BY <1>1, OneAmountChanges DEF IInv, Shapes
<1>3. Shapes'
  BY <1>1, <1>2 DEF IInv, Shapes, Stock
<1>4. \A t : Publishing(t)' = Publishing(t)
  BY <1>1 DEF Publishing
<1>5. \A r : At(r)' = At(r)
  BY <1>1 DEF At
<1>6. OneAtATime'
  BY <1>1, <1>4 DEF IInv, OneAtATime
<1>7. MemoryIsWildberries' /\ ThroughIsWanted'
  BY <1>1, <1>2, <1>4, <1>5 DEF IInv, MemoryIsWildberries, ThroughIsWanted
<1>8. ReadingHolds'
  <2>1. ASSUME NEW t \in Sellers \ overlapped, NEW r \in Publishing(t), request[r].pc = "confirm"
        PROVE  At(r) \in Warehouses
    <3>1. Publication(request[r]) /\ r \in Requests
      BY DEF IInv, Shapes, Publishing
    <3> QED BY <2>1, <3>1, AtIsToDo DEF Publication
  <2> QED BY <1>1, <1>2, <1>4, <1>5, <2>1 DEF IInv, ReadingHolds
<1> QED BY <1>3, <1>6, <1>7, <1>8 DEF IInv
-----------------------------------------------------------------------------
\* The three parts of the invariant, for the only publication of a cabinet.
Local(r, s) ==
  /\ request[r].pc = "confirm" /\ <<s, At(r)>> \notin disturbed
     => request[r].actual = wb[s][At(r)]
  /\ \A w \in Warehouses :
       <<s, w>> \notin disturbed /\ ~(request[r].pc = "confirm" /\ At(r) = w)
       => published[s][w] = wb[s][w]
  /\ request[r].verified =>
       \A w \in Warehouses \ request[r].todo :
         <<s, w>> \notin disturbed => wb[s][w] = Wanted(request[r].desired, w)

\* The only publication of a cabinet has its part of the invariant.
LEMMA LocalHolds ==
  ASSUME IInv, NEW s \in Sellers \ overlapped, NEW r \in Publishing(s)
  PROVE  Local(r, s)
<1>1. \A q \in Publishing(s) : q = r
  BY DEF IInv, OneAtATime
<1> QED BY <1>1 DEF IInv, ReadingHolds, MemoryIsWildberries, ThroughIsWanted, Local

\* A step of one publication keeps the invariant if it keeps its own part of it.
LEMMA StepKeeps ==
  ASSUME IInv, NEW r \in Requests, NEW s \in Sellers, r \in Publishing(s),
         NEW q, request' = [request EXCEPT ![r] = q], Publication(q), q.seller = s,
         overlapped' = overlapped, Stock(wb'), Stock(published'),
         \A t \in Sellers \ {s} : wb'[t] = wb[t] /\ published'[t] = published[t],
         \A t \in Sellers \ {s} : \A w : <<t, w>> \in disturbed' <=> <<t, w>> \in disturbed,
         s \notin overlapped => Local(r, s)'
  PROVE  IInv'
<1>1. request'[r] = q /\ \A o \in Requests \ {r} : request'[o] = request[o]
  BY DEF IInv, Shapes
<1>2. q.job = "publish"
  BY DEF Publication
<1>3. Shapes'
  BY <1>1 DEF IInv, Shapes, Stock, Publication
<1>4. \A t : Publishing(t)' = Publishing(t)
  BY <1>1, <1>2 DEF Publishing
<1>5. \A o \in Requests \ {r} : At(o)' = At(o)
  BY <1>1 DEF At
<1>6. OneAtATime'
  BY <1>4 DEF IInv, OneAtATime
<1>7. \A t \in Sellers \ {s} : \A o \in Publishing(t) : o \in Requests \ {r}
  BY DEF Publishing
<1>8. ReadingHolds'
  <2>1. ASSUME NEW t \in Sellers \ overlapped, NEW o \in Publishing(t),
               request'[o].pc = "confirm", <<t, At(o)'>> \notin disturbed'
        PROVE  request'[o].actual = wb'[t][At(o)']
    <3>1. CASE t = s
      <4>1. o = r
        BY <3>1 DEF IInv, OneAtATime
      <4> QED BY <2>1, <3>1, <4>1 DEF Local
    <3>2. CASE t # s
      BY <1>1, <1>5, <1>7, <2>1, <3>2 DEF IInv, ReadingHolds
    <3> QED BY <3>1, <3>2
  <2> QED BY <1>4, <2>1 DEF ReadingHolds
<1>9. MemoryIsWildberries'
  <2>1. ASSUME NEW t \in Sellers \ overlapped, NEW w \in Warehouses,
               <<t, w>> \notin disturbed',
               \A o \in Publishing(t) : request'[o].pc = "confirm" => At(o)' # w
        PROVE  published'[t][w] = wb'[t][w]
    <3>1. CASE t = s
      BY <2>1, <3>1 DEF Local
    <3>2. CASE t # s
      BY <1>1, <1>5, <1>7, <2>1, <3>2 DEF IInv, MemoryIsWildberries
    <3> QED BY <3>1, <3>2
  <2> QED BY <1>4, <2>1 DEF MemoryIsWildberries
<1>10. ThroughIsWanted'
  <2>1. ASSUME NEW t \in Sellers \ overlapped, NEW o \in Publishing(t),
               request'[o].verified, NEW w \in Warehouses \ request'[o].todo,
               <<t, w>> \notin disturbed'
        PROVE  wb'[t][w] = Wanted(request'[o].desired, w)
    <3>1. CASE t = s
      <4>1. o = r
        BY <3>1 DEF IInv, OneAtATime
      <4> QED BY <2>1, <3>1, <4>1 DEF Local
    <3>2. CASE t # s
      BY <1>1, <1>7, <2>1, <3>2 DEF IInv, ThroughIsWanted
    <3> QED BY <3>1, <3>2
  <2> QED BY <1>4, <2>1 DEF ThroughIsWanted
<1> QED BY <1>3, <1>6, <1>8, <1>9, <1>10 DEF IInv
-----------------------------------------------------------------------------
\* Plans are no publications.
LEMMA PlanKeeps ==
  ASSUME IInv, NEW r \in Requests, request[r].job # "publish",
         NEW q, q.job # "publish", request' = [request EXCEPT ![r] = q],
         UNCHANGED <<published, wb, disturbed, overlapped>>
  PROVE  IInv'
<1>1. request'[r] = q /\ \A o \in Requests \ {r} : request'[o] = request[o]
  BY DEF IInv, Shapes
<1>2. Shapes'
  BY <1>1 DEF IInv, Shapes, Stock
<1>3. \A t : Publishing(t)' = Publishing(t)
  BY <1>1 DEF Publishing
<1>4. \A t : \A o \in Publishing(t) : request'[o] = request[o] /\ At(o)' = At(o)
  BY <1>1 DEF Publishing, At
<1> QED BY <1>2, <1>3, <1>4
        DEF IInv, OneAtATime, ReadingHolds, MemoryIsWildberries, ThroughIsWanted

\* StartPublish: the warehouses left out have their amount already.
LEMMA StartKeeps ==
  ASSUME IInv, NEW r \in Requests, NEW s \in Sellers, StartPublish(r, s)
  PROVE  IInv'
<1> DEFINE desired == IF s \in mapped THEN plan[s].amounts ELSE Nobody
           todo == {w \in Warehouses : Wanted(desired, w) # published[s][w]}
           q == [job |-> "publish", seller |-> s, pc |-> "write", desired |-> desired,
                 todo |-> todo, actual |-> 0, verified |-> TRUE]
<1>1. /\ request[r] = Idle /\ request' = [request EXCEPT ![r] = q]
      /\ overlapped' = IF Publishing(s) # {} THEN overlapped \cup {s} ELSE overlapped
      /\ UNCHANGED <<published, wb, disturbed>>
  BY DEF StartPublish, stockVars
<1>2. q.job = "publish" /\ q.seller = s /\ q.pc = "write" /\ q.todo = todo
      /\ q.desired = desired /\ Publication(q)
  BY DEF Publication
<1>3. \A w \in Warehouses \ todo : Wanted(desired, w) = published[s][w]
  OBVIOUS
<1> HIDE DEF q, desired, todo
<1>4. request'[r] = q /\ \A o \in Requests \ {r} : request'[o] = request[o]
  BY <1>1 DEF IInv, Shapes
<1>5. request[r].job # "publish"
  BY <1>1 DEF Idle
<1>6. Shapes'
  BY <1>1, <1>2, <1>4 DEF IInv, Shapes, Stock
<1>7. \A t \in Sellers : Publishing(t)' = IF t = s THEN Publishing(t) \cup {r} ELSE Publishing(t)
  BY <1>2, <1>4, <1>5 DEF Publishing
<1>8. \A t : \A o \in Publishing(t) : request'[o] = request[o] /\ At(o)' = At(o)
  BY <1>4, <1>5 DEF Publishing, At
<1>9. s \notin overlapped' => Publishing(s)' = {r} /\ Publishing(s) = {} /\ s \notin overlapped
  BY <1>1, <1>7
<1>10. \A t \in Sellers \ overlapped' : t \in Sellers \ overlapped
  BY <1>1
<1>11. OneAtATime'
  BY <1>7, <1>9, <1>10 DEF IInv, OneAtATime
<1>12. ReadingHolds'
  BY <1>1, <1>2, <1>4, <1>7, <1>8, <1>9, <1>10 DEF IInv, ReadingHolds
<1>13. MemoryIsWildberries'
  <2>1. ASSUME NEW t \in Sellers \ overlapped', NEW w \in Warehouses, <<t, w>> \notin disturbed,
               \A o \in Publishing(t)' : request'[o].pc = "confirm" => At(o)' # w
        PROVE  published[t][w] = wb[t][w]
    BY <1>7, <1>8, <1>10, <2>1 DEF IInv, MemoryIsWildberries
  <2> QED BY <1>1, <2>1 DEF MemoryIsWildberries
<1>14. ThroughIsWanted'
  <2>1. ASSUME NEW t \in Sellers \ overlapped', NEW o \in Publishing(t)',
               request'[o].verified, NEW w \in Warehouses \ request'[o].todo,
               <<t, w>> \notin disturbed
        PROVE  wb[t][w] = Wanted(request'[o].desired, w)
    <3>1. CASE t = s
      <4>1. o = r /\ Publishing(s) = {} /\ s \notin overlapped
        BY <1>9, <2>1, <3>1
      <4>2. published[s][w] = wb[s][w]
        BY <2>1, <3>1, <4>1 DEF IInv, MemoryIsWildberries
      <4> QED BY <1>2, <1>3, <1>4, <2>1, <3>1, <4>1, <4>2
    <3>2. CASE t # s
      BY <1>7, <1>8, <1>10, <2>1, <3>2 DEF IInv, ThroughIsWanted
    <3> QED BY <3>1, <3>2
  <2> QED BY <1>1, <2>1 DEF ThroughIsWanted
<1> QED BY <1>6, <1>11, <1>12, <1>13, <1>14 DEF IInv

\* A publication ends or dies: what it had read and not committed is disturbed.
LEMMA EndKeeps ==
  ASSUME IInv, NEW r \in Requests, NEW s \in Sellers, r \in Publishing(s),
         request' = [request EXCEPT ![r] = Idle], UNCHANGED <<published, wb, overlapped>>,
         disturbed \subseteq disturbed',
         request[r].pc = "confirm" => <<s, At(r)>> \in disturbed'
  PROVE  IInv'
<1>1. request'[r].job # "publish" /\ \A o \in Requests \ {r} : request'[o] = request[o]
  BY DEF IInv, Shapes, Idle
<1>2. Shapes'
  BY <1>1 DEF IInv, Shapes, Stock
<1>3. \A t : Publishing(t)' = Publishing(t) \ {r}
  BY <1>1 DEF Publishing
<1>4. \A t : \A o \in Publishing(t) \ {r} : request'[o] = request[o] /\ At(o)' = At(o)
  BY <1>1 DEF Publishing, At
<1>5. OneAtATime' /\ ReadingHolds' /\ ThroughIsWanted'
  BY <1>3, <1>4 DEF IInv, OneAtATime, ReadingHolds, ThroughIsWanted
<1>6. MemoryIsWildberries'
  <2>1. ASSUME NEW t \in Sellers \ overlapped, NEW w \in Warehouses, <<t, w>> \notin disturbed',
               \A o \in Publishing(t) \ {r} : request[o].pc = "confirm" => At(o) # w
        PROVE  published[t][w] = wb[t][w]
    <3>1. CASE r \in Publishing(t)
      <4>1. t = s
        BY <3>1 DEF Publishing
      <4>2. Local(r, s)
        BY <4>1, LocalHolds
      <4> QED BY <2>1, <4>1, <4>2 DEF Local
    <3>2. CASE r \notin Publishing(t)
      BY <2>1, <3>2 DEF IInv, MemoryIsWildberries
    <3> QED BY <3>1, <3>2
  <2> QED BY <1>3, <1>4, <2>1 DEF MemoryIsWildberries
<1> QED BY <1>2, <1>5, <1>6 DEF IInv
-----------------------------------------------------------------------------
\* What is known of a publication at a warehouse.
LEMMA Underway ==
  ASSUME IInv, NEW r \in Requests, request[r].job = "publish", request[r].todo # {}
  PROVE  /\ Publication(request[r]) /\ request[r].seller \in Sellers
         /\ r \in Publishing(request[r].seller)
         /\ At(r) \in request[r].todo /\ At(r) \in Warehouses
         /\ request[r].seller \notin overlapped => Local(r, request[r].seller)
<1>1. /\ Publication(request[r]) /\ request[r].seller \in Sellers
      /\ request[r].todo \in SUBSET Warehouses
  BY DEF IInv, Shapes, Publication
<1>2. r \in Publishing(request[r].seller)
  BY DEF Publishing
<1>3. At(r) \in request[r].todo
  BY <1>1, AtIsToDo
<1> QED BY <1>1, <1>2, <1>3, LocalHolds

\* The publication goes on to its next call, or to the next warehouse.
Stage(q, p, todo, n, v) ==
  [job |-> "publish", seller |-> q.seller, pc |-> p, desired |-> q.desired,
   todo |-> todo, actual |-> n, verified |-> v]

\* The fields of a publication that goes on.
LEMMA StageFields ==
  ASSUME NEW q, Publication(q), NEW p, NEW todo \in SUBSET Warehouses, NEW n, NEW v,
         p # "write" => todo # {}
  PROVE  /\ Publication(Stage(q, p, todo, n, v)) /\ Stage(q, p, todo, n, v).seller = q.seller
         /\ Stage(q, p, todo, n, v).pc = p /\ Stage(q, p, todo, n, v).todo = todo
         /\ Stage(q, p, todo, n, v).desired = q.desired
         /\ Stage(q, p, todo, n, v).actual = n /\ Stage(q, p, todo, n, v).verified = v
BY DEF Publication, Stage

\* A change of the stage is a publication again.
LEMMA Advance ==
  ASSUME NEW q, Publication(q), NEW p, NEW n
  PROVE  /\ [q EXCEPT !.pc = p] = Stage(q, p, q.todo, q.actual, q.verified)
         /\ [q EXCEPT !.pc = p, !.actual = n] = Stage(q, p, q.todo, n, q.verified)
<1>1. q = Stage(q, q.pc, q.todo, q.actual, q.verified)
  BY DEF Publication, Stage
<1>2. [q EXCEPT !.pc = p] = Stage(q, p, q.todo, q.actual, q.verified)
  BY <1>1 DEF Stage
<1>3. [Stage(q, p, q.todo, q.actual, q.verified) EXCEPT !.actual = n]
        = Stage(q, p, q.todo, n, q.verified)
  BY DEF Stage
<1>4. [[q EXCEPT !.pc = p] EXCEPT !.actual = n] = [q EXCEPT !.pc = p, !.actual = n]
  OBVIOUS
<1> QED BY <1>2, <1>3, <1>4

Done(q, w, v) ==
  [q EXCEPT !.todo = @ \ {w}, !.pc = "write", !.actual = 0, !.verified = IF v THEN @ ELSE FALSE]

\* A warehouse that is done, as a stage of the publication.
LEMMA DoneIs ==
  ASSUME NEW q, Publication(q), NEW w, NEW v
  PROVE  Done(q, w, v) = Stage(q, "write", q.todo \ {w}, 0, IF v THEN q.verified ELSE FALSE)
<1> DEFINE x == IF v THEN q.verified ELSE FALSE
<1>1. q = Stage(q, q.pc, q.todo, q.actual, q.verified)
  BY DEF Publication, Stage
<1>2. [q EXCEPT !.todo = q.todo \ {w}] = Stage(q, q.pc, q.todo \ {w}, q.actual, q.verified)
  BY <1>1 DEF Stage
<1>3. [Stage(q, q.pc, q.todo \ {w}, q.actual, q.verified) EXCEPT !.pc = "write"]
        = Stage(q, "write", q.todo \ {w}, q.actual, q.verified)
  BY DEF Stage
<1>4. [Stage(q, "write", q.todo \ {w}, q.actual, q.verified) EXCEPT !.actual = 0]
        = Stage(q, "write", q.todo \ {w}, 0, q.verified)
  BY DEF Stage
<1>5. \A y : [Stage(q, "write", q.todo \ {w}, 0, q.verified) EXCEPT !.verified = y]
        = Stage(q, "write", q.todo \ {w}, 0, y)
  BY DEF Stage
<1>6. Done(q, w, v) = [[[[q EXCEPT !.todo = q.todo \ {w}] EXCEPT !.pc = "write"]
                          EXCEPT !.actual = 0] EXCEPT !.verified = x]
  BY DEF Done
<1> HIDE DEF x
<1>7. Done(q, w, v) = Stage(q, "write", q.todo \ {w}, 0, x)
  BY <1>2, <1>3, <1>4, <1>5, <1>6
<1> QED BY <1>7 DEF x

\* The fields of a publication that is done with a warehouse.
LEMMA DoneFields ==
  ASSUME NEW q, Publication(q), NEW w, NEW v
  PROVE  /\ Publication(Done(q, w, v)) /\ Done(q, w, v).seller = q.seller
         /\ Done(q, w, v).pc = "write" /\ Done(q, w, v).todo = q.todo \ {w}
         /\ Done(q, w, v).desired = q.desired /\ Done(q, w, v).actual = 0
         /\ Done(q, w, v).verified => q.verified /\ v
<1>1. q.todo \ {w} \in SUBSET Warehouses
  BY DEF Publication
<1>2. PICK x : x = IF v THEN q.verified ELSE FALSE
  OBVIOUS
<1>3. Done(q, w, v) = Stage(q, "write", q.todo \ {w}, 0, x)
  BY <1>2, DoneIs
<1>4. /\ Publication(Done(q, w, v)) /\ Done(q, w, v).seller = q.seller
      /\ Done(q, w, v).pc = "write" /\ Done(q, w, v).todo = q.todo \ {w}
      /\ Done(q, w, v).desired = q.desired /\ Done(q, w, v).actual = 0
      /\ Done(q, w, v).verified = x
  BY <1>1, <1>3, StageFields
<1>5. x => q.verified /\ v
  BY <1>2
<1> QED BY <1>4, <1>5

\* A write that may have reached Wildberries, and the wait for its reading.
LEMMA WriteKeeps ==
  ASSUME IInv, NEW r \in Requests, WriteStock(r) \/ WriteIgnored(r)
  PROVE  IInv'
<1>0. PICK s, w : s = request[r].seller /\ w = At(r)
  OBVIOUS
<1> DEFINE q == [request[r] EXCEPT !.pc = "read"]
<1>1. /\ request[r].job = "publish" /\ request[r].pc = "write" /\ request[r].todo # {}
      /\ request' = [request EXCEPT ![r] = q] /\ UNCHANGED <<published, overlapped>>
      /\ \/ Written(r)
         \/ wb' = wb /\ disturbed' = disturbed
  BY <1>0 DEF WriteStock, WriteIgnored, Writing, stockVars
<1>2. /\ Publication(request[r]) /\ s \in Sellers /\ r \in Publishing(s) /\ w \in Warehouses
      /\ s \notin overlapped => Local(r, s)
  BY <1>0, <1>1, Underway
<1>3. /\ Publication(q) /\ q.seller = s /\ q.pc = "read" /\ q.todo = request[r].todo
      /\ q.desired = request[r].desired /\ q.verified = request[r].verified
  <2>1. q = Stage(request[r], "read", request[r].todo, request[r].actual, request[r].verified)
    BY <1>2, Advance
  <2>2. request[r].todo \in SUBSET Warehouses
    BY <1>2 DEF Publication
  <2> HIDE DEF q
  <2> QED BY <1>1, <1>2, <2>1, <2>2, <1>0, StageFields
<1>4. /\ Stock(wb') /\ \A t \in Sellers \ {s} : wb'[t] = wb[t]
      /\ \A v \in Warehouses : <<s, v>> \notin disturbed' => wb'[s][v] = wb[s][v]
      /\ disturbed \subseteq disturbed' /\ disturbed' \subseteq disturbed \cup {<<s, w>>}
  <2>1. CASE Written(r)
    <3>1. /\ wb' = Write(wb, s, w, Wanted(request[r].desired, w))
          /\ disturbed' = disturbed \cup {<<s, w>>}
      BY <1>0, <2>1 DEF Written
    <3>2. \A t \in Sellers \ {s} : wb'[t] = wb[t]
      BY <3>1 DEF Write, IInv, Shapes, Stock
    <3> QED BY <1>2, <3>1, <3>2, OneAmountChanges DEF IInv, Shapes
  <2>2. CASE wb' = wb /\ disturbed' = disturbed
    BY <2>2 DEF IInv, Shapes
  <2> QED BY <1>1, <2>1, <2>2
<1> HIDE DEF q
<1>5. request'[r] = q
  BY <1>1 DEF IInv, Shapes
<1>6. s \notin overlapped => Local(r, s)'
  BY <1>0, <1>1, <1>2, <1>3, <1>4, <1>5 DEF Local
<1>7. Stock(published')
  BY <1>1 DEF IInv, Shapes
<1>8. \A t \in Sellers \ {s} : wb'[t] = wb[t] /\ published'[t] = published[t]
  BY <1>1, <1>4
<1>9. \A t \in Sellers \ {s} : \A v : <<t, v>> \in disturbed' <=> <<t, v>> \in disturbed
  BY <1>4
<1>10. request' = [request EXCEPT ![r] = q] /\ overlapped' = overlapped
  BY <1>1
<1> QED BY <1>2, <1>3, <1>4, <1>6, <1>7, <1>8, <1>9, <1>10, StepKeeps

\* A warehouse whose write or reading failed is not verified.
LEMMA FailureKeeps ==
  ASSUME IInv, NEW r \in Requests, WriteFails(r) \/ ReadFails(r)
  PROVE  IInv'
<1>0. PICK s, w : s = request[r].seller /\ w = At(r)
  OBVIOUS
<1> DEFINE q == Done(request[r], w, FALSE)
<1>1. /\ request[r].job = "publish" /\ request[r].todo # {}
      /\ request' = [request EXCEPT ![r] = q] /\ UNCHANGED <<published, overlapped>>
      /\ \/ Written(r)
         \/ wb' = wb /\ disturbed' = disturbed
      /\ request[r].pc # "confirm"
  BY <1>0 DEF WriteFails, ReadFails, Writing, stockVars, Outcome, Done, IInv, Shapes, Publication
<1>2. /\ Publication(request[r]) /\ s \in Sellers /\ r \in Publishing(s) /\ w \in Warehouses
      /\ s \notin overlapped => Local(r, s)
  BY <1>0, <1>1, Underway
<1>3. Publication(q) /\ q.seller = s /\ q.pc = "write" /\ ~q.verified
  BY <1>0, <1>2, DoneFields
<1>4. /\ Stock(wb') /\ \A t \in Sellers \ {s} : wb'[t] = wb[t]
      /\ \A v \in Warehouses : <<s, v>> \notin disturbed' => wb'[s][v] = wb[s][v]
      /\ disturbed \subseteq disturbed' /\ disturbed' \subseteq disturbed \cup {<<s, w>>}
  <2>1. CASE Written(r)
    <3>1. /\ wb' = Write(wb, s, w, Wanted(request[r].desired, w))
          /\ disturbed' = disturbed \cup {<<s, w>>}
      BY <1>0, <2>1 DEF Written
    <3>2. \A t \in Sellers \ {s} : wb'[t] = wb[t]
      BY <3>1 DEF Write, IInv, Shapes, Stock
    <3> QED BY <1>2, <3>1, <3>2, OneAmountChanges DEF IInv, Shapes
  <2>2. CASE wb' = wb /\ disturbed' = disturbed
    BY <2>2 DEF IInv, Shapes
  <2> QED BY <1>1, <2>1, <2>2
<1> HIDE DEF q
<1>5. request'[r] = q
  BY <1>1 DEF IInv, Shapes
<1>6. s \notin overlapped => Local(r, s)'
  BY <1>0, <1>1, <1>2, <1>3, <1>4, <1>5 DEF Local
<1>7. Stock(published')
  BY <1>1 DEF IInv, Shapes
<1>8. \A t \in Sellers \ {s} : wb'[t] = wb[t] /\ published'[t] = published[t]
  BY <1>1, <1>4
<1>9. \A t \in Sellers \ {s} : \A v : <<t, v>> \in disturbed' <=> <<t, v>> \in disturbed
  BY <1>4
<1>10. request' = [request EXCEPT ![r] = q] /\ overlapped' = overlapped
  BY <1>1
<1> QED BY <1>2, <1>3, <1>4, <1>6, <1>7, <1>8, <1>9, <1>10, StepKeeps

\* The reading is what Wildberries shows.
LEMMA ReadKeeps ==
  ASSUME IInv, NEW r \in Requests, ReadBack(r)
  PROVE  IInv'
<1>0. PICK s, w : s = request[r].seller /\ w = At(r)
  OBVIOUS
<1> DEFINE q == [request[r] EXCEPT !.pc = "confirm", !.actual = wb[s][w]]
<1>1. /\ request[r].job = "publish" /\ request[r].pc = "read"
      /\ request' = [request EXCEPT ![r] = q] /\ disturbed' = disturbed \ {<<s, w>>}
      /\ UNCHANGED <<published, wb, overlapped>>
  BY <1>0 DEF ReadBack
<1>2. request[r].todo # {}
  BY <1>1 DEF IInv, Shapes, Publication
<1>3. /\ Publication(request[r]) /\ s \in Sellers /\ r \in Publishing(s)
      /\ w \in request[r].todo
      /\ s \notin overlapped => Local(r, s)
  BY <1>0, <1>1, <1>2, Underway
<1>4. /\ Publication(q) /\ q.seller = s /\ q.pc = "confirm" /\ q.todo = request[r].todo
      /\ q.actual = wb[s][w] /\ q.desired = request[r].desired /\ q.verified = request[r].verified
  <2>1. q = Stage(request[r], "confirm", request[r].todo, wb[s][w], request[r].verified)
    BY <1>3, Advance
  <2>2. request[r].todo \in SUBSET Warehouses
    BY <1>3 DEF Publication
  <2> HIDE DEF q
  <2> QED BY <1>2, <1>3, <2>1, <2>2, <1>0, StageFields
<1> HIDE DEF q
<1>5. request'[r] = q
  BY <1>1 DEF IInv, Shapes
<1>6. At(r)' = w
  BY <1>0, <1>4, <1>5 DEF At
<1>7. s \notin overlapped => Local(r, s)'
  BY <1>0, <1>1, <1>3, <1>4, <1>5, <1>6 DEF Local
<1>8. Stock(published') /\ Stock(wb')
  BY <1>1 DEF IInv, Shapes
<1>9. \A t \in Sellers \ {s} : wb'[t] = wb[t] /\ published'[t] = published[t]
  BY <1>1
<1>10. \A t \in Sellers \ {s} : \A v : <<t, v>> \in disturbed' <=> <<t, v>> \in disturbed
  BY <1>1
<1>11. request' = [request EXCEPT ![r] = q] /\ overlapped' = overlapped
  BY <1>1
<1> QED BY <1>3, <1>4, <1>7, <1>8, <1>9, <1>10, <1>11, StepKeeps

\* confirm_published: an undisturbed reading is remembered as it is.
LEMMA ConfirmKeeps ==
  ASSUME IInv, NEW r \in Requests, Confirm(r)
  PROVE  IInv'
<1>0. PICK s, w, n : s = request[r].seller /\ w = At(r) /\ n = request[r].actual
  OBVIOUS
<1> DEFINE q == Done(request[r], w, n = Wanted(request[r].desired, w))
<1>1. /\ request[r].job = "publish" /\ request[r].pc = "confirm"
      /\ request' = [request EXCEPT ![r] = q] /\ published' = Write(published, s, w, n)
      /\ UNCHANGED <<wb, disturbed, overlapped>>
  BY <1>0 DEF Confirm, Outcome, Done
<1>2. request[r].todo # {}
  BY <1>1 DEF IInv, Shapes, Publication
<1>3. /\ Publication(request[r]) /\ s \in Sellers /\ r \in Publishing(s)
      /\ w \in Warehouses
      /\ s \notin overlapped => Local(r, s)
  BY <1>0, <1>1, <1>2, Underway
<1>4. /\ Publication(q) /\ q.seller = s /\ q.pc = "write" /\ q.todo = request[r].todo \ {w}
      /\ q.desired = request[r].desired
      /\ q.verified => request[r].verified /\ n = Wanted(request[r].desired, w)
  <2>1. PICK v : q = Done(request[r], w, v)
    OBVIOUS
  <2>2. /\ Publication(q) /\ q.seller = s /\ q.pc = "write" /\ q.todo = request[r].todo \ {w}
        /\ q.desired = request[r].desired
    <3> HIDE DEF q
    <3> QED BY <1>0, <1>3, <2>1, DoneFields
  <2>3. CASE n = Wanted(request[r].desired, w)
    <3>1. q = Done(request[r], w, TRUE)
      BY <2>3 DEF Done
    <3> HIDE DEF q
    <3>2. q.verified => request[r].verified
      BY <1>3, <3>1, DoneFields
    <3> QED BY <2>2, <2>3, <3>2
  <2>4. CASE n # Wanted(request[r].desired, w)
    <3>1. q = Done(request[r], w, FALSE)
      BY <2>4 DEF Done
    <3> HIDE DEF q
    <3>2. ~q.verified
      BY <1>3, <3>1, DoneFields
    <3> QED BY <2>2, <3>2
  <2> QED BY <2>3, <2>4
<1> HIDE DEF q
<1>5. request'[r] = q
  BY <1>1 DEF IInv, Shapes
<1>6. /\ Stock(published') /\ \A t \in Sellers \ {s} : published'[t] = published[t]
      /\ \A v \in Warehouses : published'[s][v] = IF v = w THEN n ELSE published[s][v]
  <2>1. \A t \in Sellers \ {s} : published'[t] = published[t]
    BY <1>1 DEF Write, IInv, Shapes, Stock
  <2> QED BY <1>1, <1>3, <2>1, OneAmountChanges DEF IInv, Shapes
<1>7. ASSUME s \notin overlapped PROVE Local(r, s)'
  <2>1. Local(r, s)
    BY <1>3, <1>7
  <2>2. <<s, w>> \notin disturbed => n = wb[s][w]
    BY <1>0, <1>1, <2>1 DEF Local
  <2>3. \A v \in Warehouses : <<s, v>> \notin disturbed => published'[s][v] = wb[s][v]
    BY <1>0, <1>1, <1>6, <2>1, <2>2 DEF Local
  <2>4. ASSUME q.verified, NEW v \in Warehouses \ q.todo, <<s, v>> \notin disturbed
        PROVE  wb[s][v] = Wanted(q.desired, v)
    <3>1. request[r].verified /\ n = Wanted(request[r].desired, w)
      BY <1>4, <2>4
    <3>2. CASE v = w
      BY <1>4, <2>2, <2>4, <3>1, <3>2
    <3>3. CASE v # w
      BY <1>0, <1>4, <2>1, <2>4, <3>1, <3>3 DEF Local
    <3> QED BY <3>2, <3>3
  <2> QED BY <1>0, <1>1, <1>4, <1>5, <2>3, <2>4 DEF Local
<1>8. Stock(wb')
  BY <1>1 DEF IInv, Shapes
<1>9. \A t \in Sellers \ {s} : wb'[t] = wb[t] /\ published'[t] = published[t]
  BY <1>1, <1>6
<1>10. \A t \in Sellers \ {s} : \A v : <<t, v>> \in disturbed' <=> <<t, v>> \in disturbed
  BY <1>1
<1>11. request' = [request EXCEPT ![r] = q] /\ overlapped' = overlapped
  BY <1>1
<1> QED BY <1>3, <1>4, <1>6, <1>7, <1>8, <1>9, <1>10, <1>11, StepKeeps
-----------------------------------------------------------------------------
\* No step breaks the invariant.
LEMMA NextKeeps == IInv /\ [Next]_vars => IInv'
<1> SUFFICES ASSUME IInv, [Next]_vars PROVE IInv'
  OBVIOUS
<1>1. CASE AcceptSnapshot \/ SetShares \/ SaveRegions
  <2>1. UNCHANGED <<published, wb, request, disturbed, overlapped>>
    BY <1>1 DEF AcceptSnapshot, SetShares, SaveRegions, Edit, stockVars
  <2> QED BY <2>1, ElsewhereKeeps
<1>2. ASSUME NEW s \in Sellers, Rematch(s) \/ SetPlacement(s) \/ SyncMirror(s) \/ Enrol(s)
      PROVE  IInv'
  <2>1. UNCHANGED <<published, wb, request, disturbed, overlapped>>
    BY <1>2 DEF Rematch, SetPlacement, SyncMirror, Enrol, Edit, stockVars
  <2> QED BY <2>1, ElsewhereKeeps
<1>3. ASSUME NEW s \in Sellers, PurgeSeller(s) PROVE IInv'
  BY <1>3, PurgeKeeps
<1>4. ASSUME NEW s \in Sellers, NEW w \in Warehouses, Order(s, w) PROVE IInv'
  BY <1>4, OrderKeeps
<1>5. ASSUME NEW s \in Sellers, NEW r \in Requests, StartPublish(r, s) PROVE IInv'
  BY <1>5, StartKeeps
<1>6. ASSUME NEW s \in Sellers, NEW r \in Requests, PlanReads(r, s) PROVE IInv'
  <2>1. request[r].job # "publish"
    BY <1>6 DEF PlanReads, Idle
  <2>2. PICK q : q.job # "publish" /\ request' = [request EXCEPT ![r] = q]
    <3> DEFINE q == [job |-> "plan", seller |-> s, quantity |-> quantity, sells |-> s \in mapped,
                     shares |-> shares, queue |-> Queue(s),
                     thinned |-> participating[s] \cap processing[s] # {}]
    <3>1. request' = [request EXCEPT ![r] = q]
      BY <1>6 DEF PlanReads
    <3>2. q.job = "plan"
      OBVIOUS
    <3> HIDE DEF q
    <3> QED BY <3>1, <3>2
  <2>3. UNCHANGED <<published, wb, disturbed, overlapped>>
    BY <1>6 DEF PlanReads, stockVars
  <2> QED BY <2>1, <2>2, <2>3, PlanKeeps
<1>7. ASSUME NEW r \in Requests, PlanSaves(r) PROVE IInv'
  <2>1. /\ request[r].job # "publish" /\ request' = [request EXCEPT ![r] = Idle]
        /\ UNCHANGED <<published, wb, disturbed, overlapped>>
    BY <1>7 DEF PlanSaves
  <2>2. Idle.job # "publish"
    BY DEF Idle
  <2> QED BY <2>1, <2>2, PlanKeeps
<1>8. ASSUME NEW r \in Requests,
             WriteStock(r) \/ WriteIgnored(r) \/ WriteFails(r) \/ ReadBack(r)
             \/ ReadFails(r) \/ Confirm(r)
      PROVE  IInv'
  BY <1>8, WriteKeeps, FailureKeeps, ReadKeeps, ConfirmKeeps
<1>9. ASSUME NEW r \in Requests, Finish(r) \/ Die(r) PROVE IInv'
  <2> DEFINE s == request[r].seller
  <2>1. /\ request' = [request EXCEPT ![r] = Idle] /\ UNCHANGED <<published, wb, overlapped>>
        /\ disturbed \subseteq disturbed'
    BY <1>9 DEF Finish, Die, stockVars
  <2>2. CASE request[r].job = "publish"
    <3>1. Publication(request[r]) /\ s \in Sellers /\ r \in Publishing(s)
      BY <2>2 DEF IInv, Shapes, Publication, Publishing
    <3>2. request[r].pc = "confirm" => <<s, At(r)>> \in disturbed'
      BY <1>9, <2>2, <3>1 DEF Finish, Die, Publication
    <3> QED BY <2>1, <3>1, <3>2, EndKeeps
  <2>3. CASE request[r].job # "publish"
    <3>1. disturbed' = disturbed
      BY <1>9, <2>3 DEF Finish, Die
    <3>2. Idle.job # "publish"
      BY DEF Idle
    <3> QED BY <2>1, <2>3, <3>1, <3>2, PlanKeeps
  <2> QED BY <2>2, <2>3
<1>10. CASE UNCHANGED vars
  <2>1. UNCHANGED <<published, wb, request, disturbed, overlapped>>
    BY <1>10 DEF vars, stockVars
  <2> QED BY <2>1, ElsewhereKeeps
<1> QED BY <1>1, <1>2, <1>3, <1>4, <1>5, <1>6, <1>7, <1>8, <1>9, <1>10 DEF Next

\* The invariant of the publications holds in every state.
THEOREM Invariant == Spec => []IInv
<1> QED BY InitHolds, NextKeeps, PTL DEF Spec
-----------------------------------------------------------------------------
\* However many publications, failures and deaths: the memory is filled from readings
\* and agrees with Wildberries wherever nothing has happened since.
THEOREM MemoryAgrees == Spec => []MemoryIsWildberries
<1>1. IInv => MemoryIsWildberries
  BY DEF IInv
<1> QED BY <1>1, Invariant, PTL

\* A publication whose warehouses were all verified leaves the plan it took, also where
\* it did not write.
THEOREM VerifiedIsPlanned == Spec => []VerifiedReachesPlan
<1>1. IInv => VerifiedReachesPlan
  <2> HAVE IInv
  <2>1. ASSUME NEW s \in Sellers \ overlapped, NEW r \in Publishing(s), NEW w \in Warehouses,
               request[r].todo = {}, request[r].verified, <<s, w>> \notin disturbed
        PROVE  wb[s][w] = Wanted(request[r].desired, w)
    BY <2>1 DEF IInv, ThroughIsWanted
  <2> QED BY <2>1 DEF VerifiedReachesPlan
<1> QED BY <1>1, Invariant, PTL
-----------------------------------------------------------------------------
\* The plans that are saved.

\* The queue of a plan: without a thinning it is the order of all that participate.
QueueMade(queue, thinned) ==
  \E set \in SUBSET Warehouses : \E kept \in SUBSET set :
    queue = PriorityOrder(set, kept) /\ (thinned \/ kept = set)

\* A plan is what build makes of the basis it was calculated from.
Calculated(s, p) ==
  /\ p.seller = s /\ QueueMade(p.queue, p.thinned)
  /\ p.basis[1] \in 0..MaxQuantity /\ p.basis[2] \in SUBSET Sellers
  /\ Counts(p.basis[3], Sellers)
  /\ LET share == CabinetShare(s, p.basis[3], p.basis[2]) IN
     p.available = 0
     \/ (share > 0 /\ p.available = (AvailableUnits(p.basis[1]) * share) \div BasisPoints)
  /\ \E sharesRead \in RegionShares : p.amounts = Allocate(p.available, p.queue, sharesRead)

\* What a plan that is being calculated has read.
Planning(q) ==
  /\ q.seller \in Sellers /\ q.quantity \in 0..MaxQuantity /\ q.shares \in RegionShares
  /\ QueueMade(q.queue, q.thinned)

\* Whatever has changed since, a plan is the one of its basis.
PlansCalculated ==
  /\ DOMAIN plan = Sellers
  /\ \A s \in Sellers : plan[s] # NoPlan => Calculated(s, plan[s])
  /\ \A r \in Requests : request[r].job = "plan" => Planning(request[r])

\* What a rule gives a cabinet is no negative number when it is anything.
LEMMA ShareIsNatural ==
  ASSUME NEW s, NEW f, Counts(f, Sellers), NEW cabinets
  PROVE  CabinetShare(s, f, cabinets) \in Nat \cup {-1}
<1>1. BasisPoints \in Nat
  BY DistributionAssumption
<1>2. Wanted(f, s) \in Nat
  BY DEF Wanted, Counts
<1> QED BY <1>1, <1>2 DEF CabinetShare

\* The part of a cabinet is a count.
LEMMA PartIsNatural ==
  ASSUME NEW units \in Nat, NEW share \in Nat
  PROVE  (units * share) \div BasisPoints \in Nat
<1>1. BasisPoints \in Nat /\ BasisPoints > 0
  BY DistributionAssumption
<1>2. units * share \in Nat
  OBVIOUS
<1> QED BY <1>1, <1>2, Division

\* A queue that placement makes lists some warehouses.
LEMMA QueueIsList ==
  ASSUME NEW queue, NEW thinned, QueueMade(queue, thinned)
  PROVE  \E K \in SUBSET Warehouses :
           /\ IsFiniteSet(K) /\ Lists(queue, K) /\ Range(queue) = K /\ Len(queue) = Cardinality(K)
           /\ queue \in Seq(Warehouses) /\ IsInjective(queue)
           /\ ~thinned => queue = PriorityOrder(K, K)
<1>1. PICK set \in SUBSET Warehouses : \E kept \in SUBSET set :
        queue = PriorityOrder(set, kept) /\ (thinned \/ kept = set)
  BY DEF QueueMade
<1>2. PICK K \in SUBSET set : queue = PriorityOrder(set, K) /\ (thinned \/ K = set)
  BY <1>1
<1>3. K \in SUBSET Warehouses /\ IsFiniteSet(K)
  BY DistributionAssumption, FS_Subset
<1>4. Lists(queue, K)
  BY <1>2, QueueLists
<1>5. Range(queue) = K /\ Len(queue) = Cardinality(K) /\ queue \in Seq(K) /\ IsInjective(queue)
  BY <1>3, <1>4, ListFacts
<1>6. queue \in Seq(Warehouses)
  BY <1>3, <1>5
<1> QED BY <1>2, <1>3, <1>4, <1>5, <1>6

\* The types of a plan, and all that is said of its amounts.
LEMMA PlanFacts ==
  ASSUME NEW s \in Sellers, NEW p, Calculated(s, p)
  PROVE  /\ p.seller = s /\ p.available \in Nat
         /\ AvailableUnits(p.basis[1]) \in Nat
         /\ p.queue \in Seq(Warehouses) /\ IsInjective(p.queue)
         /\ Counts(p.amounts, Warehouses) /\ SumFunction(p.amounts) \in {0, p.available}
         /\ p.amounts # Nobody => Spends(p.amounts, p.available, p.queue)
<1> DEFINE share == CabinetShare(s, p.basis[3], p.basis[2])
           units == AvailableUnits(p.basis[1])
<1>1. p.basis[1] \in Nat
  BY DistributionAssumption DEF Calculated
<1>2. units \in Nat
  BY <1>1, UnitsAreCounted
<1>3. p.available \in Nat
  <2>1. share \in Nat \cup {-1}
    BY ShareIsNatural DEF Calculated
  <2>2. share > 0 => share \in Nat
    <3> HIDE DEF share
    <3> QED BY <2>1
  <2>3. p.available = 0 \/ (share > 0 /\ p.available = (units * share) \div BasisPoints)
    BY DEF Calculated
  <2> HIDE DEF share, units
  <2> QED BY <1>2, <2>2, <2>3, PartIsNatural
<1>4. PICK K \in SUBSET Warehouses :
        /\ IsFiniteSet(K) /\ Lists(p.queue, K) /\ Range(p.queue) = K
        /\ p.queue \in Seq(Warehouses) /\ IsInjective(p.queue)
  BY QueueIsList DEF Calculated
<1>5. PICK sharesRead \in RegionShares : p.amounts = Allocate(p.available, p.queue, sharesRead)
  BY DEF Calculated
<1>6. p.amounts # Nobody => Spends(p.amounts, p.available, p.queue)
  BY <1>3, <1>4, <1>5, AllocationSpends
<1>7. p.amounts = Nobody => DOMAIN p.amounts = {} /\ SumFunction(p.amounts) = 0
  <2> SUFFICES ASSUME p.amounts = Nobody
               PROVE  DOMAIN p.amounts = {} /\ SumFunction(p.amounts) = 0
    OBVIOUS
  <2>1. DOMAIN p.amounts = {}
    BY DEF Nobody
  <2> QED BY <2>1, SumIsOnSet, SumEmpty
<1>8. Counts(p.amounts, Warehouses)
  BY <1>4, <1>6, <1>7 DEF Counts, Spends
<1>9. p.seller = s
  BY DEF Calculated
<1> QED BY <1>2, <1>3, <1>4, <1>6, <1>7, <1>8, <1>9 DEF Spends

\* All that a set of plans of one basis spends is covered by the pool.
LEMMA PoolIsShared ==
  ASSUME PlansCalculated
  PROVE  PlansShareThePool
<1> SUFFICES ASSUME NEW s \in Sellers, plan[s] # NoPlan
             PROVE  LET basis == plan[s].basis
                        T == {c \in basis[2] : plan[c] # NoPlan /\ plan[c].basis = basis}
                    IN  SumFunction([c \in T |-> SumFunction(plan[c].amounts)])
                          <= AvailableUnits(basis[1])
  BY DEF PlansShareThePool
<1> DEFINE basis == plan[s].basis
           M == basis[2]
           f == basis[3]
           units == AvailableUnits(basis[1])
           T == {c \in M : plan[c] # NoPlan /\ plan[c].basis = basis}
           part == [c \in T |-> SumFunction(plan[c].amounts)]
<1>1. M \in SUBSET Sellers /\ Counts(f, Sellers) /\ units \in Nat
  BY PlanFacts DEF PlansCalculated, Calculated
<1>2. T \in SUBSET Sellers /\ T \in SUBSET M /\ IsFiniteSet(T) /\ IsFiniteSet(M)
  BY <1>1, DistributionAssumption, FS_Subset
<1>3. BasisPoints \in Nat /\ BasisPoints > 0
  BY DistributionAssumption
<1>4. ASSUME NEW c \in T
      PROVE  /\ part[c] \in Nat
             /\ part[c] = 0 \/ (/\ CabinetShare(c, f, M) > 0
                                /\ part[c] = (units * CabinetShare(c, f, M)) \div BasisPoints)
  <2>1. Calculated(c, plan[c]) /\ c \in Sellers /\ plan[c].basis = basis
    BY <1>2 DEF PlansCalculated
  <2>2. part[c] \in {0, plan[c].available} /\ plan[c].available \in Nat
    BY <2>1, PlanFacts
  <2>3. plan[c].available = 0
        \/ (/\ CabinetShare(c, f, M) > 0
            /\ plan[c].available = (units * CabinetShare(c, f, M)) \div BasisPoints)
    BY <2>1 DEF Calculated
  <2> HIDE DEF part, units, f, M, T
  <2> QED BY <2>2, <2>3
<1>5. SumFunction(part) = SumFunctionOnSet(part, T)
  BY SumIsOnSet
<1>6. units * BasisPoints = BasisPoints * units /\ (units * BasisPoints) \div BasisPoints = units
  <2> HIDE DEF units
  <2> QED BY <1>1, <1>3
<1> HIDE DEF part, units, T, M, f
<1>7. CASE Cardinality(M) <= 1
  <2>1. \A c \in T : part[c] \in Nat /\ part[c] <= units
    BY <1>1, <1>4, <1>6, <1>7 DEF CabinetShare
  <2>2. CASE T = {}
    BY <1>1, <1>5, <2>2, SumEmpty DEF part, units, T, M
  <2>3. CASE T # {}
    <3>1. PICK c \in T : TRUE
      BY <2>3
    <3>2. T = {c}
      <4>1. c \in M /\ Cardinality(M) \in Nat
        BY <1>2, FS_CardinalityType
      <4>2. Cardinality(M) # 0
        BY <1>2, <4>1, FS_EmptySet
      <4>3. Cardinality(M) = 1
        BY <1>7, <4>1, <4>2
      <4>4. \E m : M = {m}
        BY <1>2, <4>3, FS_Singleton
      <4> QED BY <1>2, <4>1, <4>4
    <3>3. SumFunctionOnSet(part, T) = part[c] + SumFunctionOnSet(part, T \ {c})
      <4>1. \A x \in T : part[x] \in Int
        BY <2>1
      <4> QED BY <1>2, <4>1, SumTake
    <3>4. T \ {c} = {}
      BY <3>2
    <3>5. SumFunctionOnSet(part, T) = part[c]
      BY <2>1, <3>3, <3>4, SumEmpty
    <3>6. SumFunction(part) <= units
      BY <1>5, <2>1, <3>5
    <3> QED BY <3>6 DEF part, units, T, M
  <2> QED BY <2>2, <2>3
<1>8. CASE ~(Cardinality(M) <= 1) /\ SumFunction(f) # BasisPoints
  <2>1. \A c \in T : part[c] = 0
    BY <1>4, <1>8 DEF CabinetShare
  <2>2. SumFunctionOnSet(part, T) = SumFunctionOnSet(part, {})
    BY <1>2, <2>1, SumWithoutZeros
  <2>3. SumFunction(part) <= units
    BY <1>1, <1>5, <2>2, SumEmpty
  <2> QED BY <2>3 DEF part, units, T, M
<1>9. CASE ~(Cardinality(M) <= 1) /\ SumFunction(f) = BasisPoints
  <2>1. \A c \in T : part[c] \in Nat /\ part[c] <= (units * Wanted(f, c)) \div BasisPoints
    <3> SUFFICES ASSUME NEW c \in T
                 PROVE  part[c] \in Nat /\ part[c] <= (units * Wanted(f, c)) \div BasisPoints
      OBVIOUS
    <3>1. Wanted(f, c) \in Nat
      BY <1>1 DEF Wanted, Counts
    <3>2. (units * Wanted(f, c)) \div BasisPoints \in Nat
      BY <1>1, <3>1, PartIsNatural
    <3>3. CabinetShare(c, f, M) = Wanted(f, c)
      BY <1>9 DEF CabinetShare
    <3> QED BY <1>4, <3>2, <3>3
  <2>2. SumFunctionOnSet(part, T) <= units
    BY <1>1, <1>2, <1>9, <2>1, PartsFit
  <2> QED BY <1>5, <2>2 DEF part, units, T, M
<1> QED BY <1>7, <1>8, <1>9

\* A plan spends what build has made available to the cabinet.
LEMMA PlansSpend ==
  ASSUME PlansCalculated
  PROVE  PlanSpendsItsShare
<1> SUFFICES ASSUME NEW s \in Sellers, plan[s] # NoPlan, plan[s].amounts # Nobody
             PROVE  LET p == plan[s] IN
                    /\ SumFunction(p.amounts) = p.available
                    /\ \A w \in DOMAIN p.amounts : p.amounts[w] > 0
                    /\ DOMAIN p.amounts \subseteq Range(p.queue)
                    /\ p.available >= Len(p.queue) => DOMAIN p.amounts = Range(p.queue)
  BY DEF PlanSpendsItsShare
<1>1. Calculated(s, plan[s])
  BY DEF PlansCalculated
<1> QED BY <1>1, PlanFacts DEF Spends

\* A queue that nobody left serves the regions in turn.
LEMMA LittleIsSpread ==
  ASSUME PlansCalculated
  PROVE  SmallStockSpreads
<1> SUFFICES ASSUME NEW s \in Sellers, plan[s] # NoPlan, plan[s].amounts # Nobody,
                    ~plan[s].thinned, plan[s].available < Len(plan[s].queue)
             PROVE  LET p == plan[s]
                        reachable == Cardinality({RegionOf[w] : w \in Range(p.queue)})
                    IN  Cardinality({RegionOf[w] : w \in DOMAIN p.amounts}) =
                          Least(reachable, Least(PriorityRegions, p.available))
  BY DEF SmallStockSpreads
<1>1. Calculated(s, plan[s])
  BY DEF PlansCalculated
<1>2. /\ plan[s].available \in Nat /\ plan[s].available > 0
      /\ plan[s].amounts = PrioritySplit(plan[s].available, plan[s].queue)
  BY <1>1, PlanFacts DEF Spends
<1>3. PICK K \in SUBSET Warehouses :
        /\ IsFiniteSet(K) /\ Range(plan[s].queue) = K /\ Len(plan[s].queue) = Cardinality(K)
        /\ plan[s].queue = PriorityOrder(K, K)
  BY <1>1, QueueIsList DEF Calculated
<1>4. K # {}
  BY <1>2, <1>3, FS_EmptySet
<1>5. Cardinality({RegionOf[w] :
                     w \in DOMAIN PrioritySplit(plan[s].available, PriorityOrder(K, K))})
        = Least(Cardinality({RegionOf[w] : w \in K}), Least(PriorityRegions, plan[s].available))
  BY <1>2, <1>4, SplitSpreads
<1> QED BY <1>2, <1>3, <1>5
-----------------------------------------------------------------------------
\* The types.

\* The parts of the type invariant; the plans are the calculated ones.
InputsTyped ==
  /\ quantity \in 0..MaxQuantity /\ mapped \subseteq Sellers
  /\ Counts(rule, Sellers) /\ shares \in RegionShares
  /\ participating \in [Sellers -> SUBSET Warehouses]
  /\ processing \in [Sellers -> SUBSET Warehouses]
  /\ enrolled \in [Sellers -> {"off", "dry", "write", "gone"}]

CountersTyped == edits \in Nat /\ jobs \in Nat /\ faults \in Nat

StockTyped ==
  /\ published \in [Sellers -> [Warehouses -> Nat]] /\ wb \in [Sellers -> [Warehouses -> Nat]]
  /\ disturbed \subseteq Sellers \X Warehouses /\ overlapped \subseteq Sellers

\* The numbers of a publication.
Numbers(q) ==
  /\ Counts(q.desired, Warehouses) /\ q.actual \in Nat
  /\ q.pc \in {"write", "read", "confirm"}

RequestsTyped == \A r \in Requests : request[r].job = "publish" => Numbers(request[r])

Types == InputsTyped /\ CountersTyped /\ StockTyped /\ RequestsTyped /\ PlansCalculated

\* Together with the shapes of the requests, this is the type invariant.
LEMMA TypesAreOK ==
  ASSUME IInv, Types
  PROVE  TypeOK
<1>1. ASSUME NEW s \in Sellers, plan[s] # NoPlan
      PROVE  /\ plan[s].seller = s /\ plan[s].available \in Nat
             /\ Counts(plan[s].amounts, Warehouses)
             /\ plan[s].queue \in Seq(Warehouses) /\ IsInjective(plan[s].queue)
  <2>1. Calculated(s, plan[s])
    BY <1>1 DEF Types, PlansCalculated
  <2> QED BY <2>1, PlanFacts
<1>2. ASSUME NEW r \in Requests, request[r].job = "publish"
      PROVE  /\ request[r].seller \in Sellers /\ Counts(request[r].desired, Warehouses)
             /\ request[r].pc \in {"write", "read", "confirm"}
             /\ request[r].todo \subseteq Warehouses /\ request[r].actual \in Nat
  BY <1>2 DEF Types, RequestsTyped, Numbers, IInv, Shapes, Publication
<1>3. InputsTyped /\ CountersTyped /\ StockTyped
  BY DEF Types
<1> QED BY <1>1, <1>2, <1>3 DEF TypeOK, InputsTyped, CountersTyped, StockTyped

\* An amount that is written is a natural number.
LEMMA WriteTypes ==
  ASSUME NEW f \in [Sellers -> [Warehouses -> Nat]], NEW s \in Sellers, NEW w \in Warehouses,
         NEW n \in Nat
  PROVE  Write(f, s, w, n) \in [Sellers -> [Warehouses -> Nat]]
BY DEF Write

\* A plan wants a count of every warehouse.
LEMMA WantedTypes ==
  ASSUME NEW f, Counts(f, Warehouses), NEW w
  PROVE  Wanted(f, w) \in Nat
BY DEF Wanted, Counts

\* A request that goes on as a typed one.
LEMMA RequestGoesOn ==
  ASSUME IInv, Types, NEW r \in Requests, NEW q, request' = [request EXCEPT ![r] = q],
         q.job = "publish" => Numbers(q), q.job = "plan" => Planning(q)
  PROVE  /\ RequestsTyped'
         /\ \A o \in Requests : request'[o].job = "plan" => Planning(request'[o])
<1>1. request'[r] = q /\ \A o \in Requests \ {r} : request'[o] = request[o]
  BY DEF IInv, Shapes
<1> QED BY <1>1 DEF Types, RequestsTyped, PlansCalculated

\* Steps that save no plan.
LEMMA PlansStay ==
  ASSUME Types, plan' = plan,
         \A o \in Requests : request'[o].job = "plan" => Planning(request'[o])
  PROVE  PlansCalculated'
BY DEF Types, PlansCalculated

\* Initially nothing is planned and nothing is published.
LEMMA InitTypes == Init => Types
<1> SUFFICES ASSUME Init PROVE Types
  OBVIOUS
<1>1. InputsTyped
  <2>1. Counts(rule, Sellers)
    BY DistributionAssumption DEF Init, Counts, Nobody
  <2>2. quantity \in 0..MaxQuantity /\ mapped \subseteq Sellers /\ shares \in RegionShares
        /\ participating \in [Sellers -> SUBSET Warehouses]
        /\ processing \in [Sellers -> SUBSET Warehouses]
        /\ enrolled \in [Sellers -> {"off", "dry", "write", "gone"}]
    BY DEF Init
  <2> QED BY <2>1, <2>2 DEF InputsTyped
<1>2. CountersTyped /\ StockTyped
  BY DEF Init, CountersTyped, StockTyped
<1>3. RequestsTyped
  BY DEF Init, RequestsTyped, Idle
<1>4. PlansCalculated
  BY DEF Init, PlansCalculated, Idle
<1> QED BY <1>1, <1>2, <1>3, <1>4 DEF Types

\* What the plans are calculated from changes; a deleted cabinet loses its plan.
LEMMA EditTypes ==
  ASSUME IInv, Types,
         \/ AcceptSnapshot \/ SetShares \/ SaveRegions
         \/ \E s \in Sellers : Rematch(s) \/ SetPlacement(s) \/ SyncMirror(s) \/ Enrol(s)
  PROVE  Types'
<1>1. UNCHANGED <<plan, published, wb, disturbed, request, overlapped, jobs, faults>>
      /\ edits' = edits + 1
  BY DEF AcceptSnapshot, SetShares, SaveRegions, Rematch, SetPlacement, SyncMirror, Enrol,
         Edit, stockVars
<1>2. CountersTyped' /\ StockTyped' /\ RequestsTyped' /\ PlansCalculated'
  <2>1. CountersTyped'
    BY <1>1 DEF Types, CountersTyped
  <2>2. StockTyped'
    BY <1>1 DEF Types, StockTyped
  <2>3. RequestsTyped'
    BY <1>1 DEF Types, RequestsTyped
  <2>4. PlansCalculated'
    BY <1>1 DEF Types, PlansCalculated
  <2> QED BY <2>1, <2>2, <2>3, <2>4
<1>3. InputsTyped'
  <2>0. InputsTyped
    BY DEF Types
  <2>1. CASE AcceptSnapshot
    BY <2>0, <2>1 DEF AcceptSnapshot, InputsTyped
  <2>2. CASE SetShares
    <3>1. Counts(rule', Sellers)
      BY <2>2, DistributionAssumption DEF SetShares, Counts, Nobody
    <3> QED BY <2>0, <2>2, <3>1 DEF SetShares, InputsTyped
  <2>3. CASE SaveRegions
    BY <2>0, <2>3 DEF SaveRegions, InputsTyped
  <2>4. ASSUME NEW s \in Sellers, Rematch(s) PROVE InputsTyped'
    BY <2>0, <2>4 DEF Rematch, InputsTyped
  <2>5. ASSUME NEW s \in Sellers, SetPlacement(s) PROVE InputsTyped'
    BY <2>0, <2>5 DEF SetPlacement, InputsTyped
  <2>6. ASSUME NEW s \in Sellers, SyncMirror(s) PROVE InputsTyped'
    BY <2>0, <2>6 DEF SyncMirror, InputsTyped
  <2>7. ASSUME NEW s \in Sellers, Enrol(s) PROVE InputsTyped'
    <3>1. enrolled' \in [Sellers -> {"off", "dry", "write", "gone"}]
      BY <2>0, <2>7 DEF Enrol, InputsTyped
    <3> QED BY <2>0, <2>7, <3>1 DEF Enrol, InputsTyped
  <2> QED BY <2>1, <2>2, <2>3, <2>4, <2>5, <2>6, <2>7
<1> QED BY <1>2, <1>3 DEF Types

\* A deleted cabinet loses its plan and the memory of its amounts.
LEMMA PurgeTypes ==
  ASSUME IInv, Types, NEW s \in Sellers, PurgeSeller(s)
  PROVE  Types'
<1>1. /\ UNCHANGED <<quantity, shares, wb, request, overlapped, jobs, faults>>
      /\ edits' = edits + 1 /\ enrolled' = [enrolled EXCEPT ![s] = "gone"]
      /\ mapped' = mapped \ {s} /\ rule' = [c \in DOMAIN rule \ {s} |-> rule[c]]
      /\ participating' = [participating EXCEPT ![s] = {}]
      /\ processing' = [processing EXCEPT ![s] = {}]
      /\ plan' = [plan EXCEPT ![s] = NoPlan]
      /\ published' = [published EXCEPT ![s] = [w \in Warehouses |-> 0]]
      /\ disturbed' = disturbed \cup {<<s, w>> : w \in Warehouses}
  BY DEF PurgeSeller, Edit
<1>2. InputsTyped'
  <2>1. Counts(rule', Sellers)
    BY <1>1 DEF Types, InputsTyped, Counts
  <2> QED BY <1>1, <2>1 DEF Types, InputsTyped
<1>3. CountersTyped'
  BY <1>1 DEF Types, CountersTyped
<1>4. StockTyped'
  BY <1>1 DEF Types, StockTyped
<1>5. RequestsTyped'
  BY <1>1 DEF Types, RequestsTyped
<1>6. PlansCalculated'
  BY <1>1 DEF Types, PlansCalculated
<1> QED BY <1>2, <1>3, <1>4, <1>5, <1>6 DEF Types

\* A plan starts with what placement makes of the warehouses of the cabinet.
LEMMA PlanReadsTypes ==
  ASSUME IInv, Types, NEW r \in Requests, NEW s \in Sellers, PlanReads(r, s)
  PROVE  Types'
<1> DEFINE q == [job |-> "plan", seller |-> s, quantity |-> quantity, sells |-> s \in mapped,
                 shares |-> shares, queue |-> Queue(s),
                 thinned |-> participating[s] \cap processing[s] # {}]
<1>1. /\ request' = [request EXCEPT ![r] = q] /\ jobs' = jobs + 1
      /\ UNCHANGED <<inputVars, stockVars, overlapped, edits, faults>>
  BY DEF PlanReads
<1>2. InputsTyped
  BY DEF Types
<1>3. QueueMade(Queue(s), participating[s] \cap processing[s] # {})
  <2> DEFINE set == participating[s]
             kept == set \ processing[s]
  <2>1. set \in SUBSET Warehouses /\ kept \in SUBSET set
    BY <1>2 DEF InputsTyped
  <2>2. Queue(s) = PriorityOrder(set, kept)
    BY DEF Queue
  <2>3. set \cap processing[s] # {} \/ kept = set
    OBVIOUS
  <2> QED BY <2>1, <2>2, <2>3 DEF QueueMade
<1>4. Planning(q) /\ q.job = "plan"
  BY <1>2, <1>3 DEF Planning, InputsTyped
<1> HIDE DEF q
<1>5. RequestsTyped' /\ \A o \in Requests : request'[o].job = "plan" => Planning(request'[o])
  BY <1>1, <1>4, RequestGoesOn
<1>6. InputsTyped' /\ CountersTyped' /\ StockTyped'
  BY <1>1 DEF Types, InputsTyped, CountersTyped, StockTyped, inputVars, stockVars
<1>7. PlansCalculated'
  BY <1>1, <1>5, PlansStay DEF stockVars
<1> QED BY <1>5, <1>6, <1>7 DEF Types

\* A plan is saved as build has calculated it from its basis.
LEMMA PlanSavesTypes ==
  ASSUME IInv, Types, NEW r \in Requests, PlanSaves(r)
  PROVE  Types'
<1> DEFINE q == request[r]
           share == CabinetShare(q.seller, rule, mapped)
           available == IF q.sells /\ share > 0
                        THEN (AvailableUnits(q.quantity) * share) \div BasisPoints ELSE 0
           p == [seller |-> q.seller, basis |-> <<q.quantity, mapped, rule>>,
                 available |-> available, queue |-> q.queue, thinned |-> q.thinned,
                 amounts |-> Allocate(available, q.queue, q.shares)]
<1>1. /\ q.job = "plan" /\ plan' = [plan EXCEPT ![q.seller] = p]
      /\ request' = [request EXCEPT ![r] = Idle]
      /\ UNCHANGED <<inputVars, published, wb, disturbed, overlapped, edits, jobs, faults>>
  BY DEF PlanSaves
<1>2. Planning(q)
  BY <1>1 DEF Types, PlansCalculated
<1>3. InputsTyped
  BY DEF Types
<1>4. Calculated(q.seller, p)
  <2>1. /\ p.seller = q.seller /\ p.queue = q.queue /\ p.thinned = q.thinned
        /\ p.basis[1] = q.quantity /\ p.basis[2] = mapped /\ p.basis[3] = rule
        /\ p.available = available /\ p.amounts = Allocate(available, q.queue, q.shares)
    OBVIOUS
  <2>2. available = 0
        \/ (share > 0 /\ available = (AvailableUnits(q.quantity) * share) \div BasisPoints)
    OBVIOUS
  <2> HIDE DEF p, available
  <2> QED BY <1>2, <1>3, <2>1, <2>2 DEF Calculated, Planning, InputsTyped
<1> HIDE DEF p
<1>5. RequestsTyped' /\ \A o \in Requests : request'[o].job = "plan" => Planning(request'[o])
  <2>1. Idle.job # "plan" /\ Idle.job # "publish"
    BY DEF Idle
  <2> QED BY <1>1, <2>1, RequestGoesOn
<1>6. InputsTyped' /\ CountersTyped' /\ StockTyped'
  BY <1>1 DEF Types, InputsTyped, CountersTyped, StockTyped, inputVars
<1>7. PlansCalculated'
  <2>1. q.seller \in Sellers /\ DOMAIN plan = Sellers
    BY <1>2 DEF Planning, Types, PlansCalculated
  <2>2. /\ DOMAIN plan' = Sellers /\ plan'[q.seller] = p
        /\ \A s \in Sellers \ {q.seller} : plan'[s] = plan[s]
    BY <1>1, <2>1
  <2> HIDE DEF q
  <2> QED BY <1>4, <1>5, <2>2 DEF Types, PlansCalculated
<1> QED BY <1>5, <1>6, <1>7 DEF Types

\* A publication starts with the amounts of the plan, or with none.
LEMMA StartTypes ==
  ASSUME IInv, Types, NEW r \in Requests, NEW s \in Sellers, StartPublish(r, s)
  PROVE  Types'
<1> DEFINE desired == IF s \in mapped THEN plan[s].amounts ELSE Nobody
           q == [job |-> "publish", seller |-> s, pc |-> "write", desired |-> desired,
                 todo |-> {w \in Warehouses : Wanted(desired, w) # published[s][w]},
                 actual |-> 0, verified |-> TRUE]
<1>1. /\ plan[s] # NoPlan /\ request' = [request EXCEPT ![r] = q] /\ jobs' = jobs + 1
      /\ overlapped' \in {overlapped \cup {s}, overlapped}
      /\ UNCHANGED <<inputVars, stockVars, edits, faults>>
  BY DEF StartPublish
<1>2. Counts(desired, Warehouses)
  <2>1. Calculated(s, plan[s])
    BY <1>1 DEF Types, PlansCalculated
  <2>2. Counts(plan[s].amounts, Warehouses)
    BY <2>1, PlanFacts
  <2>3. Counts(Nobody, Warehouses)
    BY DEF Counts, Nobody
  <2> QED BY <2>2, <2>3
<1> HIDE DEF desired
<1>3. Numbers(q) /\ q.job = "publish"
  BY <1>2 DEF Numbers
<1> HIDE DEF q
<1>4. RequestsTyped' /\ \A o \in Requests : request'[o].job = "plan" => Planning(request'[o])
  BY <1>1, <1>3, RequestGoesOn
<1>5. InputsTyped' /\ CountersTyped' /\ StockTyped'
  BY <1>1 DEF Types, InputsTyped, CountersTyped, StockTyped, inputVars, stockVars
<1>6. PlansCalculated'
  BY <1>1, <1>4, PlansStay DEF stockVars
<1> QED BY <1>4, <1>5, <1>6 DEF Types

\* A request that goes on without another change than of the amounts.
LEMMA PublicationTypes ==
  ASSUME IInv, Types, NEW r \in Requests, NEW q, request' = [request EXCEPT ![r] = q],
         q.job = "publish" => Numbers(q), q.job # "plan",
         UNCHANGED <<inputVars, plan, overlapped, edits, jobs>>, faults' \in {faults, faults + 1},
         published' \in [Sellers -> [Warehouses -> Nat]],
         wb' \in [Sellers -> [Warehouses -> Nat]], disturbed' \subseteq Sellers \X Warehouses
  PROVE  Types'
<1>1. RequestsTyped' /\ \A o \in Requests : request'[o].job = "plan" => Planning(request'[o])
  BY RequestGoesOn
<1>2. InputsTyped' /\ CountersTyped' /\ StockTyped'
  BY DEF Types, InputsTyped, CountersTyped, StockTyped, inputVars
<1>3. PlansCalculated'
  BY <1>1, PlansStay
<1> QED BY <1>1, <1>2, <1>3 DEF Types

\* What is known of the numbers of a publication.
LEMMA UnderwayTypes ==
  ASSUME IInv, Types, NEW r \in Requests, request[r].job = "publish", request[r].todo # {}
  PROVE  /\ Publication(request[r]) /\ request[r].seller \in Sellers /\ At(r) \in Warehouses
         /\ Numbers(request[r]) /\ Wanted(request[r].desired, At(r)) \in Nat
         /\ StockTyped
<1>1. Numbers(request[r]) /\ StockTyped
  BY DEF Types, RequestsTyped
<1>2. Publication(request[r]) /\ request[r].seller \in Sellers /\ At(r) \in Warehouses
  BY Underway
<1>3. Wanted(request[r].desired, At(r)) \in Nat
  BY <1>1, WantedTypes DEF Numbers
<1> QED BY <1>1, <1>2, <1>3

\* What is written is wanted of one warehouse.
LEMMA WrittenTypes ==
  ASSUME IInv, Types, NEW r \in Requests, request[r].job = "publish", request[r].todo # {},
         Written(r) \/ UNCHANGED <<wb, disturbed>>
  PROVE  wb' \in [Sellers -> [Warehouses -> Nat]] /\ disturbed' \subseteq Sellers \X Warehouses
<1>1. /\ request[r].seller \in Sellers /\ At(r) \in Warehouses
      /\ Wanted(request[r].desired, At(r)) \in Nat /\ StockTyped
  BY UnderwayTypes
<1>2. CASE UNCHANGED <<wb, disturbed>>
  BY <1>1, <1>2 DEF StockTyped
<1>3. CASE Written(r)
  <2>1. /\ wb' = Write(wb, request[r].seller, At(r), Wanted(request[r].desired, At(r)))
        /\ disturbed' = disturbed \cup {<<request[r].seller, At(r)>>}
    BY <1>3 DEF Written
  <2>2. wb' \in [Sellers -> [Warehouses -> Nat]]
    BY <1>1, <2>1, WriteTypes DEF StockTyped
  <2>3. disturbed' \subseteq Sellers \X Warehouses
    BY <1>1, <2>1 DEF StockTyped
  <2> QED BY <2>2, <2>3
<1> QED BY <1>2, <1>3

\* A write waits for its reading.
LEMMA WriteStockTypes ==
  ASSUME IInv, Types, NEW r \in Requests, WriteStock(r) \/ WriteIgnored(r)
  PROVE  Types'
<1> DEFINE q == [request[r] EXCEPT !.pc = "read"]
<1>1. /\ request[r].job = "publish" /\ request[r].todo # {}
      /\ request' = [request EXCEPT ![r] = q]
      /\ UNCHANGED <<inputVars, plan, published, overlapped, edits, jobs>>
      /\ faults' \in {faults, faults + 1} /\ (Written(r) \/ UNCHANGED <<wb, disturbed>>)
  BY DEF WriteStock, WriteIgnored, Writing, Fault, stockVars
<1>2. Publication(request[r]) /\ Numbers(request[r]) /\ StockTyped
  BY <1>1, UnderwayTypes
<1>3. q = Stage(request[r], "read", request[r].todo, request[r].actual, request[r].verified)
  BY <1>2, Advance
<1>4. Numbers(q) /\ q.job = "publish"
  BY <1>2, <1>3 DEF Numbers, Stage
<1>5. wb' \in [Sellers -> [Warehouses -> Nat]] /\ disturbed' \subseteq Sellers \X Warehouses
  BY <1>1, WrittenTypes
<1>6. published' \in [Sellers -> [Warehouses -> Nat]]
  BY <1>1, <1>2 DEF StockTyped
<1> HIDE DEF q
<1> QED BY <1>1, <1>4, <1>5, <1>6, PublicationTypes

\* A warehouse whose write or reading failed is done.
LEMMA FailureTypes ==
  ASSUME IInv, Types, NEW r \in Requests, WriteFails(r) \/ ReadFails(r)
  PROVE  Types'
<1> DEFINE q == Done(request[r], At(r), FALSE)
<1>1. /\ request[r].job = "publish" /\ request[r].todo # {}
      /\ request' = [request EXCEPT ![r] = q]
      /\ UNCHANGED <<inputVars, plan, published, overlapped, edits, jobs>>
      /\ faults' \in {faults, faults + 1} /\ (Written(r) \/ UNCHANGED <<wb, disturbed>>)
  BY DEF WriteFails, ReadFails, Writing, Fault, stockVars, Outcome, Done, IInv, Shapes, Publication
<1>2. Publication(request[r]) /\ Numbers(request[r]) /\ StockTyped
  BY <1>1, UnderwayTypes
<1>3. Publication(q) /\ q.pc = "write" /\ q.actual = 0 /\ q.desired = request[r].desired
  BY <1>2, DoneFields
<1> HIDE DEF q
<1>4. Numbers(q) /\ q.job = "publish"
  BY <1>2, <1>3 DEF Numbers, Publication
<1>5. wb' \in [Sellers -> [Warehouses -> Nat]] /\ disturbed' \subseteq Sellers \X Warehouses
  BY <1>1, WrittenTypes
<1>6. published' \in [Sellers -> [Warehouses -> Nat]]
  BY <1>1, <1>2 DEF StockTyped
<1> QED BY <1>1, <1>4, <1>5, <1>6, PublicationTypes

\* The reading is an amount that Wildberries shows.
LEMMA ReadBackTypes ==
  ASSUME IInv, Types, NEW r \in Requests, ReadBack(r)
  PROVE  Types'
<1> DEFINE n == wb[request[r].seller][At(r)]
           q == [request[r] EXCEPT !.pc = "confirm", !.actual = n]
<1>1. /\ request[r].job = "publish" /\ request[r].pc = "read"
      /\ request' = [request EXCEPT ![r] = q]
      /\ disturbed' = disturbed \ {<<request[r].seller, At(r)>>}
      /\ UNCHANGED <<inputVars, plan, published, wb, overlapped, edits, jobs, faults>>
  BY DEF ReadBack
<1>2. request[r].todo # {}
  BY <1>1 DEF IInv, Shapes, Publication
<1>3. /\ Publication(request[r]) /\ Numbers(request[r]) /\ StockTyped
      /\ request[r].seller \in Sellers /\ At(r) \in Warehouses
  BY <1>1, <1>2, UnderwayTypes
<1>4. n \in Nat
  BY <1>3 DEF StockTyped
<1> HIDE DEF n
<1>5. q = Stage(request[r], "confirm", request[r].todo, n, request[r].verified)
  BY <1>3, Advance
<1>6. Numbers(q) /\ q.job = "publish"
  BY <1>3, <1>4, <1>5 DEF Numbers, Stage
<1>7. /\ published' \in [Sellers -> [Warehouses -> Nat]] /\ wb' \in [Sellers -> [Warehouses -> Nat]]
      /\ disturbed' \subseteq Sellers \X Warehouses
  BY <1>1, <1>3 DEF StockTyped
<1> HIDE DEF q
<1> QED BY <1>1, <1>6, <1>7, PublicationTypes

\* What was read is remembered.
LEMMA ConfirmTypes ==
  ASSUME IInv, Types, NEW r \in Requests, Confirm(r)
  PROVE  Types'
<1> DEFINE n == request[r].actual
           q == Done(request[r], At(r), n = Wanted(request[r].desired, At(r)))
<1>1. /\ request[r].job = "publish" /\ request[r].pc = "confirm"
      /\ request' = [request EXCEPT ![r] = q]
      /\ published' = Write(published, request[r].seller, At(r), n)
      /\ UNCHANGED <<inputVars, plan, wb, disturbed, overlapped, edits, jobs, faults>>
  BY DEF Confirm, Outcome, Done
<1>2. request[r].todo # {}
  BY <1>1 DEF IInv, Shapes, Publication
<1>3. /\ Publication(request[r]) /\ Numbers(request[r]) /\ StockTyped
      /\ request[r].seller \in Sellers /\ At(r) \in Warehouses
  BY <1>1, <1>2, UnderwayTypes
<1>4. n \in Nat
  BY <1>3 DEF Numbers
<1>5. Publication(q) /\ q.pc = "write" /\ q.actual = 0 /\ q.desired = request[r].desired
  <2>1. PICK v : q = Done(request[r], At(r), v)
    OBVIOUS
  <2> HIDE DEF q
  <2> QED BY <1>3, <2>1, DoneFields
<1> HIDE DEF q, n
<1>6. Numbers(q) /\ q.job = "publish"
  BY <1>3, <1>5 DEF Numbers, Publication
<1>7. published' \in [Sellers -> [Warehouses -> Nat]]
  BY <1>1, <1>3, <1>4, WriteTypes DEF StockTyped
<1>8. wb' \in [Sellers -> [Warehouses -> Nat]] /\ disturbed' \subseteq Sellers \X Warehouses
  BY <1>1, <1>3 DEF StockTyped
<1> QED BY <1>1, <1>6, <1>7, <1>8, PublicationTypes

\* A request ends or dies.
LEMMA EndTypes ==
  ASSUME IInv, Types, NEW r \in Requests, Finish(r) \/ Die(r)
  PROVE  Types'
<1>1. /\ request' = [request EXCEPT ![r] = Idle]
      /\ UNCHANGED <<inputVars, plan, published, wb, overlapped, edits, jobs>>
      /\ faults' \in {faults, faults + 1}
  BY DEF Finish, Die, Fault, stockVars
<1>2. Idle.job # "publish" /\ Idle.job # "plan"
  BY DEF Idle
<1>3. StockTyped
  BY DEF Types
<1>4. disturbed' \subseteq Sellers \X Warehouses
  <2>1. CASE disturbed' = disturbed
    BY <1>3, <2>1 DEF StockTyped
  <2>2. CASE disturbed' # disturbed
    <3>1. /\ request[r].job = "publish" /\ request[r].pc = "confirm"
          /\ disturbed' = disturbed \cup {<<request[r].seller, At(r)>>}
      BY <2>2 DEF Finish, Die, stockVars
    <3>2. request[r].todo # {}
      BY <3>1 DEF IInv, Shapes, Publication
    <3>3. request[r].seller \in Sellers /\ At(r) \in Warehouses
      BY <3>1, <3>2, UnderwayTypes
    <3> QED BY <1>3, <3>1, <3>3 DEF StockTyped
  <2> QED BY <2>1, <2>2
<1>5. published' \in [Sellers -> [Warehouses -> Nat]] /\ wb' \in [Sellers -> [Warehouses -> Nat]]
  BY <1>1, <1>3 DEF StockTyped
<1> QED BY <1>1, <1>2, <1>4, <1>5, PublicationTypes

\* Only a unit that is shown can be ordered.
LEMMA OrderTypes ==
  ASSUME IInv, Types, NEW s \in Sellers, NEW w \in Warehouses, Order(s, w)
  PROVE  Types'
<1>1. /\ wb[s][w] > 0 /\ wb' = Write(wb, s, w, wb[s][w] - 1)
      /\ disturbed' = disturbed \cup {<<s, w>>} /\ faults' = faults + 1
      /\ UNCHANGED <<inputVars, plan, published, request, overlapped, edits, jobs>>
  BY DEF Order, Fault
<1>2. StockTyped'
  <2>0. StockTyped
    BY DEF Types
  <2>1. wb[s][w] - 1 \in Nat
    BY <1>1, <2>0 DEF StockTyped
  <2>2. wb' \in [Sellers -> [Warehouses -> Nat]]
    BY <1>1, <2>0, <2>1, WriteTypes DEF StockTyped
  <2> QED BY <1>1, <2>0, <2>2 DEF StockTyped
<1>3. InputsTyped' /\ CountersTyped'
  BY <1>1 DEF Types, InputsTyped, CountersTyped, inputVars
<1>4. RequestsTyped' /\ PlansCalculated'
  BY <1>1 DEF Types, RequestsTyped, PlansCalculated
<1> QED BY <1>2, <1>3, <1>4 DEF Types

\* Every step keeps the types and the calculation of the plans.
LEMMA NextTypes == IInv /\ Types /\ [Next]_vars => Types'
<1> SUFFICES ASSUME IInv, Types, [Next]_vars PROVE Types'
  OBVIOUS
<1>1. CASE \/ AcceptSnapshot \/ SetShares \/ SaveRegions
           \/ \E s \in Sellers : Rematch(s) \/ SetPlacement(s) \/ SyncMirror(s) \/ Enrol(s)
  BY <1>1, EditTypes
<1>2. ASSUME NEW s \in Sellers, PurgeSeller(s) PROVE Types'
  BY <1>2, PurgeTypes
<1>3. ASSUME NEW s \in Sellers, NEW w \in Warehouses, Order(s, w) PROVE Types'
  BY <1>3, OrderTypes
<1>4. ASSUME NEW s \in Sellers, NEW r \in Requests, PlanReads(r, s) \/ StartPublish(r, s)
      PROVE  Types'
  BY <1>4, PlanReadsTypes, StartTypes
<1>5. ASSUME NEW r \in Requests, PlanSaves(r) PROVE Types'
  BY <1>5, PlanSavesTypes
<1>6. ASSUME NEW r \in Requests,
             WriteStock(r) \/ WriteIgnored(r) \/ WriteFails(r) \/ ReadBack(r)
             \/ ReadFails(r) \/ Confirm(r)
      PROVE  Types'
  BY <1>6, WriteStockTypes, FailureTypes, ReadBackTypes, ConfirmTypes
<1>7. ASSUME NEW r \in Requests, Finish(r) \/ Die(r) PROVE Types'
  BY <1>7, EndTypes
<1>8. CASE UNCHANGED vars
  <2>1. UNCHANGED <<inputVars, stockVars, request, overlapped, edits, jobs, faults>>
    BY <1>8 DEF vars
  <2>2. InputsTyped' /\ CountersTyped' /\ StockTyped'
    BY <2>1 DEF Types, InputsTyped, CountersTyped, StockTyped, inputVars, stockVars
  <2>3. RequestsTyped' /\ PlansCalculated'
    BY <2>1 DEF Types, RequestsTyped, PlansCalculated, stockVars
  <2> QED BY <2>2, <2>3 DEF Types
<1> QED BY <1>1, <1>2, <1>3, <1>4, <1>5, <1>6, <1>7, <1>8 DEF Next

\* Every plan is what build makes of the basis it was calculated from, whatever has
\* changed since, and every amount that is read, remembered or wanted is a count.
THEOREM PlansAreCalculated == Spec => [](IInv /\ Types)
<1>1. Init => IInv /\ Types
  BY InitHolds, InitTypes
<1>2. IInv /\ Types /\ [Next]_vars => IInv' /\ Types'
  BY NextKeeps, NextTypes
<1> QED BY <1>1, <1>2, PTL DEF Spec

\* Every variable keeps its type: no amount is negative and no queue repeats a warehouse,
\* whatever the steps of the requests and of the edits interleave.
THEOREM TypeCorrect == Spec => []TypeOK
<1>1. IInv /\ Types => TypeOK
  BY TypesAreOK
<1> QED BY <1>1, PlansAreCalculated, PTL

\* The cabinets whose plans have one basis never give out more than the pool: rounding
\* down loses units and never makes any.
THEOREM PoolNeverOverspent == Spec => []PlansShareThePool
<1>1. IInv /\ Types => PlansShareThePool
  BY PoolIsShared DEF Types
<1> QED BY <1>1, PlansAreCalculated, PTL

\* A plan gives out what the cabinet has, to the last unit, and no warehouse of it goes
\* without: the largest remainders, the raised zeros and the laps lose nothing.
THEOREM PlansSpendTheirShares == Spec => []PlanSpendsItsShare
<1>1. IInv /\ Types => PlanSpendsItsShare
  BY PlansSpend DEF Types
<1> QED BY <1>1, PlansAreCalculated, PTL

\* Little stock reaches as many regions as it can, for any regions and warehouses.
THEOREM SmallStockIsSpread == Spec => []SmallStockSpreads
<1>1. IInv /\ Types => SmallStockSpreads
  BY LittleIsSpread DEF Types
<1> QED BY <1>1, PlansAreCalculated, PTL
-----------------------------------------------------------------------------
\* What buyers see.

\* The memory of a cabinet says that its plan has been published, and nothing has happened
\* since the readings it was filled from.
PlanReached(s) ==
  /\ s \notin overlapped
  /\ \A w \in Warehouses :
       /\ published[s][w] = Wanted(plan[s].amounts, w)
       /\ <<s, w>> \notin disturbed
       /\ \A r \in Publishing(s) : request[r].pc = "confirm" => At(r) # w

\* The cabinets that have published their plans of one basis show buyers, all warehouses
\* together, no more units than the pool may give out.
NothingOversold ==
  \A s \in Sellers :
    plan[s] # NoPlan =>
      LET basis == plan[s].basis
          through == {c \in basis[2] : plan[c] # NoPlan /\ plan[c].basis = basis /\ PlanReached(c)}
      IN  SumFunction([c \in through |-> SumFunction(wb[c])]) <= AvailableUnits(basis[1])

\* A cabinet that has reached its plan shows the units of the plan.
LEMMA ReachedShowsPlan ==
  ASSUME IInv, Types, NEW s \in Sellers, plan[s] # NoPlan, PlanReached(s)
  PROVE  SumFunction(wb[s]) = SumFunction(plan[s].amounts) /\ SumFunction(wb[s]) \in Nat
<1> DEFINE amounts == plan[s].amounts
           P == DOMAIN amounts
<1>1. Counts(amounts, Warehouses) /\ IsFiniteSet(Warehouses)
  BY PlanFacts, DistributionAssumption DEF Types, PlansCalculated
<1>2. P \in SUBSET Warehouses /\ IsFiniteSet(P) /\ \A w \in P : amounts[w] \in Nat
  BY <1>1, FS_Subset DEF Counts
<1>3. \A w \in Warehouses : wb[s][w] = Wanted(amounts, w)
  <2> SUFFICES ASSUME NEW w \in Warehouses PROVE wb[s][w] = Wanted(amounts, w)
    OBVIOUS
  <2>1. /\ s \notin overlapped /\ <<s, w>> \notin disturbed
        /\ published[s][w] = Wanted(amounts, w)
        /\ \A r \in Publishing(s) : request[r].pc = "confirm" => At(r) # w
    BY DEF PlanReached
  <2>2. published[s][w] = wb[s][w]
    BY <2>1 DEF IInv, MemoryIsWildberries
  <2> QED BY <2>1, <2>2
<1>4. DOMAIN wb[s] = Warehouses
  BY DEF Types, StockTyped
<1> HIDE DEF P
<1>5. /\ \A w \in P : wb[s][w] = amounts[w] /\ wb[s][w] \in Int
      /\ \A w \in Warehouses \ P : wb[s][w] = 0
      /\ \A w \in Warehouses : wb[s][w] \in Nat
  BY <1>2, <1>3 DEF P, Wanted
<1>6. SumFunctionOnSet(wb[s], Warehouses) = SumFunctionOnSet(wb[s], P)
  BY <1>1, <1>2, <1>5, SumWithoutZeros
<1>7. SumFunctionOnSet(wb[s], P) = SumFunctionOnSet(amounts, P)
  BY <1>2, <1>5, SumSame
<1>8. SumFunctionOnSet(wb[s], Warehouses) \in Nat
  BY <1>1, <1>5, SumNat
<1>9. /\ SumFunction(wb[s]) = SumFunctionOnSet(wb[s], Warehouses)
      /\ SumFunction(amounts) = SumFunctionOnSet(amounts, P)
  BY <1>4, SumIsOnSet DEF P
<1> QED BY <1>6, <1>7, <1>8, <1>9

\* What the cabinets show is a part of what their plans give out.
LEMMA PoolCoversShown ==
  ASSUME IInv, Types
  PROVE  NothingOversold
<1> SUFFICES ASSUME NEW s \in Sellers, plan[s] # NoPlan
             PROVE  LET basis == plan[s].basis
                        through == {c \in basis[2] :
                          plan[c] # NoPlan /\ plan[c].basis = basis /\ PlanReached(c)}
                    IN  SumFunction([c \in through |-> SumFunction(wb[c])])
                          <= AvailableUnits(basis[1])
  BY DEF NothingOversold
<1> DEFINE basis == plan[s].basis
           units == AvailableUnits(basis[1])
           together == {c \in basis[2] : plan[c] # NoPlan /\ plan[c].basis = basis}
           through == {c \in basis[2] :
                         plan[c] # NoPlan /\ plan[c].basis = basis /\ PlanReached(c)}
           spent == [c \in together |-> SumFunction(plan[c].amounts)]
           shown == [c \in through |-> SumFunction(wb[c])]
<1>1. SumFunction(spent) <= units
  BY PoolIsShared DEF Types, PlansShareThePool
<1>2. basis[2] \in SUBSET Sellers /\ units \in Nat
  BY PlanFacts DEF Types, PlansCalculated, Calculated
<1>3. IsFiniteSet(together) /\ together \in SUBSET Sellers
  BY <1>2, DistributionAssumption, FS_Subset
<1>4. through \in SUBSET together /\ IsFiniteSet(through)
  BY <1>3, FS_Subset
<1>5. \A c \in together : spent[c] \in Nat
  <2> SUFFICES ASSUME NEW c \in together PROVE SumFunction(plan[c].amounts) \in Nat
    OBVIOUS
  <2>1. Calculated(c, plan[c]) /\ c \in Sellers
    BY <1>3 DEF Types, PlansCalculated
  <2> QED BY <2>1, PlanFacts
<1>6. \A c \in through : spent[c] = shown[c]
  <2> SUFFICES ASSUME NEW c \in through PROVE SumFunction(plan[c].amounts) = SumFunction(wb[c])
    BY <1>4
  <2> QED BY <1>3, <1>4, ReachedShowsPlan
<1>7. SumFunction(spent) = SumFunctionOnSet(spent, together)
      /\ SumFunction(shown) = SumFunctionOnSet(shown, through)
  BY SumIsOnSet
<1> HIDE DEF spent, shown, through, together, units
<1>8. SumFunctionOnSet(spent, through) <= SumFunctionOnSet(spent, together)
  BY <1>3, <1>4, <1>5, SumOfPart
<1>9. SumFunctionOnSet(spent, through) = SumFunctionOnSet(shown, through)
  BY <1>4, <1>6, SumSame
<1>10. /\ SumFunctionOnSet(spent, through) \in Nat
       /\ SumFunctionOnSet(spent, together) \in Nat
  BY <1>3, <1>4, <1>5, SumNat
<1>11. SumFunction(shown) <= units
  BY <1>1, <1>2, <1>7, <1>8, <1>9, <1>10
<1> QED BY <1>11 DEF shown, through, units

\* From the pool to the buyers: plans share the pool, a plan spends its part, and the
\* memory shows what Wildberries shows; together, nothing is sold twice.
THEOREM NoUnitSoldTwice == Spec => []NothingOversold
<1>1. IInv /\ Types => NothingOversold
  BY PoolCoversShown
<1> QED BY <1>1, PlansAreCalculated, PTL
=============================================================================
