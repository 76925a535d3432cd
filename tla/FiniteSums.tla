------------------------------ MODULE FiniteSums ------------------------------
(***************************************************************************)
(* Facts about finite sets that the proofs of several modules rest on: the *)
(* smallest number of a set, induction over its subsets, sums over it, and *)
(* the ranks of a strict total order on it.                                *)
(*                                                                         *)
(* Induction is stated with the set of those who have the property rather  *)
(* than with a predicate, so that it can be cited for any property.        *)
(***************************************************************************)
EXTENDS Integers, FiniteSets, Functions, FiniteSetTheorems, WellFoundedInduction, TLAPS

\* What all strict subsets of a subset hand on to it, every subset has.
LEMMA SubsetInduction ==
  ASSUME NEW S, IsFiniteSet(S), NEW G,
         \A T \in SUBSET S : (\A U \in SUBSET T : U # T => U \in G) => T \in G
  PROVE  \A T \in SUBSET S : T \in G
<1>1. IsWellFoundedOn(StrictSubsetOrdering(S), SUBSET S)
  BY FS_StrictSubsetOrderingWellFounded, FS_FiniteSubsetsOfFinite
<1> DEFINE B == {T \in SUBSET S : T \notin G}
<1> SUFFICES ASSUME B # {} PROVE FALSE
  OBVIOUS
<1>2. \E T \in B : \A U \in B : ~ (<<U, T>> \in StrictSubsetOrdering(S))
  <2>1. B \subseteq SUBSET S
    OBVIOUS
  <2> HIDE DEF B
  <2> QED BY <1>1, <2>1, WFMin
<1>3. PICK T \in B : \A U \in B : ~ (<<U, T>> \in StrictSubsetOrdering(S))
  BY <1>2
<1>4. ASSUME NEW U \in SUBSET T, U # T PROVE U \in G
  BY <1>3, <1>4 DEF StrictSubsetOrdering
<1> QED BY <1>4

\* A nonempty finite set of numbers has a smallest one, for the modules in which
\* something is taken first of what is left.
LEMMA SmallestExists ==
  ASSUME NEW S, IsFiniteSet(S), S \subseteq Nat, NEW T \in SUBSET S, T # {}
  PROVE  \E x \in T : \A y \in T : x <= y
<1> DEFINE G == {U \in SUBSET S : U # {} => \E x \in U : \A y \in U : x <= y}
<1>1. ASSUME NEW U \in SUBSET S, \A V \in SUBSET U : V # U => V \in G PROVE U \in G
  <2> SUFFICES ASSUME U # {} PROVE \E x \in U : \A y \in U : x <= y
    OBVIOUS
  <2>1. PICK z \in U : TRUE
    OBVIOUS
  <2>2. CASE U \ {z} = {}
    <3>1. \A y \in U : z <= y
      BY <2>2
    <3> QED BY <3>1
  <2>3. CASE U \ {z} # {}
    <3>1. PICK x \in U \ {z} : \A y \in U \ {z} : x <= y
      BY <1>1, <2>3
    <3>2. CASE x <= z
      <4>1. \A y \in U : x <= y
        BY <3>1, <3>2
      <4> QED BY <4>1
    <3>3. CASE ~(x <= z)
      <4>1. \A y \in U : z <= y
        <5> SUFFICES ASSUME NEW y \in U PROVE z <= y
          OBVIOUS
        <5>1. x \in Nat /\ y \in Nat /\ z \in Nat
          OBVIOUS
        <5>2. y = z \/ x <= y
          BY <3>1
        <5> QED BY <3>3, <5>1, <5>2
      <4> QED BY <4>1
    <3> QED BY <3>2, <3>3
  <2> QED BY <2>2, <2>3
<1>2. \A U \in SUBSET S : U \in G
  <2> HIDE DEF G
  <2> QED BY <1>1, SubsetInduction
<1> QED BY <1>2
-----------------------------------------------------------------------------
\* SumFunctionOnSet adds up with the function that its definition chooses.
First(s) == CHOOSE x \in s : TRUE

Adds(f, S, g) ==
  g = [s \in SUBSET S |-> IF s = {} THEN 0 ELSE f[First(s)] + g[s \ {First(s)}]]

Adder(f, S) == CHOOSE g : Adds(f, S, g)

\* The sum is the value of the function that its definition chooses.
LEMMA SumIsAdders ==
  ASSUME NEW f, NEW S
  PROVE  SumFunctionOnSet(f, S) = Adder(f, S)[S]
BY DEF SumFunctionOnSet, FoldFunctionOnSet, MapThenFoldSet, Adder, Adds, First

\* There is at most one such function, so what adds up a set adds up its subsets.
LEMMA AddsOnce ==
  ASSUME NEW f, NEW S, IsFiniteSet(S), NEW g, NEW h, Adds(f, S, g),
         NEW R, S \subseteq R, Adds(f, R, h)
  PROVE  \A T \in SUBSET S : g[T] = h[T]
<1> DEFINE G == {T \in SUBSET S : g[T] = h[T]}
<1>1. ASSUME NEW T \in SUBSET S, \A U \in SUBSET T : U # T => U \in G PROVE T \in G
  <2>1. T \in SUBSET R
    OBVIOUS
  <2>2. g[T] = IF T = {} THEN 0 ELSE f[First(T)] + g[T \ {First(T)}]
    BY DEF Adds
  <2>3. h[T] = IF T = {} THEN 0 ELSE f[First(T)] + h[T \ {First(T)}]
    BY <2>1 DEF Adds
  <2>4. T # {} => g[T \ {First(T)}] = h[T \ {First(T)}]
    <3> SUFFICES ASSUME T # {} PROVE T \ {First(T)} \in G
      OBVIOUS
    <3>1. First(T) \in T
      BY DEF First
    <3> QED BY <1>1, <3>1
  <2> QED BY <2>2, <2>3, <2>4
<1>2. \A T \in SUBSET S : T \in G
  <2> HIDE DEF G
  <2> QED BY <1>1, SubsetInduction
<1> QED BY <1>2

\* There is one: what a set adds up to follows from its strict subsets.
LEMMA AdderAdds ==
  ASSUME NEW f, NEW S, IsFiniteSet(S)
  PROVE  Adds(f, S, Adder(f, S))
<1> DEFINE G == {T \in SUBSET S : \E g : Adds(f, T, g)}
<1>1. ASSUME NEW T \in SUBSET S, \A U \in SUBSET T : U # T => U \in G PROVE T \in G
  <2> DEFINE V(s) == IF s = {} THEN 0
                     ELSE f[First(s)] + Adder(f, s \ {First(s)})[s \ {First(s)}]
             g == [s \in SUBSET T |-> V(s)]
  <2>1. ASSUME NEW U \in SUBSET T, U # T PROVE Adds(f, U, Adder(f, U))
    BY <1>1, <2>1 DEF Adder
  <2>2. ASSUME NEW U \in SUBSET T, U # T PROVE g[U] = Adder(f, U)[U]
    <3>1. Adder(f, U)[U] = IF U = {} THEN 0
                           ELSE f[First(U)] + Adder(f, U)[U \ {First(U)}]
      BY <2>1, <2>2 DEF Adds
    <3>2. ASSUME U # {}
          PROVE  Adder(f, U)[U \ {First(U)}] = Adder(f, U \ {First(U)})[U \ {First(U)}]
      <4> DEFINE W == U \ {First(U)}
      <4>1. W \in SUBSET T /\ W # T /\ W \subseteq U
        BY <2>2
      <4>2. Adds(f, W, Adder(f, W)) /\ Adds(f, U, Adder(f, U))
        BY <2>1, <2>2, <4>1
      <4>3. IsFiniteSet(W)
        BY <4>1, FS_Subset
      <4> QED BY <4>1, <4>2, <4>3, AddsOnce
    <3> QED BY <3>1, <3>2
  <2>3. ASSUME NEW s \in SUBSET T
        PROVE  g[s] = IF s = {} THEN 0 ELSE f[First(s)] + g[s \ {First(s)}]
    <3>1. g[s] = V(s)
      OBVIOUS
    <3>2. s # {} => First(s) \in s
      BY DEF First
    <3>3. s # {} => g[s \ {First(s)}] = Adder(f, s \ {First(s)})[s \ {First(s)}]
      BY <2>2, <3>2
    <3> HIDE DEF g
    <3> QED BY <3>1, <3>3
  <2>4. g = [s \in SUBSET T |-> IF s = {} THEN 0 ELSE f[First(s)] + g[s \ {First(s)}]]
    <3>1. g = [s \in SUBSET T |-> g[s]]
      OBVIOUS
    <3> HIDE DEF g
    <3> QED BY <2>3, <3>1
  <2>5. Adds(f, T, g)
    <3> HIDE DEF g
    <3> QED BY <2>4 DEF Adds
  <2> QED BY <2>5
<1>2. S \in G
  <2> HIDE DEF G
  <2> QED BY <1>1, SubsetInduction
<1> QED BY <1>2 DEF Adder

\* Nothing adds up to zero.
LEMMA SumEmpty ==
  ASSUME NEW f
  PROVE  SumFunctionOnSet(f, {}) = 0
<1>1. Adds(f, {}, Adder(f, {}))
  BY AdderAdds, FS_EmptySet
<1> QED BY <1>1, SumIsAdders DEF Adds

\* The sum takes the first element, and goes on with the rest.
LEMMA SumFirst ==
  ASSUME NEW f, NEW S, IsFiniteSet(S), S # {}
  PROVE  SumFunctionOnSet(f, S) = f[First(S)] + SumFunctionOnSet(f, S \ {First(S)})
<1> DEFINE R == S \ {First(S)}
<1>1. R \in SUBSET S /\ IsFiniteSet(R)
  BY FS_Subset
<1>2. Adds(f, S, Adder(f, S)) /\ Adds(f, R, Adder(f, R))
  BY <1>1, AdderAdds
<1>3. Adder(f, S)[S] = f[First(S)] + Adder(f, S)[R]
  BY <1>2 DEF Adds
<1>4. Adder(f, S)[R] = Adder(f, R)[R]
  BY <1>1, <1>2, AddsOnce
<1> QED BY <1>3, <1>4, SumIsAdders

\* Sums of integers, and of naturals, are what one expects.
LEMMA SumInt ==
  ASSUME NEW f, NEW S, IsFiniteSet(S), \A x \in S : f[x] \in Int
  PROVE  \A T \in SUBSET S : SumFunctionOnSet(f, T) \in Int
<1> DEFINE G == {T \in SUBSET S : SumFunctionOnSet(f, T) \in Int}
<1>1. ASSUME NEW T \in SUBSET S, \A U \in SUBSET T : U # T => U \in G PROVE T \in G
  <2>1. CASE T = {}
    BY <2>1, SumEmpty
  <2>2. CASE T # {}
    <3>1. First(T) \in T
      BY <2>2 DEF First
    <3>2. T \ {First(T)} \in G
      BY <1>1, <3>1
    <3>3. IsFiniteSet(T)
      BY FS_Subset
    <3> QED BY <2>2, <3>1, <3>2, <3>3, SumFirst
  <2> QED BY <2>1, <2>2
<1>2. \A T \in SUBSET S : T \in G
  <2> HIDE DEF G
  <2> QED BY <1>1, SubsetInduction
<1> QED BY <1>2

\* Natural numbers add up to one.
LEMMA SumNat ==
  ASSUME NEW f, NEW S, IsFiniteSet(S), \A x \in S : f[x] \in Nat
  PROVE  \A T \in SUBSET S : SumFunctionOnSet(f, T) \in Nat
<1> DEFINE G == {T \in SUBSET S : SumFunctionOnSet(f, T) \in Nat}
<1>1. ASSUME NEW T \in SUBSET S, \A U \in SUBSET T : U # T => U \in G PROVE T \in G
  <2>1. CASE T = {}
    BY <2>1, SumEmpty
  <2>2. CASE T # {}
    <3>1. First(T) \in T
      BY <2>2 DEF First
    <3>2. T \ {First(T)} \in G
      BY <1>1, <3>1
    <3>3. IsFiniteSet(T)
      BY FS_Subset
    <3> QED BY <2>2, <3>1, <3>2, <3>3, SumFirst
  <2> QED BY <2>1, <2>2
<1>2. \A T \in SUBSET S : T \in G
  <2> HIDE DEF G
  <2> QED BY <1>1, SubsetInduction
<1> QED BY <1>2

\* Any element may be taken out first.
LEMMA SumTake ==
  ASSUME NEW f, NEW S, IsFiniteSet(S), \A x \in S : f[x] \in Int
  PROVE  \A x \in S : SumFunctionOnSet(f, S) = f[x] + SumFunctionOnSet(f, S \ {x})
<1> DEFINE G == {T \in SUBSET S :
                   \A x \in T : SumFunctionOnSet(f, T) = f[x] + SumFunctionOnSet(f, T \ {x})}
<1>1. ASSUME NEW T \in SUBSET S, \A U \in SUBSET T : U # T => U \in G PROVE T \in G
  <2> SUFFICES ASSUME NEW x \in T
               PROVE  SumFunctionOnSet(f, T) = f[x] + SumFunctionOnSet(f, T \ {x})
    OBVIOUS
  <2> DEFINE c == First(T)
             R == (T \ {x}) \ {c}
  <2>1. c \in T
    BY DEF First
  <2>2. IsFiniteSet(T)
    BY FS_Subset
  <2>3. SumFunctionOnSet(f, T) = f[c] + SumFunctionOnSet(f, T \ {c})
    BY <2>2, SumFirst
  <2>4. CASE x = c
    BY <2>3, <2>4
  <2>5. CASE x # c
    <3>1. T \ {c} \in G /\ T \ {x} \in G
      BY <1>1, <2>1
    <3>2. (T \ {c}) \ {x} = R
      OBVIOUS
    <3>3. SumFunctionOnSet(f, T \ {c}) = f[x] + SumFunctionOnSet(f, R)
      BY <2>5, <3>1, <3>2
    <3>4. SumFunctionOnSet(f, T \ {x}) = f[c] + SumFunctionOnSet(f, R)
      BY <2>1, <2>5, <3>1
    <3>5. SumFunctionOnSet(f, R) \in Int /\ f[x] \in Int /\ f[c] \in Int
      BY <2>1, SumInt
    <3> QED BY <2>3, <3>3, <3>4, <3>5
  <2> QED BY <2>4, <2>5
<1>2. \A T \in SUBSET S : T \in G
  <2> HIDE DEF G
  <2> QED BY <1>1, SubsetInduction
<1> QED BY <1>2

\* The sum depends on the values in the set only.
LEMMA SumSame ==
  ASSUME NEW f, NEW g, NEW S, IsFiniteSet(S), \A x \in S : f[x] = g[x]
  PROVE  \A T \in SUBSET S : SumFunctionOnSet(f, T) = SumFunctionOnSet(g, T)
<1> DEFINE G == {T \in SUBSET S : SumFunctionOnSet(f, T) = SumFunctionOnSet(g, T)}
<1>1. ASSUME NEW T \in SUBSET S, \A U \in SUBSET T : U # T => U \in G PROVE T \in G
  <2>1. CASE T = {}
    BY <2>1, SumEmpty
  <2>2. CASE T # {}
    <3>1. First(T) \in T
      BY <2>2 DEF First
    <3>2. T \ {First(T)} \in G
      BY <1>1, <3>1
    <3>3. IsFiniteSet(T)
      BY FS_Subset
    <3> QED BY <2>2, <3>1, <3>2, <3>3, SumFirst
  <2> QED BY <2>1, <2>2
<1>2. \A T \in SUBSET S : T \in G
  <2> HIDE DEF G
  <2> QED BY <1>1, SubsetInduction
<1> QED BY <1>2

\* Smaller values add up to no more.
LEMMA SumAtMost ==
  ASSUME NEW f, NEW g, NEW S, IsFiniteSet(S),
         \A x \in S : f[x] \in Int /\ g[x] \in Int /\ f[x] <= g[x]
  PROVE  SumFunctionOnSet(f, S) <= SumFunctionOnSet(g, S)
<1> DEFINE G == {T \in SUBSET S : SumFunctionOnSet(f, T) <= SumFunctionOnSet(g, T)}
<1>0. \A T \in SUBSET S : SumFunctionOnSet(f, T) \in Int /\ SumFunctionOnSet(g, T) \in Int
  BY SumInt
<1>1. ASSUME NEW T \in SUBSET S, \A U \in SUBSET T : U # T => U \in G PROVE T \in G
  <2>1. CASE T = {}
    BY <2>1, SumEmpty
  <2>2. CASE T # {}
    <3>1. First(T) \in T
      BY <2>2 DEF First
    <3>2. T \ {First(T)} \in G
      BY <1>1, <3>1
    <3>3. IsFiniteSet(T)
      BY FS_Subset
    <3>4. /\ SumFunctionOnSet(f, T) = f[First(T)] + SumFunctionOnSet(f, T \ {First(T)})
          /\ SumFunctionOnSet(g, T) = g[First(T)] + SumFunctionOnSet(g, T \ {First(T)})
      BY <2>2, <3>3, SumFirst
    <3> QED BY <1>0, <3>1, <3>2, <3>4
  <2> QED BY <2>1, <2>2
<1>2. \A T \in SUBSET S : T \in G
  <2> HIDE DEF G
  <2> QED BY <1>1, SubsetInduction
<1> QED BY <1>2

\* The sum of sums.
LEMMA SumPlus ==
  ASSUME NEW f, NEW g, NEW h, NEW S, IsFiniteSet(S),
         \A x \in S : f[x] \in Int /\ g[x] \in Int /\ h[x] = f[x] + g[x]
  PROVE  SumFunctionOnSet(h, S) = SumFunctionOnSet(f, S) + SumFunctionOnSet(g, S)
<1> DEFINE G == {T \in SUBSET S : SumFunctionOnSet(h, T) =
                   SumFunctionOnSet(f, T) + SumFunctionOnSet(g, T)}
<1>0. \A T \in SUBSET S : SumFunctionOnSet(f, T) \in Int /\ SumFunctionOnSet(g, T) \in Int
  BY SumInt
<1>1. ASSUME NEW T \in SUBSET S, \A U \in SUBSET T : U # T => U \in G PROVE T \in G
  <2>1. CASE T = {}
    BY <2>1, SumEmpty
  <2>2. CASE T # {}
    <3>1. First(T) \in T
      BY <2>2 DEF First
    <3>2. T \ {First(T)} \in G
      BY <1>1, <3>1
    <3>3. IsFiniteSet(T)
      BY FS_Subset
    <3>4. /\ SumFunctionOnSet(f, T) = f[First(T)] + SumFunctionOnSet(f, T \ {First(T)})
          /\ SumFunctionOnSet(g, T) = g[First(T)] + SumFunctionOnSet(g, T \ {First(T)})
          /\ SumFunctionOnSet(h, T) = h[First(T)] + SumFunctionOnSet(h, T \ {First(T)})
      BY <2>2, <3>3, SumFirst
    <3> QED BY <1>0, <3>1, <3>2, <3>4
  <2> QED BY <2>1, <2>2
<1>2. \A T \in SUBSET S : T \in G
  <2> HIDE DEF G
  <2> QED BY <1>1, SubsetInduction
<1> QED BY <1>2

\* Multiplication distributes over addition.
LEMMA Distributes ==
  ASSUME NEW k \in Int, NEW a \in Int, NEW b \in Int
  PROVE  k * (a + b) = k * a + k * b /\ k * a \in Int /\ k * 0 = 0
OBVIOUS

\* A common factor stands before the sum.
LEMMA SumTimes ==
  ASSUME NEW k \in Int, NEW f, NEW h, NEW S, IsFiniteSet(S),
         \A x \in S : f[x] \in Int /\ h[x] = k * f[x]
  PROVE  SumFunctionOnSet(h, S) = k * SumFunctionOnSet(f, S)
<1> DEFINE G == {T \in SUBSET S : SumFunctionOnSet(h, T) = k * SumFunctionOnSet(f, T)}
<1>0. \A T \in SUBSET S : SumFunctionOnSet(f, T) \in Int
  BY SumInt
<1>1. ASSUME NEW T \in SUBSET S, \A U \in SUBSET T : U # T => U \in G PROVE T \in G
  <2>1. CASE T = {}
    BY <2>1, SumEmpty, Distributes
  <2>2. CASE T # {}
    <3>1. First(T) \in T
      BY <2>2 DEF First
    <3>2. T \ {First(T)} \in G
      BY <1>1, <3>1
    <3>3. IsFiniteSet(T)
      BY FS_Subset
    <3>4. SumFunctionOnSet(f, T) = f[First(T)] + SumFunctionOnSet(f, T \ {First(T)})
      BY <2>2, <3>3, SumFirst
    <3>5. SumFunctionOnSet(h, T) = k * f[First(T)] + k * SumFunctionOnSet(f, T \ {First(T)})
      BY <2>2, <3>1, <3>2, <3>3, SumFirst
    <3>6. f[First(T)] \in Int /\ SumFunctionOnSet(f, T \ {First(T)}) \in Int
      BY <1>0, <3>1
    <3>7. k * SumFunctionOnSet(f, T) =
            k * f[First(T)] + k * SumFunctionOnSet(f, T \ {First(T)})
      BY <3>4, <3>6, Distributes
    <3> QED BY <3>5, <3>7
  <2> QED BY <2>1, <2>2
<1>2. \A T \in SUBSET S : T \in G
  <2> HIDE DEF G
  <2> QED BY <1>1, SubsetInduction
<1> QED BY <1>2

\* Ones count the elements that have them.
LEMMA SumCounts ==
  ASSUME NEW f, NEW P, NEW S, IsFiniteSet(S),
         \A x \in S : f[x] = IF x \in P THEN 1 ELSE 0
  PROVE  SumFunctionOnSet(f, S) = Cardinality(S \cap P)
<1> DEFINE G == {T \in SUBSET S : SumFunctionOnSet(f, T) = Cardinality(T \cap P)}
<1>1. ASSUME NEW T \in SUBSET S, \A U \in SUBSET T : U # T => U \in G PROVE T \in G
  <2>0. T \cap P \in SUBSET S /\ IsFiniteSet(T) /\ IsFiniteSet(T \cap P)
    BY FS_Subset
  <2>1. CASE T = {}
    <3>1. T \cap P = {}
      BY <2>1
    <3> QED BY <2>1, <3>1, SumEmpty, FS_EmptySet
  <2>2. CASE T # {}
    <3> DEFINE c == First(T)
               R == T \ {c}
    <3>1. c \in T
      BY <2>2 DEF First
    <3>2. SumFunctionOnSet(f, R) = Cardinality(R \cap P)
      BY <1>1, <3>1
    <3>3. SumFunctionOnSet(f, T) = f[c] + SumFunctionOnSet(f, R)
      BY <2>0, <2>2, SumFirst
    <3>4. R \cap P = (T \cap P) \ {c}
      OBVIOUS
    <3>5. Cardinality(R \cap P) = IF c \in P THEN Cardinality(T \cap P) - 1
                                             ELSE Cardinality(T \cap P)
      BY <2>0, <3>1, <3>4, FS_RemoveElement
    <3>6. Cardinality(T \cap P) \in Nat
      BY <2>0, FS_CardinalityType
    <3>7. f[c] = IF c \in P THEN 1 ELSE 0
      BY <3>1
    <3> HIDE DEF c, R
    <3> QED BY <3>2, <3>3, <3>5, <3>6, <3>7
  <2> QED BY <2>1, <2>2
<1>2. \A T \in SUBSET S : T \in G
  <2> HIDE DEF G
  <2> QED BY <1>1, SubsetInduction
<1> QED BY <1>2

\* Zeros may be left out.
LEMMA SumWithoutZeros ==
  ASSUME NEW f, NEW S, IsFiniteSet(S), NEW P \in SUBSET S,
         \A x \in P : f[x] \in Int, \A x \in S \ P : f[x] = 0
  PROVE  SumFunctionOnSet(f, S) = SumFunctionOnSet(f, P)
<1> DEFINE G == {T \in SUBSET S : SumFunctionOnSet(f, T) = SumFunctionOnSet(f, T \cap P)}
<1>0. \A x \in S : f[x] \in Int
  OBVIOUS
<1>1. ASSUME NEW T \in SUBSET S, \A U \in SUBSET T : U # T => U \in G PROVE T \in G
  <2>0. T \cap P \in SUBSET S /\ IsFiniteSet(T) /\ IsFiniteSet(T \cap P)
    BY FS_Subset
  <2>1. CASE T \ P = {}
    <3>1. T \cap P = T
      BY <2>1
    <3> QED BY <3>1
  <2>2. CASE T \ P # {}
    <3>1. PICK x \in T \ P : TRUE
      BY <2>2
    <3>2. SumFunctionOnSet(f, T) = f[x] + SumFunctionOnSet(f, T \ {x})
      BY <1>0, <2>0, <3>1, SumTake
    <3>3. (T \ {x}) \cap P = T \cap P
      BY <3>1
    <3>4. T \ {x} \in G
      BY <1>1, <3>1
    <3>5. SumFunctionOnSet(f, T \ {x}) \in Int /\ f[x] = 0
      BY <1>0, <3>1, SumInt
    <3>6. SumFunctionOnSet(f, T \ {x}) = SumFunctionOnSet(f, T \cap P)
      BY <3>3, <3>4
    <3>7. SumFunctionOnSet(f, T) = SumFunctionOnSet(f, T \cap P)
      BY <3>2, <3>5, <3>6
    <3> QED BY <3>7
  <2> QED BY <2>1, <2>2
<1>2. \A T \in SUBSET S : T \in G
  <2> HIDE DEF G
  <2> QED BY <1>1, SubsetInduction
<1>3. S \cap P = P
  OBVIOUS
<1> QED BY <1>2, <1>3

\* A sum over indices is the sum over what they stand for.
LEMMA SumRenamed ==
  ASSUME NEW f, NEW g, NEW h, NEW S, IsFiniteSet(S),
         \A x, y \in S : h[x] = h[y] => x = y,
         \A x \in S : f[h[x]] \in Int /\ g[x] = f[h[x]]
  PROVE  SumFunctionOnSet(g, S) = SumFunctionOnSet(f, {h[x] : x \in S})
<1> DEFINE G == {T \in SUBSET S : SumFunctionOnSet(g, T) =
                   SumFunctionOnSet(f, {h[x] : x \in T})}
<1>1. ASSUME NEW T \in SUBSET S, \A U \in SUBSET T : U # T => U \in G PROVE T \in G
  <2>0. IsFiniteSet(T)
    BY FS_Subset
  <2>1. CASE T = {}
    <3>1. {h[x] : x \in T} = {}
      BY <2>1
    <3> QED BY <2>1, <3>1, SumEmpty
  <2>2. CASE T # {}
    <3> DEFINE c == First(T)
               R == T \ {c}
               I == {h[x] : x \in T}
    <3>1. c \in T
      BY <2>2 DEF First
    <3>2. SumFunctionOnSet(g, R) = SumFunctionOnSet(f, {h[x] : x \in R})
      BY <1>1, <3>1
    <3>3. SumFunctionOnSet(g, T) = g[c] + SumFunctionOnSet(g, R)
      BY <2>0, <2>2, SumFirst
    <3>4. {h[x] : x \in R} = I \ {h[c]}
      BY <3>1
    <3>5. IsFiniteSet(I)
      <4>1. [x \in T |-> h[x]] \in Surjection(T, I)
        BY DEF Surjection
      <4> QED BY <2>0, <4>1, FS_Surjection
    <3>6. \A y \in I : f[y] \in Int
      OBVIOUS
    <3>7. h[c] \in I
      BY <3>1
    <3>8. SumFunctionOnSet(f, I) = f[h[c]] + SumFunctionOnSet(f, I \ {h[c]})
      <4> HIDE DEF I, c
      <4> QED BY <3>5, <3>6, <3>7, SumTake
    <3>9. g[c] = f[h[c]]
      BY <3>1
    <3> HIDE DEF I, R, c
    <3>10. SumFunctionOnSet(g, T) = SumFunctionOnSet(f, I)
      BY <3>2, <3>3, <3>4, <3>8, <3>9
    <3> QED BY <3>10 DEF I
  <2> QED BY <2>1, <2>2
<1>2. \A T \in SUBSET S : T \in G
  <2> HIDE DEF G
  <2> QED BY <1>1, SubsetInduction
<1> QED BY <1>2

\* A sum is the sum of the sums over classes.
LEMMA SumByClass ==
  ASSUME NEW f, NEW S, IsFiniteSet(S), NEW K, IsFiniteSet(K), NEW class,
         \A x \in S : f[x] \in Int /\ class[x] \in K
  PROVE  SumFunctionOnSet(f, S) =
           SumFunctionOnSet([k \in K |-> SumFunctionOnSet(f, {x \in S : class[x] = k})], K)
<1> DEFINE In(T, k) == {x \in T : class[x] = k}
           Parts(T) == [k \in K |-> SumFunctionOnSet(f, In(T, k))]
           G == {T \in SUBSET S : SumFunctionOnSet(f, T) = SumFunctionOnSet(Parts(T), K)}
<1>0. \A T \in SUBSET S : \A k : SumFunctionOnSet(f, In(T, k)) \in Int
  <2> SUFFICES ASSUME NEW T \in SUBSET S, NEW k
               PROVE  SumFunctionOnSet(f, In(T, k)) \in Int
    OBVIOUS
  <2>1. In(T, k) \in SUBSET S
    OBVIOUS
  <2> QED BY <2>1, SumInt
<1>1. ASSUME NEW T \in SUBSET S, \A U \in SUBSET T : U # T => U \in G PROVE T \in G
  <2>0. IsFiniteSet(T)
    BY FS_Subset
  <2>1. CASE T = {}
    <3>1. \A k \in K : Parts(T)[k] = 0
      <4> SUFFICES ASSUME NEW k \in K PROVE SumFunctionOnSet(f, In(T, k)) = 0
        OBVIOUS
      <4>1. In(T, k) = {}
        BY <2>1
      <4> QED BY <4>1, SumEmpty
    <3>2. SumFunctionOnSet(Parts(T), K) = SumFunctionOnSet(Parts(T), {})
      <4> HIDE DEF Parts
      <4> QED BY <3>1, SumWithoutZeros
    <3> QED BY <2>1, <3>2, SumEmpty
  <2>2. CASE T # {}
    <3> DEFINE c == First(T)
               R == T \ {c}
               m == class[c]
               A == Parts(T)
               B == Parts(R)
    <3>1. c \in T /\ m \in K
      BY <2>2 DEF First
    <3>2. SumFunctionOnSet(f, R) = SumFunctionOnSet(B, K)
      BY <1>1, <3>1
    <3>3. SumFunctionOnSet(f, T) = f[c] + SumFunctionOnSet(f, R)
      BY <2>0, <2>2, SumFirst
    <3>4. \A k \in K : A[k] \in Int /\ B[k] \in Int
      BY <1>0
    <3>5. A[m] = f[c] + B[m]
      <4>1. In(T, m) \in SUBSET S /\ c \in In(T, m) /\ IsFiniteSet(In(T, m))
        BY <3>1, FS_Subset
      <4>2. In(T, m) \ {c} = In(R, m)
        OBVIOUS
      <4>3. \A x \in In(T, m) : f[x] \in Int
        OBVIOUS
      <4>4. SumFunctionOnSet(f, In(T, m)) = f[c] + SumFunctionOnSet(f, In(T, m) \ {c})
        <5> HIDE DEF In, c, m
        <5> QED BY <4>1, <4>3, SumTake
      <4> QED BY <3>1, <4>2, <4>4
    <3>6. \A k \in K \ {m} : A[k] = B[k]
      <4> SUFFICES ASSUME NEW k \in K \ {m} PROVE A[k] = B[k]
        OBVIOUS
      <4>1. In(T, k) = In(R, k)
        OBVIOUS
      <4> QED BY <4>1
    <3>7. /\ SumFunctionOnSet(A, K) = A[m] + SumFunctionOnSet(A, K \ {m})
          /\ SumFunctionOnSet(B, K) = B[m] + SumFunctionOnSet(B, K \ {m})
      <4> HIDE DEF A, B, m
      <4> QED BY <3>1, <3>4, SumTake
    <3>8. SumFunctionOnSet(A, K \ {m}) = SumFunctionOnSet(B, K \ {m})
      <4>1. IsFiniteSet(K \ {m})
        BY FS_Subset
      <4> HIDE DEF A, B, m
      <4> QED BY <3>6, <4>1, SumSame
    <3>9. SumFunctionOnSet(B, K \ {m}) \in Int
      <4> HIDE DEF B
      <4> QED BY <3>4, SumInt
    <3>10. f[c] \in Int /\ B[m] \in Int
      BY <3>1, <3>4
    <3> HIDE DEF A, B, R, m, c
    <3>11. SumFunctionOnSet(f, T) = SumFunctionOnSet(A, K)
      BY <3>2, <3>3, <3>5, <3>7, <3>8, <3>9, <3>10
    <3> QED BY <3>11 DEF A
  <2> QED BY <2>1, <2>2
<1>2. \A T \in SUBSET S : T \in G
  <2> HIDE DEF G
  <2> QED BY <1>1, SubsetInduction
<1> QED BY <1>2
-----------------------------------------------------------------------------
\* ahead gives each element of D those before it in a strict total order.
InOneLine(ahead, D) ==
  /\ ahead \in [D -> SUBSET D]
  /\ \A x \in D : x \notin ahead[x]
  /\ \A x, y \in D : y \in ahead[x] => ahead[y] \subseteq ahead[x]
  /\ \A x, y \in D : x # y => x \in ahead[y] \/ y \in ahead[x]

\* Who is ahead has fewer ahead of it.
LEMMA RanksGrow ==
  ASSUME NEW D, IsFiniteSet(D), NEW ahead, InOneLine(ahead, D)
  PROVE  \A x, y \in D :
           /\ Cardinality(ahead[x]) \in 0..Cardinality(D) - 1
           /\ y \in ahead[x] <=> Cardinality(ahead[y]) < Cardinality(ahead[x])
           /\ Cardinality(ahead[x]) = Cardinality(ahead[y]) => x = y
<1>1. Cardinality(D) \in Nat
  BY FS_CardinalityType
<1>2. ASSUME NEW x \in D
      PROVE  Cardinality(ahead[x]) \in 0..Cardinality(D) - 1
  <2>1. ahead[x] \in SUBSET D /\ ahead[x] # D
    BY DEF InOneLine
  <2>2. IsFiniteSet(ahead[x]) /\ Cardinality(ahead[x]) <= Cardinality(D)
        /\ Cardinality(ahead[x]) # Cardinality(D)
    BY <2>1, FS_Subset
  <2>3. Cardinality(ahead[x]) \in Nat
    BY <2>2, FS_CardinalityType
  <2> QED BY <1>1, <2>2, <2>3
<1>3. ASSUME NEW x \in D, NEW y \in D, y \in ahead[x]
      PROVE  Cardinality(ahead[y]) < Cardinality(ahead[x])
  <2>1. ahead[y] \in SUBSET ahead[x] /\ ahead[y] # ahead[x] /\ ahead[x] \in SUBSET D
    BY <1>3 DEF InOneLine
  <2>2. IsFiniteSet(ahead[x])
    BY <2>1, FS_Subset
  <2>3. Cardinality(ahead[y]) <= Cardinality(ahead[x])
        /\ Cardinality(ahead[y]) # Cardinality(ahead[x])
    BY <2>1, <2>2, FS_Subset
  <2> QED BY <1>1, <1>2, <2>3
<1>4. ASSUME NEW x \in D, NEW y \in D
      PROVE  x = y \/ x \in ahead[y] \/ y \in ahead[x]
  BY DEF InOneLine
<1> QED BY <1>1, <1>2, <1>3, <1>4

\* The ranks of n elements are 0 to n - 1, so that there are k elements below rank k.
LEMMA RanksFill ==
  ASSUME NEW D, IsFiniteSet(D), NEW ahead, InOneLine(ahead, D)
  PROVE  \A k \in 0..Cardinality(D) - 1 : \E x \in D : Cardinality(ahead[x]) = k
<1> DEFINE n == Cardinality(D)
           rank == [x \in D |-> Cardinality(ahead[x])]
<1>1. n \in Nat
  BY FS_CardinalityType
<1>2. IsFiniteSet(0..n - 1) /\ Cardinality(0..n - 1) = n
  <2>1. 0 \in Int /\ n - 1 \in Int
    BY <1>1
  <2>2. IsFiniteSet(0..n - 1) /\ Cardinality(0..n - 1) = IF 0 > n - 1 THEN 0 ELSE (n - 1) - 0 + 1
    BY <2>1, FS_Interval
  <2> QED BY <1>1, <2>2
<1>3. rank \in Injection(D, 0..n - 1)
  BY RanksGrow DEF Injection, IsInjective
<1>4. rank \in Surjection(D, 0..n - 1)
  <2> HIDE DEF rank
  <2> QED BY <1>2, <1>3, FS_Injection
<1> QED BY <1>4 DEF Surjection

\* k elements have fewer than k before them.
LEMMA RanksBelow ==
  ASSUME NEW D, IsFiniteSet(D), NEW ahead, InOneLine(ahead, D), NEW k \in 0..Cardinality(D)
  PROVE  Cardinality({x \in D : Cardinality(ahead[x]) < k}) = k
<1> DEFINE B == {x \in D : Cardinality(ahead[x]) < k}
           rank == [x \in B |-> Cardinality(ahead[x])]
<1>1. Cardinality(D) \in Nat /\ k \in Nat /\ IsFiniteSet(B)
  BY FS_CardinalityType, FS_Subset
<1>2. IsFiniteSet(0..k - 1) /\ Cardinality(0..k - 1) = k
  <2>1. 0 \in Int /\ k - 1 \in Int
    BY <1>1
  <2>2. IsFiniteSet(0..k - 1) /\ Cardinality(0..k - 1) = IF 0 > k - 1 THEN 0 ELSE (k - 1) - 0 + 1
    BY <2>1, FS_Interval
  <2> QED BY <1>1, <2>2
<1>3. rank \in Injection(B, 0..k - 1)
  BY <1>1, RanksGrow DEF Injection, IsInjective
<1>4. rank \in Surjection(B, 0..k - 1)
  <2>1. \A i \in 0..k - 1 : \E x \in D : Cardinality(ahead[x]) = i
    BY <1>1, RanksFill
  <2>2. \A i \in 0..k - 1 : \E x \in B : rank[x] = i
    BY <1>1, <2>1
  <2> QED BY <1>3, <2>2 DEF Surjection, Injection
<1>5. Cardinality(B) = k
  <2> HIDE DEF rank, B
  <2> QED BY <1>1, <1>2, <1>3, <1>4, FS_Injection
<1> QED BY <1>5
-----------------------------------------------------------------------------
\* Integers, further sums, and images.

\* Division leaves a remainder smaller than the divisor.
LEMMA Division ==
  ASSUME NEW a \in Nat, NEW b \in Nat, b > 0
  PROVE  /\ a \div b \in Nat /\ (a % b) \in 0..b - 1
         /\ a = b * (a \div b) + (a % b)
OBVIOUS

\* Multiplication by a positive number keeps the order.
LEMMA FactorAtMost ==
  ASSUME NEW b \in Nat, NEW m \in Int, NEW n \in Int, b > 0, m <= n
  PROVE  b * m <= b * n
OBVIOUS

\* What is left of a multiple after another one is a multiple.
LEMMA Factored ==
  ASSUME NEW s \in Int, NEW t \in Int, NEW b \in Int, NEW f \in Int, t * s = s * b + f
  PROVE  s * (t - b) = f
OBVIOUS

\* A positive factor cancels.
LEMMA Cancels ==
  ASSUME NEW b \in Nat, b > 0, NEW x \in Int, NEW a \in Int, b * x <= a * b
  PROVE  x <= a
OBVIOUS

\* The sum of a function is the sum over its domain.
LEMMA SumIsOnSet == \A f : SumFunction(f) = SumFunctionOnSet(f, DOMAIN f)
BY DEF SumFunction, SumFunctionOnSet, FoldFunction, FoldFunctionOnSet

\* One positive value makes a sum of natural numbers positive.
LEMMA SumPositive ==
  ASSUME NEW f, NEW S, IsFiniteSet(S), \A x \in S : f[x] \in Nat, NEW y \in S, f[y] > 0
  PROVE  SumFunctionOnSet(f, S) > 0
<1>1. \A x \in S : f[x] \in Int
  OBVIOUS
<1>2. SumFunctionOnSet(f, S) = f[y] + SumFunctionOnSet(f, S \ {y})
  BY <1>1, SumTake
<1>3. SumFunctionOnSet(f, S \ {y}) \in Nat
  BY SumNat
<1> QED BY <1>2, <1>3

\* Ones add up to the number of elements.
LEMMA SumOfOnes ==
  ASSUME NEW D, IsFiniteSet(D)
  PROVE  SumFunctionOnSet([i \in D |-> 1], D) = Cardinality(D)
<1> DEFINE ones == [i \in D |-> 1]
<1>1. \A i \in D : ones[i] = IF i \in D THEN 1 ELSE 0
  OBVIOUS
<1>2. D \cap D = D
  OBVIOUS
<1> HIDE DEF ones
<1>3. SumFunctionOnSet(ones, D) = Cardinality(D \cap D)
  BY <1>1, SumCounts
<1> QED BY <1>2, <1>3 DEF ones

\* A part of the values adds up to no more than all.
LEMMA SumOfPart ==
  ASSUME NEW f, NEW S, IsFiniteSet(S), \A x \in S : f[x] \in Nat, NEW T \in SUBSET S
  PROVE  SumFunctionOnSet(f, T) <= SumFunctionOnSet(f, S)
<1> DEFINE h == [x \in S |-> IF x \in T THEN f[x] ELSE 0]
<1>1. /\ \A x \in S : h[x] \in Int /\ f[x] \in Int /\ h[x] <= f[x]
      /\ \A x \in T : h[x] \in Int /\ h[x] = f[x]
      /\ \A x \in S \ T : h[x] = 0
  OBVIOUS
<1>2. IsFiniteSet(T)
  BY FS_Subset
<1> HIDE DEF h
<1>3. SumFunctionOnSet(h, S) <= SumFunctionOnSet(f, S)
  BY <1>1, SumAtMost
<1>4. SumFunctionOnSet(h, S) = SumFunctionOnSet(h, T)
  BY <1>1, SumWithoutZeros
<1>5. SumFunctionOnSet(h, T) = SumFunctionOnSet(f, T)
  BY <1>1, <1>2, SumSame
<1> QED BY <1>3, <1>4, <1>5

\* A unit that goes from one to another leaves the sum as it is.
LEMMA UnitMoves ==
  ASSUME NEW K, IsFiniteSet(K), NEW d \in K, NEW x \in K, d # x, NEW f, NEW g,
         \A w \in K : f[w] \in Int /\ g[w] \in Int,
         g[d] = f[d] - 1, g[x] = f[x] + 1, \A w \in K \ {d, x} : g[w] = f[w]
  PROVE  SumFunctionOnSet(g, K) = SumFunctionOnSet(f, K)
<1> DEFINE R == (K \ {d}) \ {x}
<1>1. IsFiniteSet(K \ {d}) /\ IsFiniteSet(R)
  BY FS_Subset
<1>2. /\ SumFunctionOnSet(f, K) = f[d] + SumFunctionOnSet(f, K \ {d})
      /\ SumFunctionOnSet(g, K) = g[d] + SumFunctionOnSet(g, K \ {d})
  BY SumTake
<1>3. /\ SumFunctionOnSet(f, K \ {d}) = f[x] + SumFunctionOnSet(f, R)
      /\ SumFunctionOnSet(g, K \ {d}) = g[x] + SumFunctionOnSet(g, R)
  <2>1. x \in K \ {d} /\ \A w \in K \ {d} : f[w] \in Int /\ g[w] \in Int
    OBVIOUS
  <2> QED BY <1>1, <2>1, SumTake
<1>4. SumFunctionOnSet(g, R) = SumFunctionOnSet(f, R)
  <2>1. \A w \in R : g[w] = f[w]
    OBVIOUS
  <2> HIDE DEF R
  <2> QED BY <1>1, <2>1, SumSame
<1>5. SumFunctionOnSet(f, R) \in Int /\ f[d] \in Int /\ f[x] \in Int
  BY SumInt
<1> HIDE DEF R
<1> QED BY <1>2, <1>3, <1>4, <1>5

\* A function has no more values than arguments, and as many if it is one-to-one.
LEMMA ImageSize ==
  ASSUME NEW S, IsFiniteSet(S), NEW f
  PROVE  /\ IsFiniteSet({f[x] : x \in S})
         /\ Cardinality({f[x] : x \in S}) <= Cardinality(S)
         /\ (\A x, y \in S : f[x] = f[y] => x = y)
              => Cardinality({f[x] : x \in S}) = Cardinality(S)
<1> DEFINE h == [x \in S |-> f[x]]
           I == {f[x] : x \in S}
<1>1. h \in Surjection(S, I)
  BY DEF Surjection
<1>2. (\A x, y \in S : f[x] = f[y] => x = y) => h \in Injection(S, I)
  BY DEF Injection, IsInjective
<1>3. /\ IsFiniteSet(I) /\ Cardinality(I) <= Cardinality(S)
      /\ Cardinality(I) = Cardinality(S) <=> h \in Injection(S, I)
  <2> HIDE DEF h, I
  <2> QED BY <1>1, FS_Surjection
<1> HIDE DEF h
<1> QED BY <1>2, <1>3
=============================================================================
