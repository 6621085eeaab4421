---------------------------- MODULE CommonLemmas ----------------------------
(***************************************************************************)
(* Facts that the proofs about several components share: about naturals,   *)
(* recursive functions, folds and sums over finite sets, and sequences.    *)
(* Induction is stated for a set of naturals, so that it can be cited      *)
(* without an operator as a parameter: it follows from the strict          *)
(* inclusion of finite sets being well founded.                            *)
(***************************************************************************)
EXTENDS Integers, Sequences, FiniteSets, FiniteSetsExt, SequencesExt,
        FiniteSetTheorems, SequenceTheorems, WellFoundedInduction, TLAPS

(* A set of naturals that is not empty has a least element.                *)
LEMMA LeastOfNaturals ==
    ASSUME NEW S \in SUBSET Nat, S # {}
    PROVE  Min(S) \in S /\ \A n \in S : Min(S) <= n
<1>. DEFINE below == {0 .. n - 1 : n \in S}
<1>1. below \subseteq FiniteSubsetsOf(Nat) /\ below # {}
  <2>1. \A n \in S : IsFiniteSet(0 .. n - 1) /\ 0 .. n - 1 \subseteq Nat
    BY FS_Interval
  <2>. QED
    BY <2>1 DEF FiniteSubsetsOf
<1>2. PICK b \in below : \A c \in below : ~(<<c, b>> \in StrictSubsetOrdering(Nat))
  BY <1>1, FS_StrictSubsetOrderingWellFounded, WFMin
<1>3. PICK n \in S : b = 0 .. n - 1
  OBVIOUS
<1>4. ASSUME NEW m \in S, m < n
      PROVE  FALSE
  <2>1. 0 .. m - 1 \in below /\ 0 .. m - 1 \subseteq 0 .. n - 1
    BY <1>4
  <2>2. m \in 0 .. n - 1 /\ m \notin 0 .. m - 1
    BY <1>4
  <2>3. <<0 .. m - 1, 0 .. n - 1>> \in StrictSubsetOrdering(Nat)
    BY <2>1, <2>2 DEF StrictSubsetOrdering
  <2>. QED
    BY <1>2, <1>3, <2>1, <2>3
<1>5. \A m \in S : n <= m
  BY <1>4
<1>. QED
  BY <1>5 DEF Min

(* The greatest of numbers that have a bound.                              *)
LEMMA GreatestOfBounded ==
    ASSUME NEW S \in SUBSET Nat, S # {}, NEW n \in Nat, \A x \in S : x <= n
    PROVE  Max(S) \in S /\ \A x \in S : x <= Max(S)
<1> DEFINE U == {u \in Nat : \A x \in S : x <= u}
<1>1. n \in U
  OBVIOUS
<1>2. Min(U) \in U /\ \A u \in U : Min(U) <= u
  BY <1>1, LeastOfNaturals
<1> DEFINE m == Min(U)
<1>3. m \in Nat /\ \A x \in S : x <= m
  BY <1>2
<1>4. \A u \in U : m <= u
  BY <1>2
<1> HIDE DEF m
<1>5. m \in S
  <2> SUFFICES ASSUME m \notin S PROVE FALSE
    OBVIOUS
  <2>1. \A x \in S : x < m
    BY <1>3
  <2>2. PICK x \in S : TRUE
    OBVIOUS
  <2>3. x \in Nat /\ x < m
    BY <2>1
  <2>4. m - 1 \in Nat
    BY <1>3, <2>3
  <2>5. \A y \in S : y <= m - 1
    BY <2>1, <1>3
  <2>6. m - 1 \in U
    BY <2>4, <2>5
  <2>7. m <= m - 1
    BY <2>6, <1>4
  <2> QED BY <2>7, <1>3
<1>6. \E x \in S : \A y \in S : x >= y
  BY <1>3, <1>5
<1> QED BY <1>6 DEF Max

(* The greater of two naturals is one of them.                             *)
LEMMA GreaterOfTwo ==
    ASSUME NEW a \in Nat, NEW b \in Nat
    PROVE  Max({a, b}) \in Nat /\ Max({a, b}) >= a /\ Max({a, b}) >= b
<1>1. \E x \in {a, b} : \A y \in {a, b} : x >= y
  OBVIOUS
<1>. QED
  BY <1>1 DEF Max

(* The lesser of two is no greater than either.                            *)
LEMMA LesserOfTwo ==
    ASSUME NEW a \in Nat, NEW b \in Nat
    PROVE  Min({a, b}) \in Nat /\ Min({a, b}) <= a /\ Min({a, b}) <= b
<1>. QED
  BY LeastOfNaturals

(* Induction: a set that holds 0 and the successor of each of its elements *)
(* holds every natural.                                                    *)
LEMMA InductionOnASet ==
    ASSUME NEW S \in SUBSET Nat, 0 \in S, \A n \in S : n + 1 \in S
    PROVE  S = Nat
<1>1. SUFFICES ASSUME Nat \ S # {} PROVE FALSE
  OBVIOUS
<1>2. PICK n \in Nat \ S : \A m \in Nat \ S : n <= m
  BY <1>1, LeastOfNaturals
<1>3. n - 1 \in Nat /\ n - 1 \notin S
  BY <1>2
<1>4. n <= n - 1
  BY <1>2, <1>3
<1>. QED
  BY <1>2, <1>4

(* A recursive function on 0 .. N: it starts at z, and step says what comes *)
(* after each value.                                                       *)
IsStep(step, N, A) == step \in [1 .. N -> [A -> A]]
IsRecursion(f, N, A, z, step) ==
    /\ f \in [0 .. N -> A]
    /\ f[0] = z /\ \A i \in 1 .. N : f[i] = step[i][f[i - 1]]

(* There is one.                                                           *)
LEMMA RecursionExists ==
    ASSUME NEW N \in Nat, NEW A, NEW z \in A, NEW step, IsStep(step, N, A)
    PROVE  \E f : IsRecursion(f, N, A, z, step)
<1>. USE DEF IsStep, IsRecursion
<1>. DEFINE Solves(f, n) == f[0] = z /\ \A i \in 1 .. n : f[i] = step[i][f[i - 1]]
            S == {n \in Nat : n <= N => \E f \in [0 .. n -> A] : Solves(f, n)}
<1>1. 0 \in S
  <2>1. [i \in 0 .. 0 |-> z] \in [0 .. 0 -> A] /\ Solves([i \in 0 .. 0 |-> z], 0)
    OBVIOUS
  <2>. QED
    BY <2>1
<1>2. ASSUME NEW n \in S, n + 1 <= N
      PROVE  \E f \in [0 .. n + 1 -> A] : Solves(f, n + 1)
  <2>1. PICK f \in [0 .. n -> A] : Solves(f, n)
    BY <1>2
  <2>. DEFINE g == [i \in 0 .. n + 1 |-> IF i \in 0 .. n THEN f[i] ELSE step[n + 1][f[n]]]
  <2>2. step[n + 1][f[n]] \in A
    BY <1>2
  <2>3. g \in [0 .. n + 1 -> A]
    BY <2>2
  <2>4. ASSUME NEW i \in 1 .. n + 1
        PROVE  g[i] = step[i][g[i - 1]]
    <3>1. CASE i = n + 1
      BY <3>1
    <3>2. CASE i \in 1 .. n
      <4>1. f[i] = step[i][f[i - 1]]
        BY <2>1, <3>2
      <4>. QED
        BY <3>2, <4>1
    <3>. QED
      BY <3>1, <3>2
  <2>5. g[0] = z
    BY <2>1
  <2>. HIDE DEF g
  <2>6. Solves(g, n + 1)
    BY <2>4, <2>5
  <2>. QED
    BY <2>3, <2>6
<1>3. S = Nat
  <2>. HIDE DEF Solves
  <2>1. ASSUME NEW n \in S
        PROVE  n + 1 \in S
    <3>1. n + 1 \in Nat
      OBVIOUS
    <3>2. n + 1 <= N => \E f \in [0 .. n + 1 -> A] : Solves(f, n + 1)
      BY <1>2
    <3>. QED
      BY <3>1, <3>2
  <2>. HIDE DEF S
  <2>2. S \subseteq Nat
    BY DEF S
  <2>. QED
    BY <1>1, <2>1, <2>2, InductionOnASet
<1>. QED
  BY <1>3

(***************************************************************************)
(* Recursive functions on finite sets, as the folds of the community       *)
(* modules define them: a set is taken apart element by element.           *)
(***************************************************************************)

(* Some of a non-empty collection of finite sets has none of the others    *)
(* for a subset.                                                           *)
LEMMA SmallestSet ==
    ASSUME NEW S, IsFiniteSet(S), NEW C \in SUBSET SUBSET S, C # {}
    PROVE  \E T \in C : \A U \in C : U \subseteq T => U = T
<1>1. C \subseteq FiniteSubsetsOf(S)
  <2>1. \A T \in C : T \subseteq S /\ IsFiniteSet(T)
    BY FS_Subset
  <2>. QED
    BY <2>1 DEF FiniteSubsetsOf
<1>2. PICK T \in C : \A U \in C : ~(<<U, T>> \in StrictSubsetOrdering(S))
  BY <1>1, FS_StrictSubsetOrderingWellFounded, WFMin
<1>3. ASSUME NEW U \in C, U \subseteq T
      PROVE  U = T
  BY <1>1, <1>2, <1>3 DEF StrictSubsetOrdering
<1>. QED
  BY <1>3

(* choice says which element comes last, step what it does to the value.   *)
IsChoice(choice, S) ==
    /\ DOMAIN choice = (SUBSET S) \ {{}}
    /\ \A T \in (SUBSET S) \ {{}} : choice[T] \in T
IsFold(f, S, A, z, choice, step) ==
    /\ f \in [SUBSET S -> A]
    /\ f[{}] = z
    /\ \A T \in (SUBSET S) \ {{}} : f[T] = step[choice[T]][f[T \ {choice[T]}]]

(* There is such a function.                                               *)
LEMMA FoldExists ==
    ASSUME NEW S, IsFiniteSet(S), NEW A, NEW z \in A, NEW choice, IsChoice(choice, S),
           NEW step \in [S -> [A -> A]]
    PROVE  \E f : IsFold(f, S, A, z, choice, step)
<1>. USE DEF IsChoice
<1>. DEFINE Small(n) == {T \in SUBSET S : Cardinality(T) <= n}
            Solves(f, n) ==
                /\ f \in [Small(n) -> A]
                /\ f[{}] = z
                /\ \A T \in Small(n) \ {{}} : f[T] = step[choice[T]][f[T \ {choice[T]}]]
            N == {n \in Nat : \E f : Solves(f, n)}
<1>1. \A T \in SUBSET S : /\ IsFiniteSet(T) /\ Cardinality(T) \in Nat
                          /\ Cardinality(T) <= Cardinality(S)
                          /\ Cardinality(T) = 0 <=> T = {}
  BY FS_Subset, FS_CardinalityType, FS_EmptySet
<1>2. \A T \in (SUBSET S) \ {{}} : /\ T \ {choice[T]} \in SUBSET S
                                 /\ choice[T] \in S
                                 /\ Cardinality(T \ {choice[T]}) = Cardinality(T) - 1
  BY <1>1, FS_RemoveElement
<1>3. \A n \in Nat : {} \in Small(n)
  BY <1>1
<1>4. 0 \in N
  <2>1. Small(0) = {{}}
    BY <1>1, <1>3
  <2>2. Solves([T \in Small(0) |-> z], 0)
    BY <2>1
  <2>. QED
    BY <2>2
<1>5. ASSUME NEW n \in N
      PROVE  n + 1 \in N
  <2>1. PICK f : Solves(f, n)
    OBVIOUS
  <2>. DEFINE g == [T \in Small(n + 1) |->
                      IF T \in Small(n) THEN f[T] ELSE step[choice[T]][f[T \ {choice[T]}]]]
  <2>2. n \in Nat /\ Small(n) \subseteq Small(n + 1)
    BY <1>1
  <2>3. \A T \in Small(n + 1) \ {{}} : T \ {choice[T]} \in Small(n) /\ choice[T] \in S
    BY <1>1, <1>2, <2>2
  <2>4. f \in [Small(n) -> A] /\ f[{}] = z
    BY <2>1
  <2>5. \A T \in Small(n) \ {{}} : f[T] = step[choice[T]][f[T \ {choice[T]}]]
    BY <2>1
  <2>6. {} \in Small(n) /\ {} \in Small(n + 1)
    BY <1>3, <2>2
  <2>. HIDE DEF Small, Solves
  <2>7. \A T \in Small(n + 1) \ {{}} : step[choice[T]][f[T \ {choice[T]}]] \in A
    BY <2>3, <2>4
  <2>8. g \in [Small(n + 1) -> A]
    BY <2>4, <2>6, <2>7
  <2>9. g[{}] = z
    BY <2>4, <2>6
  <2>10. \A T \in Small(n) : g[T] = f[T]
    BY <2>2
  <2>11. ASSUME NEW T \in Small(n + 1) \ {{}}
         PROVE  g[T] = step[choice[T]][g[T \ {choice[T]}]]
    <3>1. g[T \ {choice[T]}] = f[T \ {choice[T]}]
      BY <2>3, <2>10
    <3>2. g[T] = step[choice[T]][f[T \ {choice[T]}]]
      BY <2>5
    <3>. QED
      BY <3>1, <3>2
  <2>. HIDE DEF g
  <2>12. Solves(g, n + 1)
    BY <2>8, <2>9, <2>11 DEF Solves
  <2>. QED
    BY <2>2, <2>12
<1>6. Cardinality(S) \in N
  <2>1. N = Nat
    <3>. HIDE DEF Solves
    <3>1. N \subseteq Nat
      OBVIOUS
    <3>. HIDE DEF N
    <3>. QED
      BY <3>1, <1>4, <1>5, InductionOnASet
  <2>. QED
    BY <2>1, <1>1
<1>7. PICK f : Solves(f, Cardinality(S))
  BY <1>6
<1>8. Small(Cardinality(S)) = SUBSET S
  BY <1>1
<1>. QED
  BY <1>7, <1>8 DEF IsFold

(***************************************************************************)
(* Sums over finite sets.  w gives the weight of each element.             *)
(***************************************************************************)

SomeOf(T) == CHOOSE x \in T : TRUE
TakesSome(S) == [T \in (SUBSET S) \ {{}} |-> SomeOf(T)]
IsSum(f, S, w) ==
    /\ f \in [SUBSET S -> Nat]
    /\ f[{}] = 0
    /\ \A T \in SUBSET S : T # {} => f[T] = w[SomeOf(T)] + f[T \ {SomeOf(T)}]

LEMMA SomeOfIsIn ==
    ASSUME NEW T, T # {}
    PROVE  SomeOf(T) \in T
<1>1. \E x : x \in T
  OBVIOUS
<1> QED BY <1>1 DEF SomeOf

LEMMA TakesSomeIsChoice ==
    ASSUME NEW S
    PROVE  /\ IsChoice(TakesSome(S), S)
           /\ \A T \in (SUBSET S) \ {{}} : SomeOf(T) \in T /\ TakesSome(S)[T] = SomeOf(T)
<1>1. ASSUME NEW T \in (SUBSET S) \ {{}}
      PROVE  SomeOf(T) \in T
  <2>1. T # {}
    OBVIOUS
  <2> QED BY <2>1, SomeOfIsIn
<1>2. \A T \in (SUBSET S) \ {{}} : TakesSome(S)[T] = SomeOf(T)
  BY DEF TakesSome
<1>3. DOMAIN TakesSome(S) = (SUBSET S) \ {{}}
  BY DEF TakesSome
<1> QED BY <1>1, <1>2, <1>3 DEF IsChoice

LEMMA SumExists ==
    ASSUME NEW S, IsFiniteSet(S), NEW w, \A x \in S : w[x] \in Nat
    PROVE  \E f : IsSum(f, S, w)
<1> DEFINE step == [x \in S |-> [n \in Nat |-> w[x] + n]]
<1>1. step \in [S -> [Nat -> Nat]] /\ 0 \in Nat
  OBVIOUS
<1>2. PICK f : IsFold(f, S, Nat, 0, TakesSome(S), step)
  <2> HIDE DEF step
  <2> QED BY <1>1, TakesSomeIsChoice, FoldExists
<1>3. f \in [SUBSET S -> Nat] /\ f[{}] = 0
  BY <1>2 DEF IsFold
<1>4. ASSUME NEW T \in SUBSET S, T # {}
      PROVE  f[T] = w[SomeOf(T)] + f[T \ {SomeOf(T)}]
  <2>1. T \in (SUBSET S) \ {{}}
    BY <1>4
  <2>2. f[T] = step[TakesSome(S)[T]][f[T \ {TakesSome(S)[T]}]]
    BY <1>2, <2>1 DEF IsFold
  <2>3. SomeOf(T) \in T /\ TakesSome(S)[T] = SomeOf(T)
    BY <2>1, TakesSomeIsChoice
  <2>4. f[T \ {SomeOf(T)}] \in Nat /\ SomeOf(T) \in S
    BY <1>3, <2>3
  <2> QED BY <2>2, <2>3, <2>4
<1> QED BY <1>3, <1>4 DEF IsSum

LEMMA SumStep ==
    ASSUME NEW S, NEW w, NEW f, IsSum(f, S, w), NEW T \in SUBSET S
    PROVE  /\ f[{}] = 0 /\ f[T] \in Nat
           /\ T # {} => SomeOf(T) \in T /\ f[T] = w[SomeOf(T)] + f[T \ {SomeOf(T)}]
  BY SomeOfIsIn DEF IsSum

(* Whatever adds up like this is a natural at every set.                   *)
LEMMA SumOfFold ==
    ASSUME NEW S, IsFiniteSet(S), NEW w, \A x \in S : w[x] \in Nat,
           NEW f, f = [T \in SUBSET S |-> IF T = {} THEN 0
                                          ELSE w[SomeOf(T)] + f[T \ {SomeOf(T)}]]
    PROVE  IsSum(f, S, w)
<1>1. f[{}] = 0 /\ DOMAIN f = SUBSET S
  OBVIOUS
<1>2. \A T \in SUBSET S : T # {} => f[T] = w[SomeOf(T)] + f[T \ {SomeOf(T)}]
  OBVIOUS
<1> DEFINE Bad == {T \in SUBSET S : f[T] \notin Nat}
<1>3. Bad = {}
  <2>1. SUFFICES ASSUME Bad # {} PROVE FALSE
    OBVIOUS
  <2>2. PICK T \in Bad : \A V \in Bad : V \subseteq T => V = T
    <3>1. Bad \in SUBSET SUBSET S
      OBVIOUS
    <3> HIDE DEF Bad
    <3> QED BY <2>1, <3>1, SmallestSet
  <2>3. T \in SUBSET S /\ T # {}
    BY <2>2, <1>1
  <2>4. SomeOf(T) \in T
    BY <2>3, SomeOfIsIn
  <2>5. f[T] = w[SomeOf(T)] + f[T \ {SomeOf(T)}]
    BY <2>3, <1>2
  <2>6. f[T \ {SomeOf(T)}] \in Nat
    <3>1. T \ {SomeOf(T)} \notin Bad
      BY <2>2, <2>4
    <3>2. T \ {SomeOf(T)} \in SUBSET S
      BY <2>3
    <3> QED BY <3>1, <3>2
  <2>7. w[SomeOf(T)] \in Nat
    BY <2>3, <2>4
  <2> QED BY <2>2, <2>5, <2>6, <2>7
<1> QED BY <1>1, <1>2, <1>3 DEF IsSum

(* A sum does not depend on the set its function is defined for.           *)
LEMMA SumsAgree ==
    ASSUME NEW S, IsFiniteSet(S), NEW w, \A x \in S : w[x] \in Nat, NEW f, IsSum(f, S, w),
           NEW R, NEW v, NEW g, IsSum(g, R, v),
           NEW U, U \subseteq S, U \subseteq R, \A x \in U : w[x] = v[x]
    PROVE  f[U] = g[U]
<1> DEFINE Bad == {T \in SUBSET U : f[T] # g[T]}
<1>1. SUFFICES ASSUME Bad # {} PROVE FALSE
  OBVIOUS
<1>2. PICK T \in Bad : \A V \in Bad : V \subseteq T => V = T
  <2>1. Bad \in SUBSET SUBSET S
    OBVIOUS
  <2> HIDE DEF Bad
  <2> QED BY <1>1, <2>1, SmallestSet
<1>3. /\ f[{}] = 0 /\ g[{}] = 0
      /\ T \in SUBSET S /\ T \in SUBSET R /\ f[T] # g[T]
  BY SumStep
<1>4. T # {}
  BY <1>3
<1> DEFINE x == SomeOf(T)
<1>5. /\ x \in T /\ f[T] = w[x] + f[T \ {x}] /\ g[T] = v[x] + g[T \ {x}]
  <2>1. x \in T /\ f[T] = w[x] + f[T \ {x}]
    BY <1>3, <1>4, SumStep
  <2>2. g[T] = v[x] + g[T \ {x}]
    BY <1>3, <1>4 DEF IsSum
  <2> QED BY <2>1, <2>2
<1> HIDE DEF x
<1>6. T \ {x} \notin Bad
  BY <1>2, <1>5
<1>7. f[T \ {x}] = g[T \ {x}] /\ w[x] = v[x]
  BY <1>5, <1>6
<1> QED BY <1>3, <1>5, <1>7

(* Nor on the order in which the elements are taken.                       *)
LEMMA SumInAnyOrder ==
    ASSUME NEW S, IsFiniteSet(S), NEW w, \A x \in S : w[x] \in Nat, NEW f, IsSum(f, S, w),
           NEW U \in SUBSET S, NEW y \in U
    PROVE  f[U] = w[y] + f[U \ {y}]
<1> DEFINE Good(T) == \A z \in T : f[T] = w[z] + f[T \ {z}]
           Bad == {T \in SUBSET S : ~Good(T)}
<1>1. SUFFICES ASSUME Bad # {} PROVE FALSE
  OBVIOUS
<1>2. PICK T \in Bad : \A V \in Bad : V \subseteq T => V = T
  <2>1. Bad \in SUBSET SUBSET S
    OBVIOUS
  <2> HIDE DEF Bad
  <2> QED BY <1>1, <2>1, SmallestSet
<1>3. PICK z \in T : f[T] # w[z] + f[T \ {z}]
  BY <1>2
<1> DEFINE x == SomeOf(T)
<1>4. x \in T /\ f[T] = w[x] + f[T \ {x}] /\ f \in [SUBSET S -> Nat]
  <2>1. T # {} /\ T \in SUBSET S
    BY <1>2, <1>3
  <2>2. x \in T /\ f[T] = w[x] + f[T \ {x}]
    BY <2>1, SumStep
  <2> QED BY <2>2, SumStep DEF IsSum
<1> HIDE DEF x
<1>5. x # z
  BY <1>3, <1>4
<1>6. T \ {x} \notin Bad /\ T \ {z} \notin Bad
  BY <1>2, <1>3, <1>4
<1>7. f[T \ {x}] = w[z] + f[(T \ {x}) \ {z}]
  BY <1>2, <1>3, <1>4, <1>5, <1>6
<1>8. f[T \ {z}] = w[x] + f[(T \ {z}) \ {x}]
  BY <1>2, <1>3, <1>4, <1>5, <1>6
<1>9. (T \ {x}) \ {z} = (T \ {z}) \ {x}
  OBVIOUS
<1>10. /\ w[x] \in Nat /\ w[z] \in Nat /\ f[(T \ {z}) \ {x}] \in Nat
       /\ f[T \ {x}] = w[z] + f[(T \ {z}) \ {x}]
  BY <1>2, <1>3, <1>4, <1>7, <1>9
<1>11. \A a, b, c \in Nat : a + (b + c) = b + (a + c)
  OBVIOUS
<1>12. f[T] = w[z] + f[T \ {z}]
  BY <1>4, <1>8, <1>10, <1>11
<1> QED BY <1>3, <1>12

(* What is taken away is subtracted.                                       *)
LEMMA SumOfDifference ==
    ASSUME NEW S, IsFiniteSet(S), NEW w, \A x \in S : w[x] \in Nat, NEW f, IsSum(f, S, w),
           NEW V \in SUBSET S, NEW U \in SUBSET V
    PROVE  f[V] = f[U] + f[V \ U]
<1>1. f \in [SUBSET S -> Nat] /\ f[{}] = 0
  BY DEF IsSum
<1> DEFINE Bad == {T \in SUBSET U : f[V] # f[T] + f[V \ T]}
<1>2. SUFFICES ASSUME Bad # {} PROVE FALSE
  OBVIOUS
<1>3. PICK T \in Bad : \A R \in Bad : R \subseteq T => R = T
  <2>1. Bad \in SUBSET SUBSET S
    OBVIOUS
  <2> HIDE DEF Bad
  <2> QED BY <1>2, <2>1, SmallestSet
<1>4. T # {}
  <2>1. V \ {} = V /\ f[V] \in Nat
    BY <1>1
  <2>2. f[V] = 0 + f[V]
    BY <2>1
  <2>3. SUFFICES ASSUME T = {} PROVE FALSE
    OBVIOUS
  <2>4. f[V] # f[{}] + f[V \ {}]
    BY <1>3, <2>3
  <2> QED BY <1>1, <2>1, <2>2, <2>4
<1>5. PICK x \in T : TRUE
  BY <1>4
<1>6. T \ {x} \notin Bad
  BY <1>3, <1>5
<1>7. f[V] = f[T \ {x}] + f[V \ (T \ {x})]
  BY <1>3, <1>6
<1>8. f[T] = w[x] + f[T \ {x}]
  BY <1>3, <1>5, SumInAnyOrder
<1>9. f[V \ (T \ {x})] = w[x] + f[V \ T]
  <2>1. V \ (T \ {x}) \in SUBSET S /\ x \in V \ (T \ {x}) /\ (V \ (T \ {x})) \ {x} = V \ T
    BY <1>3, <1>5
  <2> QED BY <2>1, SumInAnyOrder
<1>10. w[x] \in Nat /\ f[T \ {x}] \in Nat /\ f[V \ T] \in Nat /\ f[V] # f[T] + f[V \ T]
  BY <1>1, <1>3, <1>5
<1> QED BY <1>7, <1>8, <1>9, <1>10

(***************************************************************************)
(* Sequences whose elements are all different.                             *)
(***************************************************************************)

(* The element at position p is gone.                                      *)
IsWithout(t, s, p) ==
    /\ p \in 1 .. Len(s)
    /\ Len(t) = Len(s) - 1 /\ DOMAIN t = 1 .. Len(s) - 1
    /\ \A j \in 1 .. Len(s) - 1 : t[j] = IF j < p THEN s[j] ELSE s[j + 1]

LEMMA RemoveAtFacts ==
    ASSUME NEW S, NEW s \in Seq(S), NEW p \in 1 .. Len(s)
    PROVE  RemoveAt(s, p) \in Seq(S) /\ IsWithout(RemoveAt(s, p), s, p)
<1> DEFINE A == SubSeq(s, 1, p - 1)
           B == SubSeq(s, p + 1, Len(s))
           T == A \o B
<1>1. Len(s) \in Nat /\ p \in Nat /\ 1 <= p /\ p <= Len(s)
  OBVIOUS
<1>2. A \in Seq(S) /\ Len(A) = p - 1 /\ \A i \in 1 .. p - 1 : A[i] = s[i]
  BY <1>1
<1>3. B \in Seq(S) /\ Len(B) = Len(s) - p /\ \A i \in 1 .. Len(s) - p : B[i] = s[p + i]
  BY <1>1
<1> HIDE DEF A, B
<1>4. /\ T \in Seq(S) /\ Len(T) = Len(A) + Len(B)
      /\ \A i \in 1 .. Len(A) + Len(B) : T[i] = IF i <= Len(A) THEN A[i] ELSE B[i - Len(A)]
  BY <1>2, <1>3, ConcatProperties
<1> HIDE DEF T
<1>5. Len(T) = Len(s) - 1 /\ DOMAIN T = 1 .. Len(s) - 1
  BY <1>1, <1>2, <1>3, <1>4
<1>6. ASSUME NEW j \in 1 .. Len(s) - 1
      PROVE  T[j] = IF j < p THEN s[j] ELSE s[j + 1]
  <2>0. j \in 1 .. Len(A) + Len(B) /\ j \in Nat
    BY <1>1, <1>2, <1>3
  <2>1. CASE j < p
    <3>1. j <= Len(A) /\ j \in 1 .. p - 1
      BY <2>0, <2>1, <1>1, <1>2
    <3>2. T[j] = A[j]
      BY <2>0, <3>1, <1>4
    <3> QED BY <2>1, <3>1, <3>2, <1>2
  <2>2. CASE ~(j < p)
    <3>1. j - (p - 1) \in 1 .. Len(s) - p /\ p + (j - (p - 1)) = j + 1
      BY <2>2, <1>1
    <3>2. T[j] = B[j - (p - 1)]
      <4>1. ~(j <= Len(A))
        BY <2>0, <2>2, <1>1, <1>2
      <4>2. T[j] = B[j - Len(A)]
        BY <2>0, <4>1, <1>4
      <4> QED BY <4>2, <1>2
    <3> QED BY <2>2, <3>1, <3>2, <1>3
  <2> QED BY <2>1, <2>2
<1>7. RemoveAt(s, p) = T
  BY DEF RemoveAt, T, A, B
<1> QED BY <1>1, <1>4, <1>5, <1>6, <1>7 DEF IsWithout

LEMMA RemoveFirstFacts ==
    ASSUME NEW S, NEW s \in Seq(S), IsInjective(s), NEW x
    PROVE  LET t == RemoveFirst(s, x) IN
           /\ t \in Seq(S) /\ IsInjective(t) /\ Range(t) = Range(s) \ {x}
           /\ x \notin Range(s) => t = s
           /\ \A p \in DOMAIN s : s[p] = x => IsWithout(t, s, p)
<1>1. Len(s) \in Nat /\ DOMAIN s = 1 .. Len(s)
  OBVIOUS
<1>2. CASE x \notin Range(s)
  <2>1. ~\E i \in 1 .. Len(s) : s[i] = x
    BY <1>1, <1>2 DEF Range
  <2>2. RemoveFirst(s, x) = s
    BY <2>1 DEF RemoveFirst
  <2> QED BY <2>1, <2>2, <1>1, <1>2
<1>3. CASE x \in Range(s)
  <2>1. PICK p \in 1 .. Len(s) : s[p] = x
    BY <1>1, <1>3 DEF Range
  <2>2. {i \in 1 .. Len(s) : s[i] = x} = {p}
    BY <2>1, <1>1 DEF IsInjective
  <2>3. Min({p}) = p
    <3>1. {p} \in SUBSET Nat /\ {p} # {}
      BY <1>1
    <3>2. Min({p}) \in {p}
      BY <3>1, LeastOfNaturals
    <3> QED BY <3>2
  <2> DEFINE t == RemoveAt(s, p)
  <2>5. RemoveFirst(s, x) = t
    <3>1. RemoveFirst(s, x) = RemoveAt(s, Min({i \in 1 .. Len(s) : s[i] = x}))
      BY <2>1 DEF RemoveFirst, SelectInSeq
    <3> QED BY <2>2, <2>3, <3>1
  <2>6. t \in Seq(S) /\ IsWithout(t, s, p)
    BY RemoveAtFacts
  <2>7. \A q \in DOMAIN s : s[q] = x => q = p
    BY <2>1, <1>1 DEF IsInjective
  <2> HIDE DEF t
  <2>8. IsInjective(t)
    <3> SUFFICES ASSUME NEW a \in DOMAIN t, NEW b \in DOMAIN t, t[a] = t[b] PROVE a = b
      BY DEF IsInjective
    <3> DEFINE from(i) == IF i < p THEN i ELSE i + 1
    <3>1. /\ a \in 1 .. Len(s) - 1 /\ t[a] = s[from(a)]
          /\ b \in 1 .. Len(s) - 1 /\ t[b] = s[from(b)]
      BY <2>6 DEF IsWithout
    <3>2. from(a) \in DOMAIN s /\ from(b) \in DOMAIN s
      BY <3>1, <2>1, <1>1
    <3>3. from(a) = from(b)
      <4> HIDE DEF from
      <4> QED BY <3>1, <3>2 DEF IsInjective
    <3> QED BY <3>1, <3>3, <2>1, <1>1
  <2>9. Range(t) = Range(s) \ {x}
    <3>1. ASSUME NEW y \in Range(t)
          PROVE  y \in Range(s) \ {x}
      <4>1. PICK a \in 1 .. Len(s) - 1 : y = t[a]
        BY <2>6 DEF Range, IsWithout
      <4> DEFINE i == IF a < p THEN a ELSE a + 1
      <4>2. i \in 1 .. Len(s) /\ i # p /\ t[a] = s[i]
        BY <4>1, <2>6, <2>1, <1>1 DEF IsWithout
      <4> HIDE DEF i
      <4> QED BY <4>1, <4>2, <2>7, <1>1 DEF Range
    <3>2. ASSUME NEW y \in Range(s) \ {x}
          PROVE  y \in Range(t)
      <4>1. PICK i \in 1 .. Len(s) : y = s[i]
        BY <1>1 DEF Range
      <4>2. i # p
        BY <4>1, <2>1
      <4> DEFINE a == IF i < p THEN i ELSE i - 1
      <4>3. a \in 1 .. Len(s) - 1 /\ t[a] = s[i]
        BY <4>1, <4>2, <2>6, <2>1, <1>1 DEF IsWithout
      <4> HIDE DEF a
      <4> QED BY <4>1, <4>3, <2>6 DEF Range, IsWithout
    <3> QED BY <3>1, <3>2
  <2> QED BY <2>5, <2>6, <2>7, <2>8, <2>9, <1>3
<1> QED BY <1>2, <1>3

(* An element in front.                                                    *)
LEMMA PrependFacts ==
    ASSUME NEW S, NEW s \in Seq(S), NEW x \in S
    PROVE  /\ <<x>> \o s \in Seq(S)
           /\ Len(s) \in Nat /\ DOMAIN s = 1 .. Len(s)
           /\ Len(<<x>> \o s) = Len(s) + 1 /\ DOMAIN (<<x>> \o s) = 1 .. Len(s) + 1
           /\ \A j \in 1 .. Len(s) + 1 : (<<x>> \o s)[j] = IF j = 1 THEN x ELSE s[j - 1]
           /\ Range(<<x>> \o s) = {x} \cup Range(s)
<1> DEFINE X == <<x>> \o s
<1>1. <<x>> \in Seq(S) /\ Len(<<x>>) = 1 /\ <<x>>[1] = x /\ Len(s) \in Nat /\ DOMAIN s = 1 .. Len(s)
  OBVIOUS
<1>2. /\ X \in Seq(S) /\ Len(X) = 1 + Len(s)
      /\ \A j \in 1 .. 1 + Len(s) : X[j] = IF j <= 1 THEN <<x>>[j] ELSE s[j - 1]
  BY <1>1, ConcatProperties
<1>3. DOMAIN X = 1 .. Len(s) + 1
  BY <1>1, <1>2
<1> HIDE DEF X
<1>4. \A j \in 1 .. Len(s) + 1 : X[j] = IF j = 1 THEN x ELSE s[j - 1]
  BY <1>1, <1>2
<1>5. Range(X) = {x} \cup Range(s)
  <2>1. Range(X) \subseteq {x} \cup Range(s)
    BY <1>1, <1>3, <1>4 DEF Range
  <2>2. 1 \in DOMAIN X /\ X[1] = x
    BY <1>1, <1>3, <1>4
  <2>3. \A j \in DOMAIN s : j + 1 \in DOMAIN X /\ X[j + 1] = s[j]
    BY <1>1, <1>3, <1>4
  <2> QED BY <2>1, <2>2, <2>3 DEF Range
<1> QED BY <1>1, <1>2, <1>3, <1>4, <1>5 DEF X

(* Elements removed one after the other, in whatever order.                *)
IsRemoval(t, s, S, A) == t \in Seq(A) /\ IsInjective(t) /\ Range(t) = Range(s) \ S

LEMMA RemovalOfSet ==
    ASSUME NEW S, IsFiniteSet(S), NEW A, NEW s \in Seq(A), IsInjective(s)
    PROVE  IsRemoval(FoldSet(LAMBDA x, list : RemoveFirst(list, x), s, S), s, S, A)
<1> DEFINE L == {list \in Seq(A) : IsInjective(list)}
           step == [x \in S |-> [list \in L |-> RemoveFirst(list, x)]]
           Folds(f) == f = [T \in SUBSET S |-> IF T = {} THEN s
                              ELSE RemoveFirst(f[T \ {SomeOf(T)}], SomeOf(T))]
           iter == CHOOSE f : Folds(f)
<1>1. FoldSet(LAMBDA x, list : RemoveFirst(list, x), s, S) = iter[S]
  BY DEF FoldSet, MapThenFoldSet, SomeOf
<1>2. \A list \in L : \A x : RemoveFirst(list, x) \in L /\ Range(RemoveFirst(list, x)) = Range(list) \ {x}
  BY RemoveFirstFacts
<1>3. step \in [S -> [L -> L]] /\ s \in L
  BY <1>2
<1>4. PICK f : IsFold(f, S, L, s, TakesSome(S), step)
  <2> HIDE DEF step, L
  <2> QED BY <1>3, TakesSomeIsChoice, FoldExists
<1>5. Folds(f)
  <2>1. /\ f \in [SUBSET S -> L] /\ f[{}] = s
        /\ \A T \in (SUBSET S) \ {{}} :
              f[T] = step[TakesSome(S)[T]][f[T \ {TakesSome(S)[T]}]]
    BY <1>4 DEF IsFold
  <2>2. ASSUME NEW T \in (SUBSET S) \ {{}}
        PROVE  f[T] = RemoveFirst(f[T \ {SomeOf(T)}], SomeOf(T))
    <3>1. SomeOf(T) \in T /\ TakesSome(S)[T] = SomeOf(T)
      BY TakesSomeIsChoice
    <3>2. f[T \ {SomeOf(T)}] \in L
      BY <2>1
    <3>3. SomeOf(T) \in S
      BY <3>1
    <3>4. step[SomeOf(T)][f[T \ {SomeOf(T)}]] = RemoveFirst(f[T \ {SomeOf(T)}], SomeOf(T))
      <4> HIDE DEF L
      <4> QED BY <3>2, <3>3
    <3> QED BY <2>1, <3>1, <3>4
  <2> HIDE DEF L, step
  <2> QED BY <2>1, <2>2
<1>6. Folds(iter)
  <2> HIDE DEF Folds
  <2> QED BY <1>5
<1> HIDE DEF iter
<1> DEFINE Good(T) == iter[T] \in L /\ Range(iter[T]) = Range(s) \ T
           Bad == {T \in SUBSET S : ~Good(T)}
<1>7. Bad = {}
  <2>1. SUFFICES ASSUME Bad # {} PROVE FALSE
    OBVIOUS
  <2>2. PICK T \in Bad : \A V \in Bad : V \subseteq T => V = T
    <3>1. Bad \in SUBSET SUBSET S
      OBVIOUS
    <3> HIDE DEF Bad
    <3> QED BY <2>1, <3>1, SmallestSet
  <2>3. T \in SUBSET S /\ ~Good(T)
    OBVIOUS
  <2>4. iter[{}] = s
    BY <1>6
  <2>5. T # {}
    BY <2>3, <2>4, <1>3
  <2>6. SomeOf(T) \in T
    BY <2>5, SomeOfIsIn
  <2>7. iter[T] = RemoveFirst(iter[T \ {SomeOf(T)}], SomeOf(T))
    BY <2>3, <2>5, <1>6
  <2>8. Good(T \ {SomeOf(T)})
    <3>1. T \ {SomeOf(T)} \notin Bad
      BY <2>2, <2>6
    <3>2. T \ {SomeOf(T)} \in SUBSET S
      BY <2>3
    <3> QED BY <3>1, <3>2
  <2>9. iter[T] \in L /\ Range(iter[T]) = Range(iter[T \ {SomeOf(T)}]) \ {SomeOf(T)}
    <3> HIDE DEF L
    <3> QED BY <2>7, <2>8, <1>2
  <2> QED BY <2>3, <2>6, <2>8, <2>9
<1>8. Good(S)
  BY <1>7
<1> QED BY <1>1, <1>8 DEF IsRemoval

(* An element put before a list that does not have it.                     *)
LEMMA PrependNew ==
    ASSUME NEW S, NEW s \in Seq(S), IsInjective(s), NEW x \in S, x \notin Range(s)
    PROVE  LET t == <<x>> \o s IN
           /\ t \in Seq(S) /\ IsInjective(t) /\ Range(t) = {x} \cup Range(s)
           /\ Len(t) = Len(s) + 1 /\ t[1] = x
<1> DEFINE t == <<x>> \o s
<1>1. /\ t \in Seq(S) /\ Len(s) \in Nat /\ DOMAIN s = 1 .. Len(s)
      /\ Len(t) = Len(s) + 1 /\ DOMAIN t = 1 .. Len(s) + 1
      /\ \A j \in 1 .. Len(s) + 1 : t[j] = IF j = 1 THEN x ELSE s[j - 1]
      /\ Range(t) = {x} \cup Range(s)
  BY PrependFacts
<1> HIDE DEF t
<1>2. \A j \in DOMAIN t : j # 1 => j - 1 \in DOMAIN s /\ t[j] = s[j - 1] /\ t[j] # x
  <2>1. \A j \in DOMAIN t : j # 1 => j - 1 \in DOMAIN s /\ t[j] = s[j - 1]
    BY <1>1
  <2> QED BY <2>1 DEF Range
<1>3. t[1] = x
  BY <1>1
<1>4. ASSUME NEW a \in DOMAIN t, NEW b \in DOMAIN t, t[a] = t[b]
      PROVE  a = b
  <2>1. CASE a = 1 \/ b = 1
    BY <2>1, <1>2, <1>3, <1>4
  <2>2. CASE a # 1 /\ b # 1
    <3>1. a - 1 = b - 1
      BY <2>2, <1>2, <1>4 DEF IsInjective
    <3> QED BY <3>1, <1>1
  <2> QED BY <2>1, <2>2
<1> QED BY <1>1, <1>3, <1>4 DEF IsInjective, t

(* What is beyond a place of a list, taken from its end.                   *)
LEMMA SplitFacts ==
    ASSUME NEW S, NEW s \in Seq(S), IsInjective(s), NEW n \in 0 .. Len(s)
    PROVE  LET a == SubSeq(s, 1, n)
               b == Reverse(SubSeq(s, n + 1, Len(s))) IN
           /\ a \in Seq(S) /\ IsInjective(a) /\ b \in Seq(S) /\ IsInjective(b)
           /\ Range(a) \cap Range(b) = {} /\ Range(a) \cup Range(b) = Range(s)
<1> DEFINE a == SubSeq(s, 1, n)
           c == SubSeq(s, n + 1, Len(s))
           b == Reverse(c)
<1>1. Len(s) \in Nat /\ DOMAIN s = 1 .. Len(s) /\ n \in Nat /\ n <= Len(s)
  OBVIOUS
<1>2. a \in Seq(S) /\ DOMAIN a = 1 .. n /\ \A j \in 1 .. n : a[j] = s[j]
  BY <1>1
<1>3. /\ c \in Seq(S) /\ DOMAIN c = 1 .. Len(s) - n /\ Len(c) = Len(s) - n
      /\ \A j \in 1 .. Len(s) - n : c[j] = s[n + j]
  <2>1. /\ c \in Seq(S) /\ DOMAIN c = 1 .. Len(s) - n
        /\ \A j \in 1 .. Len(s) - n : c[j] = s[n + j]
    BY <1>1
  <2> HIDE DEF c
  <2>2. Len(s) - n \in Nat
    BY <1>1
  <2> QED BY <2>1, <2>2
<1> HIDE DEF a, c
<1>4. /\ b \in Seq(S) /\ DOMAIN b = 1 .. Len(s) - n
      /\ \A j \in 1 .. Len(s) - n : b[j] = s[Len(s) - j + 1]
  <2>1. \A j \in 1 .. Len(s) - n : /\ Len(c) - j + 1 \in 1 .. Len(s) - n
                                   /\ n + (Len(c) - j + 1) = Len(s) - j + 1
    BY <1>1, <1>3
  <2>2. \A j \in 1 .. Len(s) - n : c[Len(c) - j + 1] = s[Len(s) - j + 1] /\ c[Len(c) - j + 1] \in S
    BY <2>1, <1>3
  <2>3. b = [j \in 1 .. Len(s) - n |-> c[Len(c) - j + 1]]
    BY <1>3 DEF Reverse
  <2>4. Seq(S) = UNION {[1 .. N -> S] : N \in Nat}
    BY ONLY SeqDef
  <2>5. Len(s) - n \in Nat
    BY <1>1
  <2>6. b \in [1 .. Len(s) - n -> S]
    BY <2>2, <2>3
  <2>7. b \in Seq(S)
    BY ONLY <2>4, <2>5, <2>6
  <2> QED BY <2>2, <2>3, <2>7
<1> HIDE DEF b
<1>5. IsInjective(a)
  BY <1>1, <1>2 DEF IsInjective
<1>6. IsInjective(b)
  <2> SUFFICES ASSUME NEW i \in DOMAIN b, NEW j \in DOMAIN b, b[i] = b[j] PROVE i = j
    BY DEF IsInjective
  <2>1. Len(s) - i + 1 \in DOMAIN s /\ Len(s) - j + 1 \in DOMAIN s
    BY <1>1, <1>4
  <2>2. Len(s) - i + 1 = Len(s) - j + 1
    BY <2>1, <1>4 DEF IsInjective
  <2> QED BY <2>2, <1>1, <1>4
<1>7. Range(a) \cap Range(b) = {}
  <2> SUFFICES ASSUME NEW i \in DOMAIN a, NEW j \in DOMAIN b, a[i] = b[j] PROVE FALSE
    BY DEF Range
  <2>1. i \in DOMAIN s /\ Len(s) - j + 1 \in DOMAIN s
    BY <1>1, <1>2, <1>4
  <2>2. i = Len(s) - j + 1
    BY <2>1, <1>2, <1>4 DEF IsInjective
  <2> QED BY <2>2, <1>1, <1>2, <1>4
<1>8. Range(a) \cup Range(b) = Range(s)
  <2>1. ASSUME NEW i \in DOMAIN s PROVE s[i] \in Range(a) \cup Range(b)
    <3>1. CASE i <= n
      <4>1. i \in DOMAIN a
        BY <3>1, <1>1, <1>2
      <4> QED BY <4>1, <1>2 DEF Range
    <3>2. CASE ~(i <= n)
      <4>1. Len(s) - i + 1 \in DOMAIN b /\ Len(s) - (Len(s) - i + 1) + 1 = i
        BY <3>2, <1>1, <1>4
      <4>2. b[Len(s) - i + 1] = s[i]
        BY <4>1, <1>4
      <4> QED BY <4>1, <4>2 DEF Range
    <3> QED BY <3>1, <3>2
  <2>2. (\A i \in DOMAIN a : a[i] \in Range(s)) /\ \A j \in DOMAIN b : b[j] \in Range(s)
    <3>1. \A i \in DOMAIN a : i \in DOMAIN s
      BY <1>1, <1>2
    <3>2. \A j \in DOMAIN b : Len(s) - j + 1 \in DOMAIN s
      BY <1>1, <1>4
    <3> QED BY <3>1, <3>2, <1>2, <1>4 DEF Range
  <2> QED BY <2>1, <2>2 DEF Range
<1> QED BY <1>2, <1>4, <1>5, <1>6, <1>7, <1>8 DEF a, b, c

LEMMA TailOfInjective ==
    ASSUME NEW S, NEW s \in Seq(S), IsInjective(s), s # <<>>
    PROVE  /\ Tail(s) \in Seq(S) /\ IsInjective(Tail(s)) /\ Head(s) \in Range(s)
           /\ Range(Tail(s)) = Range(s) \ {Head(s)}
<1> DEFINE t == Tail(s)
<1>1. /\ Len(s) \in Nat /\ Len(s) >= 1 /\ DOMAIN s = 1 .. Len(s) /\ Head(s) = s[1]
      /\ t \in Seq(S) /\ DOMAIN t = 1 .. Len(s) - 1
      /\ \A j \in 1 .. Len(s) - 1 : t[j] = s[j + 1]
  OBVIOUS
<1> HIDE DEF t
<1>2. \A j \in DOMAIN t : j + 1 \in DOMAIN s /\ j + 1 # 1 /\ t[j] = s[j + 1]
  BY <1>1
<1>3. 1 \in DOMAIN s
  BY <1>1
<1>4. IsInjective(t)
  <2> SUFFICES ASSUME NEW i \in DOMAIN t, NEW j \in DOMAIN t, t[i] = t[j] PROVE i = j
    BY DEF IsInjective
  <2>1. i + 1 = j + 1
    BY <1>2 DEF IsInjective
  <2> QED BY <2>1, <1>1
<1>5. \A j \in DOMAIN t : t[j] \in Range(s) \ {s[1]}
  BY <1>2, <1>3 DEF IsInjective, Range
<1>6. ASSUME NEW i \in DOMAIN s, s[i] # s[1] PROVE s[i] \in Range(t)
  <2>1. i - 1 \in DOMAIN t /\ i - 1 + 1 = i
    BY <1>1, <1>6
  <2>2. t[i - 1] = s[i]
    BY <2>1, <1>2
  <2> QED BY <2>1, <2>2 DEF Range
<1>7. Range(t) = Range(s) \ {s[1]}
  BY <1>5, <1>6 DEF Range
<1>8. t \in Seq(S) /\ Head(s) = s[1] /\ s[1] \in Range(s)
  BY <1>1, <1>3 DEF Range
<1> QED BY <1>4, <1>7, <1>8 DEF t

LEMMA AppendNew ==
    ASSUME NEW S, NEW s \in Seq(S), IsInjective(s), NEW x \in S, x \notin Range(s)
    PROVE  LET t == Append(s, x) IN t \in Seq(S) /\ IsInjective(t) /\ Range(t) = Range(s) \cup {x}
<1> DEFINE t == Append(s, x)
<1>1. /\ Len(s) \in Nat /\ DOMAIN s = 1 .. Len(s)
      /\ t \in Seq(S) /\ DOMAIN t = 1 .. Len(s) + 1
      /\ \A j \in 1 .. Len(s) : t[j] = s[j]
      /\ t[Len(s) + 1] = x
  OBVIOUS
<1> HIDE DEF t
<1>2. \A j \in DOMAIN t : j \in DOMAIN s \/ j = Len(s) + 1
  BY <1>1
<1>3. \A j \in DOMAIN s : s[j] # x /\ t[j] = s[j] /\ j \in DOMAIN t
  BY <1>1 DEF Range
<1>4. IsInjective(t)
  BY <1>1, <1>2, <1>3 DEF IsInjective
<1>5. Range(t) = Range(s) \cup {x}
  <2>1. Len(s) + 1 \in DOMAIN t
    BY <1>1
  <2> QED BY <2>1, <1>1, <1>2, <1>3 DEF Range
<1>6. t \in Seq(S)
  BY <1>1
<1> QED BY <1>4, <1>5, <1>6 DEF t

(***************************************************************************)
(* Folds of a sequence from the left: FoldLeft takes the set of indices    *)
(* apart from the greatest on.                                             *)
(***************************************************************************)

AddsUp(f, n, w) ==
    f = [T \in SUBSET (1 .. n) |-> IF T = {} THEN 0 ELSE f[T \ {Max(T)}] + w[Max(T)]]

LEMMA MaxOfInterval ==
    ASSUME NEW n \in Nat
    PROVE  /\ \A T \in (SUBSET (1 .. n)) \ {{}} : Max(T) \in T
           /\ \A k \in 1 .. n : Max(1 .. k) = k /\ (1 .. k) \ {k} = 1 .. k - 1
<1>1. ASSUME NEW T \in (SUBSET (1 .. n)) \ {{}}
      PROVE  Max(T) \in T
  <2>1. T \in SUBSET Nat /\ T # {} /\ \A x \in T : x <= n
    OBVIOUS
  <2> QED BY <2>1, GreatestOfBounded
<1>2. ASSUME NEW k \in 1 .. n
      PROVE  Max(1 .. k) = k /\ (1 .. k) \ {k} = 1 .. k - 1
  <2>1. 1 .. k \in SUBSET Nat /\ 1 .. k # {} /\ k \in Nat /\ \A x \in 1 .. k : x <= k
    OBVIOUS
  <2>2. Max(1 .. k) \in 1 .. k /\ \A x \in 1 .. k : x <= Max(1 .. k)
    BY <2>1, GreatestOfBounded
  <2>3. k \in 1 .. k
    OBVIOUS
  <2> DEFINE g == Max(1 .. k)
  <2> HIDE DEF g
  <2>4. g \in 1 .. k /\ k <= g
    BY <2>2, <2>3 DEF g
  <2>5. g = k
    BY <2>4
  <2> QED BY <2>5 DEF g
<1> QED BY <1>1, <1>2

LEMMA SumFunctionExists ==
    ASSUME NEW n \in Nat, NEW w, \A i \in 1 .. n : w[i] \in Nat
    PROVE  \E f : AddsUp(f, n, w)
<1> DEFINE S == 1 .. n
           choice == [T \in (SUBSET S) \ {{}} |-> Max(T)]
           step == [x \in S |-> [y \in Nat |-> y + w[x]]]
<1>1. IsFiniteSet(S)
  BY FS_Interval
<1>2. \A T \in (SUBSET S) \ {{}} : Max(T) \in T
  BY MaxOfInterval
<1>3. IsChoice(choice, S)
  BY <1>2 DEF IsChoice
<1>4. step \in [S -> [Nat -> Nat]] /\ 0 \in Nat
  OBVIOUS
<1>5. PICK f : IsFold(f, S, Nat, 0, choice, step)
  <2> HIDE DEF S, choice, step
  <2> QED BY <1>1, <1>3, <1>4, FoldExists
<1>6. f \in [SUBSET S -> Nat] /\ f[{}] = 0
  BY <1>5 DEF IsFold
<1>7. ASSUME NEW T \in (SUBSET S) \ {{}}
      PROVE  f[T] = f[T \ {Max(T)}] + w[Max(T)]
  <2>1. choice[T] = Max(T) /\ Max(T) \in S /\ T \ {Max(T)} \in SUBSET S
    BY <1>2
  <2>2. f[T] = step[choice[T]][f[T \ {choice[T]}]]
    BY <1>5 DEF IsFold
  <2>3. f[T \ {Max(T)}] \in Nat
    BY <2>1, <1>6
  <2> HIDE DEF choice, S
  <2> QED BY <2>1, <2>2, <2>3
<1> QED BY <1>6, <1>7 DEF AddsUp

(* It adds from the left, and what comes later does not matter.            *)
LEMMA SumOfPrefix ==
    ASSUME NEW n \in Nat, NEW w, \A i \in 1 .. n : w[i] \in Nat, NEW f, AddsUp(f, n, w),
           NEW p \in Nat, NEW v, NEW g, AddsUp(g, p, v),
           NEW m \in Nat, m <= n, m <= p, \A i \in 1 .. m : w[i] = v[i]
    PROVE  /\ f[1 .. m] \in Nat /\ f[1 .. m] = g[1 .. m]
           /\ m >= 1 => f[1 .. m] = f[1 .. m - 1] + w[m]
<1>1. ASSUME NEW k \in 1 .. n
      PROVE  f[1 .. k] = f[1 .. k - 1] + w[k]
  <2>1. 1 .. k \in SUBSET (1 .. n) /\ 1 .. k # {}
    OBVIOUS
  <2>2. f[1 .. k] = f[(1 .. k) \ {Max(1 .. k)}] + w[Max(1 .. k)]
    BY <2>1 DEF AddsUp
  <2> QED BY <2>2, MaxOfInterval
<1>2. ASSUME NEW k \in 1 .. p
      PROVE  g[1 .. k] = g[1 .. k - 1] + v[k]
  <2>1. 1 .. k \in SUBSET (1 .. p) /\ 1 .. k # {}
    OBVIOUS
  <2>2. g[1 .. k] = g[(1 .. k) \ {Max(1 .. k)}] + v[Max(1 .. k)]
    BY <2>1 DEF AddsUp
  <2> QED BY <2>2, MaxOfInterval
<1> DEFINE K == {k \in Nat : k <= m => f[1 .. k] \in Nat /\ f[1 .. k] = g[1 .. k]}
<1>3. 0 \in K
  <2>1. f[{}] = 0 /\ g[{}] = 0
    BY DEF AddsUp
  <2>2. 1 .. 0 = {}
    OBVIOUS
  <2> QED BY <2>1, <2>2
<1>4. ASSUME NEW k \in K
      PROVE  k + 1 \in K
  <2> SUFFICES ASSUME k + 1 <= m
               PROVE  f[1 .. k + 1] \in Nat /\ f[1 .. k + 1] = g[1 .. k + 1]
    OBVIOUS
  <2>1. k + 1 \in 1 .. n /\ k + 1 \in 1 .. p /\ k + 1 \in 1 .. m /\ k + 1 - 1 = k
    OBVIOUS
  <2>2. f[1 .. k] \in Nat /\ f[1 .. k] = g[1 .. k]
    OBVIOUS
  <2>3. f[1 .. k + 1] = f[1 .. k] + w[k + 1] /\ g[1 .. k + 1] = g[1 .. k] + v[k + 1]
    BY <2>1, <1>1, <1>2
  <2> QED BY <2>1, <2>2, <2>3
<1>5. K = Nat
  <2>1. K \in SUBSET Nat
    OBVIOUS
  <2> HIDE DEF K
  <2> QED BY <1>3, <1>4, <2>1, InductionOnASet
<1>6. m \in K
  BY <1>5
<1>7. m >= 1 => m \in 1 .. n
  OBVIOUS
<1> QED BY <1>1, <1>6, <1>7

(***************************************************************************)
(* FlattenSeq concatenates from the left.                                  *)
(***************************************************************************)

IsFlattening(f, ss, A) ==
    /\ f \in [1 .. Len(ss) -> Seq(A)] /\ f[1] = ss[1]
    /\ \A i \in 2 .. Len(ss) : f[i] = f[i - 1] \o ss[i]

LEMMA FlattenFacts ==
    ASSUME NEW A, NEW ss \in Seq(Seq(A)), Len(ss) # 0
    PROVE  \E f : IsFlattening(f, ss, A) /\ FlattenSeq(ss) = f[Len(ss)]
<1> DEFINE n == Len(ss)
           Flattens(f) == f = [i \in 1 .. n |-> IF i = 1 THEN ss[i] ELSE f[i - 1] \o ss[i]]
           flatten == CHOOSE f : Flattens(f)
           step == [i \in 1 .. n - 1 |-> [s \in Seq(A) |-> s \o ss[i + 1]]]
<1>1. n \in Nat /\ n >= 1 /\ n - 1 \in Nat /\ \A i \in 1 .. n : ss[i] \in Seq(A)
  OBVIOUS
<1>2. FlattenSeq(ss) = flatten[n]
  BY DEF FlattenSeq
<1>3. IsStep(step, n - 1, Seq(A)) /\ ss[1] \in Seq(A)
  <2>1. \A i \in 1 .. n - 1 : i + 1 \in 1 .. n
    BY <1>1
  <2>2. \A i \in 1 .. n - 1 : \A s \in Seq(A) : s \o ss[i + 1] \in Seq(A)
    BY <2>1, <1>1
  <2>3. 1 \in 1 .. n
    BY <1>1
  <2> HIDE DEF n
  <2> QED BY <2>2, <2>3, <1>1 DEF IsStep
<1> HIDE DEF n, step
<1>4. PICK g : IsRecursion(g, n - 1, Seq(A), ss[1], step)
  BY <1>1, <1>3, RecursionExists
<1> DEFINE h == [i \in 1 .. n |-> g[i - 1]]
<1>5. /\ g \in [0 .. n - 1 -> Seq(A)] /\ g[0] = ss[1]
      /\ \A i \in 1 .. n - 1 : g[i] = step[i][g[i - 1]]
  BY <1>4 DEF IsRecursion
<1>6. \A i \in 1 .. n : i - 1 \in 0 .. n - 1 /\ h[i] = g[i - 1] /\ h[i] \in Seq(A)
  BY <1>1, <1>5
<1>7. h[1] = ss[1]
  <2>1. 1 \in 1 .. n /\ 1 - 1 = 0
    BY <1>1
  <2> QED BY <2>1, <1>5
<1>8. ASSUME NEW i \in 2 .. n
      PROVE  h[i] = h[i - 1] \o ss[i]
  <2>1. i \in 1 .. n /\ i - 1 \in 1 .. n /\ i - 1 \in 1 .. n - 1 /\ (i - 1) + 1 = i
    BY <1>1
  <2>2. h[i] = step[i - 1][g[(i - 1) - 1]] /\ h[i - 1] = g[(i - 1) - 1] /\ h[i - 1] \in Seq(A)
    BY <2>1, <1>5, <1>6
  <2>3. \A s \in Seq(A) : step[i - 1][s] = s \o ss[(i - 1) + 1]
    BY <2>1 DEF step
  <2> QED BY <2>1, <2>2, <2>3
<1>9. Flattens(h)
  <2>1. h = [i \in 1 .. n |-> h[i]]
    OBVIOUS
  <2> HIDE DEF h
  <2>2. \A i \in 1 .. n : h[i] = IF i = 1 THEN ss[i] ELSE h[i - 1] \o ss[i]
    <3> SUFFICES ASSUME NEW i \in 1 .. n, i # 1 PROVE h[i] = h[i - 1] \o ss[i]
      BY <1>7
    <3>1. i \in 2 .. n
      BY <1>1
    <3> QED BY <3>1, <1>8
  <2> QED BY <2>1, <2>2
<1>10. Flattens(flatten)
  <2> HIDE DEF Flattens
  <2> QED BY <1>9
<1> HIDE DEF flatten
<1> DEFINE K == {k \in Nat : k + 1 \in 1 .. n => flatten[k + 1] = h[k + 1]}
<1>11. 0 \in K
  <2>1. 1 \in 1 .. n /\ 0 + 1 = 1
    BY <1>1
  <2>2. flatten[1] = ss[1]
    BY <2>1, <1>10
  <2> HIDE DEF h
  <2> QED BY <2>1, <2>2, <1>7
<1>12. ASSUME NEW k \in K
       PROVE  k + 1 \in K
  <2> HIDE DEF h
  <2> DEFINE j == k + 1
  <2> SUFFICES ASSUME j + 1 \in 1 .. n PROVE flatten[j + 1] = h[j + 1]
    OBVIOUS
  <2>1. j \in 1 .. n /\ j + 1 \in 2 .. n /\ (j + 1) - 1 = j /\ j + 1 # 1
    BY <1>1
  <2>2. flatten[j] = h[j]
    BY <2>1
  <2> HIDE DEF j
  <2>3. flatten[j + 1] = flatten[(j + 1) - 1] \o ss[j + 1]
    BY <2>1, <1>10
  <2> QED BY <2>1, <2>2, <2>3, <1>8
<1>13. K = Nat
  <2>1. K \in SUBSET Nat
    OBVIOUS
  <2> HIDE DEF K
  <2> QED BY <1>11, <1>12, <2>1, InductionOnASet
<1>14. flatten[n] = h[n]
  <2>1. (n - 1) + 1 = n /\ n \in 1 .. n
    BY ONLY <1>1
  <2>2. n - 1 \in K
    <3> HIDE DEF K
    <3> QED BY <1>1, <1>13
  <2>3. (n - 1) + 1 \in 1 .. n => flatten[(n - 1) + 1] = h[(n - 1) + 1]
    BY <2>2
  <2> HIDE DEF h, K
  <2> QED BY <2>1, <2>3
<1>15. IsFlattening(h, ss, A)
  <2>1. h \in [1 .. n -> Seq(A)]
    BY <1>6
  <2> HIDE DEF h
  <2> QED BY <2>1, <1>7, <1>8 DEF IsFlattening, n
<1> QED BY <1>2, <1>14, <1>15 DEF n
=============================================================================
