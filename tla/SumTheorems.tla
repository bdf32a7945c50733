----------------------------- MODULE SumTheorems -----------------------------
(***************************************************************************)
(* What a sum over a finite set is: the laws by which the proofs of the    *)
(* components follow what one write does to a total of quantities.         *)
(*                                                                         *)
(* The library folds a set by CHOOSE, element by element.  That the        *)
(* recursion has a solution, and that the order does not matter, is shown  *)
(* with minimal counterexamples (LeastNumber, FiniteInduction), which take *)
(* a set where an induction rule takes a predicate.                        *)
(***************************************************************************)
EXTENDS Planner, FiniteSets, FiniteSetTheorems, WellFoundedInduction, TLAPS

(* The element the library takes out next, and a function that adds up the *)
(* values of F over every subset of S in that order.                       *)
Pick(s) == CHOOSE x \in s : TRUE
Adds(g, F, S) ==
  g = [s \in SUBSET S |-> IF s = {} THEN 0 ELSE F[Pick(s)] + g[s \ {Pick(s)}]]

(* The definition of the library, under these names. *)
LEMMA SumUnfold ==
  ASSUME NEW F, NEW S
  PROVE  Sum(F, S) = (CHOOSE g : Adds(g, F, S))[S]
BY Zenon DEF Sum, MapThenSumSet, MapThenFoldSet, Adds, Pick

(* A set of natural numbers has a least element. *)
LEMMA LeastNumber ==
  ASSUME NEW T, T \subseteq Nat, T # {}
  PROVE  \E n \in T : \A m \in T : n <= m
<1> DEFINE R == OpToRel(<, Nat)
<1>1. \E x \in T : \A y \in T : ~ (<<y, x>> \in R)
  BY NatLessThanWellFounded, WFMin
<1>2. R = { ss \in Nat \X Nat : ss[1] < ss[2] }
  BY Zenon DEF OpToRel
<1> HIDE DEF R
<1>3. ASSUME NEW x \in T, NEW y \in T, ~ (<<y, x>> \in R) PROVE x <= y
  BY <1>2, <1>3
<1> QED BY <1>1, <1>3

(* Induction over a finite set: a set of sets that has the empty one, and   *)
(* with every subset of S one more element of S, has S itself.              *)
LEMMA FiniteInduction ==
  ASSUME NEW S, IsFiniteSet(S), NEW T, {} \in T,
         \A s \in T, x \in S : s \subseteq S => s \cup {x} \in T
  PROVE  S \in T
<1>1. SUFFICES ASSUME S \notin T PROVE FALSE
  OBVIOUS
<1> DEFINE Bad == { s \in SUBSET S : s \notin T }
           Sizes == { Cardinality(s) : s \in Bad }
<1>2. S \in Bad
  BY <1>1
<1>3. \A s \in SUBSET S : IsFiniteSet(s) /\ Cardinality(s) \in Nat
  BY FS_Subset, FS_CardinalityType
<1>4. Sizes \subseteq Nat /\ Sizes # {}
  BY <1>2, <1>3
<1>5. PICK n \in Sizes : \A m \in Sizes : n <= m
  BY <1>4, LeastNumber, Zenon
<1>6. PICK s \in Bad : Cardinality(s) = n
  BY <1>5
<1>7. s # {}
  BY <1>6
<1>8. PICK x : x \in s
  BY <1>7
<1>9. /\ Cardinality(s \ {x}) = Cardinality(s) - 1
      /\ s \ {x} \in SUBSET S
  BY <1>3, <1>6, <1>8, FS_RemoveElement
<1>10. s \ {x} \notin Bad
  <2> SUFFICES ASSUME s \ {x} \in Bad PROVE FALSE
    OBVIOUS
  <2>1. Cardinality(s \ {x}) \in Sizes
    OBVIOUS
  <2>2. n <= Cardinality(s \ {x})
    BY <2>1, <1>5
  <2> QED BY <2>2, <1>3, <1>6, <1>9
<1>11. (s \ {x}) \cup {x} \in T
  BY <1>8, <1>9, <1>10, <1>6
<1>12. (s \ {x}) \cup {x} = s
  BY <1>8
<1> QED BY <1>6, <1>11, <1>12

(* The recursion has a solution: the least size at which there is none      *)
(* would be reached from the solution one size below.                       *)
LEMMA AddsExists ==
  ASSUME NEW S, IsFiniteSet(S), NEW F, \A x \in S : F[x] \in Int
  PROVE  \E g \in [SUBSET S -> Int] : Adds(g, F, S)
<1> DEFINE D(g, s) == IF s = {} THEN 0 ELSE F[Pick(s)] + g[s \ {Pick(s)}]
           UpTo(g, n) == \A s \in SUBSET S : Cardinality(s) <= n => g[s] = D(g, s)
           Bad == { n \in Nat : ~ \E g \in [SUBSET S -> Int] : UpTo(g, n) }
<1>1. \A s \in SUBSET S : IsFiniteSet(s) /\ Cardinality(s) \in Nat
                            /\ (Cardinality(s) = 0 <=> s = {})
  BY FS_Subset, FS_CardinalityType, FS_EmptySet
<1>2. ASSUME NEW s \in SUBSET S, s # {}
      PROVE  /\ Pick(s) \in s
             /\ s \ {Pick(s)} \in SUBSET S
             /\ Cardinality(s \ {Pick(s)}) = Cardinality(s) - 1
  <2>1. Pick(s) \in s
    BY <1>2 DEF Pick
  <2> QED BY <2>1, <1>1, FS_RemoveElement
<1>3. ASSUME NEW g \in [SUBSET S -> Int], NEW s \in SUBSET S
      PROVE  D(g, s) \in Int
  BY <1>2
<1>4. Bad = {}
  <2> SUFFICES ASSUME Bad # {} PROVE FALSE
    OBVIOUS
  <2>1. Bad \subseteq Nat
    OBVIOUS
  <2>2. PICK n \in Bad : \A m \in Bad : n <= m
    BY <2>1, LeastNumber, Zenon
  <2>3. CASE n = 0
    <3> DEFINE g == [s \in SUBSET S |-> 0]
    <3>1. g \in [SUBSET S -> Int]
      OBVIOUS
    <3>2. UpTo(g, 0)
      <4> SUFFICES ASSUME NEW s \in SUBSET S, Cardinality(s) <= 0 PROVE g[s] = D(g, s)
        OBVIOUS
      <4>1. s = {}
        BY <1>1
      <4> QED BY <4>1
    <3> HIDE DEF g
    <3> QED BY <3>1, <3>2, <2>3, <2>2
  <2>4. CASE n # 0
    <3>1. n - 1 \in Nat /\ n - 1 \notin Bad
      <4>1. n \in Nat
        BY <2>1
      <4> HIDE DEF Bad
      <4> QED BY <4>1, <2>2, <2>4
    <3>2. PICK g \in [SUBSET S -> Int] : UpTo(g, n - 1)
      BY <3>1
    <3> DEFINE h == [s \in SUBSET S |-> IF Cardinality(s) = n THEN D(g, s) ELSE g[s]]
    <3>3. h \in [SUBSET S -> Int]
      <4>1. \A s \in SUBSET S : D(g, s) \in Int /\ g[s] \in Int
        BY <1>3
      <4> HIDE DEF D
      <4> QED BY <4>1
    <3>4. UpTo(h, n)
      <4> SUFFICES ASSUME NEW s \in SUBSET S, Cardinality(s) <= n PROVE h[s] = D(h, s)
        OBVIOUS
      <4>1. h[s] = D(g, s)
        BY <3>2, <1>1
      <4>2. CASE s = {}
        BY <4>1, <4>2
      <4>3. CASE s # {}
        <5>1. h[s \ {Pick(s)}] = g[s \ {Pick(s)}]
          BY <4>3, <1>2, <1>1
        <5> HIDE DEF h
        <5> QED BY <4>1, <5>1, <4>3
      <4> QED BY <4>2, <4>3
    <3> HIDE DEF h
    <3> QED BY <3>3, <3>4, <2>2
  <2> QED BY <2>3, <2>4
<1>5. PICK g \in [SUBSET S -> Int] : UpTo(g, Cardinality(S))
  BY <1>4, <1>1
<1>6. ASSUME NEW s \in SUBSET S PROVE g[s] = D(g, s)
  <2>1. Cardinality(s) <= Cardinality(S)
    BY FS_Subset
  <2> QED BY <2>1, <1>5
<1>7. g = [s \in SUBSET S |-> D(g, s)]
  BY <1>6
<1> QED BY <1>7 DEF Adds

(* The recursion that Sum(F, S) is the value of. *)
LEMMA AddsStep ==
  ASSUME NEW S, NEW F, NEW g, Adds(g, F, S), NEW s \in SUBSET S
  PROVE  /\ s = {} => g[s] = 0
         /\ s # {} => g[s] = F[Pick(s)] + g[s \ {Pick(s)}]
<1> DEFINE E(x) == IF x = {} THEN 0 ELSE F[Pick(x)] + g[x \ {Pick(x)}]
<1>1. g = [x \in SUBSET S |-> E(x)]
  BY DEF Adds
<1>2. g[s] = E(s)
  <2> HIDE DEF E
  <2> QED BY <1>1
<1> QED BY <1>2

(* Where it starts. *)
LEMMA AddsEmpty ==
  ASSUME NEW S, NEW F, NEW g, Adds(g, F, S)
  PROVE  g[{}] = 0
<1>1. {} \in SUBSET S
  OBVIOUS
<1> QED BY <1>1, AddsStep, Zenon

(* Two of them agree wherever their functions do. *)
LEMMA AddsAgree ==
  ASSUME NEW S, IsFiniteSet(S), NEW F, NEW g, Adds(g, F, S),
         NEW T \in SUBSET S, NEW G, NEW h, Adds(h, G, T),
         \A x \in T : F[x] = G[x]
  PROVE  g[T] = h[T]
<1> DEFINE Bad == { s \in SUBSET T : g[s] # h[s] }
           Sizes == { Cardinality(s) : s \in Bad }
<1>1. SUFFICES ASSUME g[T] # h[T] PROVE FALSE
  OBVIOUS
<1>2. T \in Bad
  BY <1>1
<1>3. \A s \in SUBSET S : IsFiniteSet(s) /\ Cardinality(s) \in Nat
  BY FS_Subset, FS_CardinalityType
<1>4. Sizes \subseteq Nat /\ Sizes # {}
  BY <1>2, <1>3
<1>5. PICK n \in Sizes : \A m \in Sizes : n <= m
  BY <1>4, LeastNumber, Zenon
<1>6. PICK s \in Bad : Cardinality(s) = n
  BY <1>5
<1>7. s \in SUBSET S /\ s \in SUBSET T /\ g[s] # h[s]
  BY <1>6
<1>8. s # {}
  <2> SUFFICES ASSUME s = {} PROVE FALSE
    OBVIOUS
  <2>1. g[{}] = 0 /\ h[{}] = 0
    BY AddsEmpty
  <2> QED BY <1>7, <2>1
<1>9. Pick(s) \in s
  BY <1>8 DEF Pick
<1>10. Cardinality(s \ {Pick(s)}) = n - 1
  BY <1>3, <1>7, <1>6, <1>9, FS_RemoveElement
<1>11. s \ {Pick(s)} \notin Bad
  <2> SUFFICES ASSUME s \ {Pick(s)} \in Bad PROVE FALSE
    OBVIOUS
  <2>1. n - 1 \in Sizes
    BY <1>10
  <2> QED BY <2>1, <1>5, <1>4
<1>12. g[s \ {Pick(s)}] = h[s \ {Pick(s)}]
  BY <1>11, <1>7
<1>13. g[s] = F[Pick(s)] + g[s \ {Pick(s)}] /\ h[s] = G[Pick(s)] + h[s \ {Pick(s)}]
  BY <1>7, <1>8, AddsStep
<1>14. F[Pick(s)] = G[Pick(s)]
  BY <1>7, <1>9
<1> QED BY <1>7, <1>12, <1>13, <1>14

(* Sum(F, S) is the value at S of a function that adds F up. *)
LEMMA SumAdds ==
  ASSUME NEW S, IsFiniteSet(S), NEW F, \A x \in S : F[x] \in Int
  PROVE  \E g \in [SUBSET S -> Int] :
           Adds(g, F, S) /\ \A s \in SUBSET S : g[s] = Sum(F, s)
<1>1. ASSUME NEW T \in SUBSET S
      PROVE  \E h \in [SUBSET T -> Int] : Adds(h, F, T) /\ h[T] = Sum(F, T)
  <2>1. IsFiniteSet(T) /\ \A x \in T : F[x] \in Int
    BY FS_Subset
  <2>2. PICK k \in [SUBSET T -> Int] : Adds(k, F, T)
    BY <2>1, AddsExists
  <2> DEFINE h == CHOOSE g : Adds(g, F, T)
  <2>3. Adds(h, F, T)
    BY <2>2
  <2>4. Sum(F, T) = h[T]
    BY SumUnfold
  <2> HIDE DEF h
  <2>5. ASSUME NEW s \in SUBSET T PROVE h[s] \in Int
    <3>1. PICK j \in [SUBSET s -> Int] : Adds(j, F, s)
      BY <2>1, FS_Subset, AddsExists
    <3>2. h[s] = j[s]
      BY <2>1, <2>3, <3>1, AddsAgree
    <3> QED BY <3>1, <3>2
  <2>6. h \in [SUBSET T -> Int]
    <3>1. h = [s \in SUBSET T |-> h[s]]
      BY <2>3 DEF Adds
    <3> QED BY <3>1, <2>5
  <2> QED BY <2>3, <2>4, <2>6
<1>2. PICK g \in [SUBSET S -> Int] : Adds(g, F, S)
  BY AddsExists
<1>3. ASSUME NEW T \in SUBSET S PROVE g[T] = Sum(F, T)
  <2>1. PICK h \in [SUBSET T -> Int] : Adds(h, F, T) /\ h[T] = Sum(F, T)
    BY <1>1
  <2> QED BY <1>2, <2>1, AddsAgree
<1> QED BY <1>2, <1>3

(* The same, for S alone. *)
LEMMA SumAddsAt ==
  ASSUME NEW S, IsFiniteSet(S), NEW F, \A x \in S : F[x] \in Int
  PROVE  \E g : Adds(g, F, S) /\ g[S] = Sum(F, S)
<1>1. PICK g \in [SUBSET S -> Int] :
        Adds(g, F, S) /\ \A s \in SUBSET S : g[s] = Sum(F, s)
  BY SumAdds
<1>2. g[S] = Sum(F, S)
  BY <1>1
<1> QED BY <1>1, <1>2

(* The total of quantities that are integers is an integer. *)
THEOREM SumType ==
  ASSUME NEW S, IsFiniteSet(S), NEW F, \A x \in S : F[x] \in Int
  PROVE  Sum(F, S) \in Int
<1>1. PICK g \in [SUBSET S -> Int] :
        Adds(g, F, S) /\ \A s \in SUBSET S : g[s] = Sum(F, s)
  BY SumAdds
<1>2. g[S] = Sum(F, S) /\ g[S] \in Int
  BY <1>1
<1> QED BY <1>2

(* The total of nothing, of an order without rows, is 0. *)
THEOREM SumEmpty ==
  ASSUME NEW F
  PROVE  Sum(F, {}) = 0
<1>1. PICK g \in [SUBSET {} -> Int] :
        Adds(g, F, {}) /\ \A s \in SUBSET {} : g[s] = Sum(F, s)
  BY SumAdds, FS_EmptySet
<1>2. g[{}] = Sum(F, {})
  BY <1>1
<1>3. g[{}] = 0
  BY <1>1, AddsEmpty
<1> QED BY <1>2, <1>3

(* A sum depends on the values of its elements alone. *)
THEOREM SumSame ==
  ASSUME NEW S, IsFiniteSet(S), NEW F, \A x \in S : F[x] \in Int,
         NEW G, \A x \in S : F[x] = G[x]
  PROVE  Sum(F, S) = Sum(G, S)
<1>2. PICK g : Adds(g, F, S) /\ g[S] = Sum(F, S)
  BY SumAddsAt
<1>3. \A x \in S : G[x] \in Int
  OBVIOUS
<1>4. PICK h : Adds(h, G, S) /\ h[S] = Sum(G, S)
  BY <1>3, SumAddsAt
<1>5. g[S] = h[S]
  BY <1>2, <1>4, AddsAgree
<1> QED BY <1>2, <1>4, <1>5

(* Any element can be taken out, whichever the library took out first. *)
THEOREM SumRemove ==
  ASSUME NEW S, IsFiniteSet(S), NEW F, \A x \in S : F[x] \in Int,
         NEW y \in S
  PROVE  Sum(F, S) = F[y] + Sum(F, S \ {y})
<1>1. PICK g \in [SUBSET S -> Int] :
        Adds(g, F, S) /\ \A s \in SUBSET S : g[s] = Sum(F, s)
  BY SumAdds
<1> DEFINE Good(s) == \A x \in s : g[s] = F[x] + g[s \ {x}]
           Bad == { s \in SUBSET S : ~ Good(s) }
           Sizes == { Cardinality(s) : s \in Bad }
<1>2. \A s \in SUBSET S : IsFiniteSet(s) /\ Cardinality(s) \in Nat
  BY FS_Subset, FS_CardinalityType
<1>3. Bad = {}
  <2> SUFFICES ASSUME Bad # {} PROVE FALSE
    OBVIOUS
  <2>1. Sizes \subseteq Nat /\ Sizes # {}
    BY <1>2
  <2>2. PICK n \in Sizes : \A m \in Sizes : n <= m
    BY <2>1, LeastNumber, Zenon
  <2>3. PICK s \in Bad : Cardinality(s) = n
    BY <2>2
  <2>4. s \in SUBSET S /\ ~ Good(s)
    BY <2>3
  <2>5. PICK x \in s : g[s] # F[x] + g[s \ {x}]
    BY <2>4
  <2>6. PICK p : p = Pick(s)
    OBVIOUS
  <2>7. p \in s /\ g[s] = F[p] + g[s \ {p}]
    <3>1. s # {}
      BY <2>5
    <3>2. Pick(s) \in s
      BY <3>1 DEF Pick
    <3> QED BY <2>4, <2>6, <3>1, <3>2, <1>1, AddsStep
  <2>8. p # x
    BY <2>5, <2>7
  <2>9. ASSUME NEW e \in s PROVE Good(s \ {e})
    <3>1. Cardinality(s \ {e}) = n - 1 /\ s \ {e} \in SUBSET S
      BY <1>2, <2>4, <2>3, FS_RemoveElement
    <3>2. s \ {e} \notin Bad
      <4> SUFFICES ASSUME s \ {e} \in Bad PROVE FALSE
        OBVIOUS
      <4>1. n - 1 \in Sizes
        BY <3>1
      <4>2. n <= n - 1 /\ n \in Nat
        <5> HIDE DEF Sizes
        <5> QED BY <4>1, <2>2, <2>1
      <4> QED BY <4>2
    <3> HIDE DEF Good
    <3> QED BY <3>1, <3>2
  <2>10. g[s \ {p}] = F[x] + g[(s \ {p}) \ {x}]
    BY <2>7, <2>8, <2>9
  <2>11. g[s \ {x}] = F[p] + g[(s \ {x}) \ {p}]
    BY <2>7, <2>8, <2>9
  <2>12. (s \ {p}) \ {x} = (s \ {x}) \ {p}
    OBVIOUS
  <2>13. F[p] \in Int /\ F[x] \in Int /\ g[(s \ {x}) \ {p}] \in Int
    BY <2>4, <2>7
  <2>14. g[s] = F[p] + (F[x] + g[(s \ {x}) \ {p}])
    BY <2>7, <2>10, <2>12
  <2>15. F[x] + g[s \ {x}] = F[x] + (F[p] + g[(s \ {x}) \ {p}])
    BY <2>11
  <2>16. g[s] = F[x] + g[s \ {x}]
    <3> HIDE DEF Good, Bad, Sizes
    <3> QED BY <2>13, <2>14, <2>15
  <2> QED BY <2>5, <2>16
<1>4. Good(S)
  <2> HIDE DEF Good
  <2> QED BY <1>3
<1> QED BY <1>1, <1>4

(* What a new element adds. *)
THEOREM SumInsert ==
  ASSUME NEW S, IsFiniteSet(S), NEW y, y \notin S,
         NEW F, \A x \in S \cup {y} : F[x] \in Int
  PROVE  Sum(F, S \cup {y}) = Sum(F, S) + F[y]
<1>1. IsFiniteSet(S \cup {y}) /\ (S \cup {y}) \ {y} = S /\ y \in S \cup {y}
  BY FS_AddElement
<1>2. Sum(F, S \cup {y}) = F[y] + Sum(F, (S \cup {y}) \ {y})
  BY <1>1, SumRemove
<1>3. Sum(F, S) \in Int /\ F[y] \in Int
  BY SumType
<1>4. Sum(F, S \cup {y}) = F[y] + Sum(F, S)
  BY <1>1, <1>2, Zenon
<1> QED BY <1>3, <1>4

(* A sum over one more element, of a function that agrees on the others. *)
THEOREM SumGrows ==
  ASSUME NEW S, IsFiniteSet(S), NEW y, y \notin S,
         NEW F, \A x \in S : F[x] \in Int,
         NEW G, \A x \in S : G[x] = F[x], G[y] \in Int
  PROVE  Sum(G, S \cup {y}) = Sum(F, S) + G[y]
<1>1. \A x \in S \cup {y} : G[x] \in Int
  OBVIOUS
<1>2. Sum(G, S \cup {y}) = Sum(G, S) + G[y]
  BY <1>1, SumInsert
<1>3. Sum(F, S) = Sum(G, S)
  BY SumSame
<1> QED BY <1>2, <1>3

(* What a change of one value does to a sum. *)
THEOREM SumChange ==
  ASSUME NEW S, IsFiniteSet(S), NEW y \in S,
         NEW F, \A x \in S : F[x] \in Int,
         NEW G, \A x \in S : G[x] \in Int,
         \A x \in S \ {y} : F[x] = G[x]
  PROVE  Sum(G, S) = Sum(F, S) + G[y] - F[y]
<1>1. IsFiniteSet(S \ {y})
  BY FS_RemoveElement
<1>2. Sum(F, S) = F[y] + Sum(F, S \ {y})
  BY SumRemove
<1>3. Sum(G, S) = G[y] + Sum(G, S \ {y})
  BY SumRemove
<1>4. \A x \in S \ {y} : F[x] \in Int
  OBVIOUS
<1>5. Sum(F, S \ {y}) = Sum(G, S \ {y})
  BY <1>1, <1>4, SumSame
<1>6. Sum(F, S \ {y}) \in Int
  BY <1>1, <1>4, SumType
<1> QED BY <1>2, <1>3, <1>5, <1>6

(* A sum is monotonic in its values. *)
THEOREM SumMonotone ==
  ASSUME NEW S, IsFiniteSet(S),
         NEW F, \A x \in S : F[x] \in Int,
         NEW G, \A x \in S : G[x] \in Int,
         \A x \in S : F[x] <= G[x]
  PROVE  Sum(F, S) <= Sum(G, S)
<1> DEFINE T == { s \in SUBSET S : Sum(F, s) <= Sum(G, s) }
<1>1. {} \in T
  BY SumEmpty
<1>2. ASSUME NEW s \in T, NEW y \in S PROVE s \cup {y} \in T
  <2>0. s \in SUBSET S /\ Sum(F, s) <= Sum(G, s) /\ IsFiniteSet(s)
    BY FS_Subset
  <2>1. CASE y \in s
    <3>1. s \cup {y} = s
      BY <2>1
    <3> QED BY <3>1
  <2>2. CASE y \notin s
    <3>1. Sum(F, s \cup {y}) = Sum(F, s) + F[y] /\ Sum(F, s) \in Int
      BY <2>0, <2>2, SumInsert, SumType
    <3>2. Sum(G, s \cup {y}) = Sum(G, s) + G[y] /\ Sum(G, s) \in Int
      BY <2>0, <2>2, SumInsert, SumType
    <3>3. F[y] <= G[y] /\ F[y] \in Int /\ G[y] \in Int
      OBVIOUS
    <3>4. Sum(F, s \cup {y}) <= Sum(G, s \cup {y})
      BY <2>0, <3>1, <3>2, <3>3
    <3> QED BY <2>0, <3>4
  <2> QED BY <2>1, <2>2
<1>3. S \in T
  <2> HIDE DEF T
  <2> QED BY <1>1, <1>2, FiniteInduction
<1> QED BY <1>3

(* The sum of a pointwise sum. *)
THEOREM SumPlus ==
  ASSUME NEW S, IsFiniteSet(S),
         NEW F, \A x \in S : F[x] \in Int,
         NEW G, \A x \in S : G[x] \in Int,
         NEW H, \A x \in S : H[x] = F[x] + G[x]
  PROVE  Sum(H, S) = Sum(F, S) + Sum(G, S)
<1> DEFINE T == { s \in SUBSET S : Sum(H, s) = Sum(F, s) + Sum(G, s) }
<1>1. {} \in T
  BY SumEmpty
<1>2. ASSUME NEW s \in T, NEW y \in S PROVE s \cup {y} \in T
  <2>0. s \in SUBSET S /\ Sum(H, s) = Sum(F, s) + Sum(G, s) /\ IsFiniteSet(s)
    BY FS_Subset
  <2>1. CASE y \in s
    <3>1. s \cup {y} = s
      BY <2>1
    <3> QED BY <3>1
  <2>2. CASE y \notin s
    <3>1. Sum(F, s \cup {y}) = Sum(F, s) + F[y] /\ Sum(F, s) \in Int
      BY <2>0, <2>2, SumInsert, SumType
    <3>2. Sum(G, s \cup {y}) = Sum(G, s) + G[y] /\ Sum(G, s) \in Int
      BY <2>0, <2>2, SumInsert, SumType
    <3>3. H[y] = F[y] + G[y] /\ F[y] \in Int /\ G[y] \in Int
      OBVIOUS
    <3>4. \A x \in s \cup {y} : H[x] \in Int
      BY <2>0
    <3>5. Sum(H, s \cup {y}) = Sum(H, s) + H[y]
      BY <2>0, <2>2, <3>4, SumInsert
    <3>6. Sum(H, s \cup {y}) = Sum(F, s \cup {y}) + Sum(G, s \cup {y})
      BY <2>0, <3>1, <3>2, <3>3, <3>5
    <3> QED BY <2>0, <3>6
  <2> QED BY <2>1, <2>2
<1>3. S \in T
  <2> HIDE DEF T
  <2> QED BY <1>1, <1>2, FiniteInduction
<1> QED BY <1>3

(* A total of zeros is 0. *)
THEOREM SumZero ==
  ASSUME NEW S, IsFiniteSet(S), NEW F, \A x \in S : F[x] = 0
  PROVE  Sum(F, S) = 0
<1>1. \A x \in S : F[x] \in Int
  OBVIOUS
<1>2. \A x \in S : F[x] = F[x] + F[x]
  OBVIOUS
<1>3. Sum(F, S) = Sum(F, S) + Sum(F, S)
  BY <1>1, <1>2, SumPlus
<1>4. PICK n \in Int : n = Sum(F, S)
  BY <1>1, SumType
<1>5. n = n + n
  BY <1>3, <1>4
<1>6. n = 0
  BY <1>5
<1> QED BY <1>4, <1>6

(* The total of natural numbers is one. *)
THEOREM SumNat ==
  ASSUME NEW S, IsFiniteSet(S), NEW F, \A x \in S : F[x] \in Nat
  PROVE  Sum(F, S) \in Nat
<1> DEFINE Z == [x \in S |-> 0]
<1>1. \A x \in S : F[x] \in Int /\ Z[x] \in Int /\ Z[x] <= F[x] /\ Z[x] = 0
  OBVIOUS
<1> HIDE DEF Z
<1>2. Sum(Z, S) = 0
  BY <1>1, SumZero
<1>3. Sum(Z, S) <= Sum(F, S)
  BY <1>1, SumMonotone
<1>4. Sum(F, S) \in Int
  BY <1>1, SumType
<1> QED BY <1>2, <1>3, <1>4

(* A sum over two sets that have nothing in common. *)
THEOREM SumUnion ==
  ASSUME NEW S, IsFiniteSet(S), NEW R, IsFiniteSet(R), S \cap R = {},
         NEW F, \A x \in S \cup R : F[x] \in Int
  PROVE  Sum(F, S \cup R) = Sum(F, S) + Sum(F, R)
<1> DEFINE T == { r \in SUBSET R : Sum(F, S \cup r) = Sum(F, S) + Sum(F, r) }
<1>0. Sum(F, S) \in Int
  BY SumType
<1>1. {} \in T
  BY <1>0, SumEmpty
<1>2. ASSUME NEW r \in T, NEW y \in R PROVE r \cup {y} \in T
  <2>0. r \in SUBSET R /\ Sum(F, S \cup r) = Sum(F, S) + Sum(F, r) /\ IsFiniteSet(r)
    BY FS_Subset
  <2>1. CASE y \in r
    <3>1. r \cup {y} = r
      BY <2>1
    <3> QED BY <3>1
  <2>2. CASE y \notin r
    <3>1. Sum(F, r \cup {y}) = Sum(F, r) + F[y] /\ Sum(F, r) \in Int
      BY <2>0, <2>2, SumInsert, SumType
    <3>2. IsFiniteSet(S \cup r) /\ y \notin S \cup r
      BY <2>0, <2>2, FS_Union
    <3>3. \A x \in (S \cup r) \cup {y} : F[x] \in Int
      BY <2>0
    <3>4. Sum(F, (S \cup r) \cup {y}) = Sum(F, S \cup r) + F[y]
      BY <3>2, <3>3, SumInsert
    <3>5. (S \cup r) \cup {y} = S \cup (r \cup {y}) /\ F[y] \in Int
      OBVIOUS
    <3>6. Sum(F, S \cup (r \cup {y})) = Sum(F, S) + Sum(F, r \cup {y})
      <4>1. PICK a \in Int, b \in Int, c \in Int :
              a = Sum(F, S) /\ b = Sum(F, r) /\ c = F[y]
        BY <1>0, <3>1, <3>5
      <4>2. Sum(F, S \cup (r \cup {y})) = (a + b) + c
        BY <2>0, <3>4, <3>5, <4>1, Zenon
      <4>3. Sum(F, r \cup {y}) = b + c
        BY <3>1, <4>1, Zenon
      <4>4. (a + b) + c = a + (b + c)
        BY <4>1
      <4> QED BY <4>1, <4>2, <4>3, <4>4, Zenon
    <3> QED BY <2>0, <3>6
  <2> QED BY <2>1, <2>2
<1>3. R \in T
  <2> HIDE DEF T
  <2> QED BY <1>1, <1>2, FiniteInduction
<1> QED BY <1>3

(* f gives the members of S other names, those of U, under which F has the  *)
(* values G has.                                                            *)
Renames(f, S, U) == (\A x, y \in S : f[x] = f[y] => x = y) /\ U = { f[x] : x \in S }
ReadsAs(G, F, f, S) == \A x \in S : F[f[x]] \in Int /\ G[x] = F[f[x]]

(* The elements of a sum may go by other names. *)
THEOREM SumRename ==
  ASSUME NEW S, IsFiniteSet(S), NEW f, NEW U, Renames(f, S, U),
         NEW F, NEW G, ReadsAs(G, F, f, S)
  PROVE  Sum(F, U) = Sum(G, S)
<1> USE DEF Renames, ReadsAs
<1> DEFINE Im(s) == { f[x] : x \in s }
           T == { s \in SUBSET S : Sum(F, Im(s)) = Sum(G, s) }
<1>1. {} \in T
  <2>1. Im({}) = {}
    OBVIOUS
  <2> QED BY <2>1, SumEmpty
<1>2. ASSUME NEW s \in T, NEW y \in S PROVE s \cup {y} \in T
  <2>0. s \in SUBSET S /\ Sum(F, Im(s)) = Sum(G, s) /\ IsFiniteSet(s)
    BY FS_Subset
  <2>1. CASE y \in s
    <3>1. s \cup {y} = s
      BY <2>1
    <3> QED BY <3>1
  <2>2. CASE y \notin s
    <3>0. \A x \in s \cup {y} : G[x] \in Int
      BY <2>0
    <3>1. Sum(G, s \cup {y}) = Sum(G, s) + G[y]
      BY <2>0, <2>2, <3>0, SumInsert
    <3>2. IsFiniteSet(Im(s))
      <4> DEFINE g == [x \in s |-> f[x]]
      <4>1. g \in Surjection(s, Im(s))
        BY DEF Surjection
      <4> QED BY <2>0, <4>1, FS_Surjection
    <3>3. f[y] \notin Im(s) /\ \A z \in Im(s) \cup {f[y]} : F[z] \in Int
      BY <2>0, <2>2
    <3>4. Sum(F, Im(s) \cup {f[y]}) = Sum(F, Im(s)) + F[f[y]]
      <4> HIDE DEF Im
      <4> QED BY <3>2, <3>3, SumInsert
    <3>5. Im(s \cup {y}) = Im(s) \cup {f[y]}
      OBVIOUS
    <3>6. Sum(F, Im(s \cup {y})) = Sum(G, s \cup {y})
      <4> HIDE DEF Im
      <4> QED BY <2>0, <3>1, <3>4, <3>5
    <3> QED BY <2>0, <3>6
  <2> QED BY <2>1, <2>2
<1>3. S \in T
  <2> HIDE DEF T
  <2> QED BY <1>1, <1>2, FiniteInduction
<1> QED BY <1>3

(* H is F on A, and G behind the first n places. *)
Places(A, n) == A \subseteq 1 .. n
AllInt(F, A) == \A i \in A : F[i] \in Int
Ahead(H, F, A) == \A i \in A : H[i] = F[i]
Behind(H, n, G, B) == \A i \in B : H[n + i] = G[i]
EndToEnd(U, A, n, B) == U = A \cup { n + i : i \in B }

(* Two lists end to end, the places of the second after the n of the first. *)
THEOREM SumAppend ==
  ASSUME NEW n \in Nat, NEW A, Places(A, n), NEW k \in Nat, NEW B, Places(B, k),
         NEW F, AllInt(F, A), NEW G, AllInt(G, B),
         NEW H, Ahead(H, F, A), Behind(H, n, G, B),
         NEW U, EndToEnd(U, A, n, B)
  PROVE  Sum(H, U) = Sum(F, A) + Sum(G, B)
<1>0. PICK f : f = [i \in B |-> n + i]
  OBVIOUS
<1>1. PICK C : C = { f[x] : x \in B }
  OBVIOUS
<1>2. \A i \in B : f[i] = n + i /\ i \in Nat /\ i > 0
  BY <1>0 DEF Places
<1>3. IsFiniteSet(A) /\ IsFiniteSet(B)
  <2>1. IsFiniteSet(1 .. n) /\ IsFiniteSet(1 .. k)
    BY FS_Interval
  <2> QED BY <2>1, FS_Subset DEF Places
<1>4. Renames(f, B, C) /\ ReadsAs(G, H, f, B)
  BY <1>1, <1>2 DEF Places, AllInt, Behind, Renames, ReadsAs
<1>5. Sum(H, C) = Sum(G, B)
  BY <1>3, <1>4, SumRename
<1>6. A \cap C = {} /\ U = A \cup C /\ \A x \in A \cup C : H[x] \in Int
  <2>1. A \cap C = {} /\ U = A \cup C
    BY <1>1, <1>2 DEF EndToEnd, Places
  <2>2. \A x \in A : H[x] \in Int
    BY DEF AllInt, Ahead
  <2>3. \A x \in C : H[x] \in Int
    BY <1>1, <1>4 DEF ReadsAs
  <2> QED BY <2>1, <2>2, <2>3
<1>7. IsFiniteSet(C)
  <2>1. C \subseteq 1 .. (n + k) /\ n + k \in Nat
    BY <1>1, <1>2 DEF Places
  <2>2. IsFiniteSet(1 .. (n + k))
    BY <2>1, FS_Interval
  <2> QED BY <2>1, <2>2, FS_Subset
<1>8. Sum(H, A \cup C) = Sum(H, A) + Sum(H, C)
  BY <1>3, <1>6, <1>7, SumUnion
<1>9. Sum(F, A) = Sum(H, A)
  BY <1>3, SumSame DEF AllInt, Ahead
<1> QED BY <1>5, <1>6, <1>8, <1>9

(* A total is at most its size times a bound of its values. *)
THEOREM SumAtMost ==
  ASSUME NEW S, IsFiniteSet(S), NEW v \in Int,
         NEW F, \A x \in S : F[x] \in Int /\ F[x] <= v
  PROVE  Sum(F, S) <= v * Cardinality(S)
<1> DEFINE T == { s \in SUBSET S : Sum(F, s) <= v * Cardinality(s) }
<1>1. {} \in T
  BY SumEmpty, FS_EmptySet
<1>2. ASSUME NEW s \in T, NEW y \in S PROVE s \cup {y} \in T
  <2>0. s \in SUBSET S /\ Sum(F, s) <= v * Cardinality(s) /\ IsFiniteSet(s)
    BY FS_Subset
  <2>1. CASE y \in s
    <3>1. s \cup {y} = s
      BY <2>1
    <3> QED BY <3>1
  <2>2. CASE y \notin s
    <3>1. Sum(F, s \cup {y}) = Sum(F, s) + F[y] /\ Sum(F, s) \in Int
      BY <2>0, <2>2, SumInsert, SumType
    <3>2. Cardinality(s \cup {y}) = Cardinality(s) + 1 /\ Cardinality(s) \in Nat
      BY <2>0, <2>2, FS_AddElement, FS_CardinalityType
    <3>3. v * (Cardinality(s) + 1) = v * Cardinality(s) + v /\ v * Cardinality(s) \in Int
      BY <3>2
    <3>4. F[y] <= v /\ F[y] \in Int
      OBVIOUS
    <3>5. Sum(F, s \cup {y}) <= v * Cardinality(s \cup {y})
      BY <2>0, <3>1, <3>2, <3>3, <3>4
    <3> QED BY <2>0, <3>5
  <2> QED BY <2>1, <2>2
<1>3. S \in T
  <2> HIDE DEF T
  <2> QED BY <1>1, <1>2, FiniteInduction
<1> QED BY <1>3

(* And at least its size times a bound from below. *)
THEOREM SumAtLeast ==
  ASSUME NEW S, IsFiniteSet(S), NEW v \in Int,
         NEW F, \A x \in S : F[x] \in Int /\ v <= F[x]
  PROVE  v * Cardinality(S) <= Sum(F, S)
<1> DEFINE T == { s \in SUBSET S : v * Cardinality(s) <= Sum(F, s) }
<1>1. {} \in T
  BY SumEmpty, FS_EmptySet
<1>2. ASSUME NEW s \in T, NEW y \in S PROVE s \cup {y} \in T
  <2>0. s \in SUBSET S /\ v * Cardinality(s) <= Sum(F, s) /\ IsFiniteSet(s)
    BY FS_Subset
  <2>1. CASE y \in s
    <3>1. s \cup {y} = s
      BY <2>1
    <3> QED BY <3>1
  <2>2. CASE y \notin s
    <3>1. Sum(F, s \cup {y}) = Sum(F, s) + F[y] /\ Sum(F, s) \in Int
      BY <2>0, <2>2, SumInsert, SumType
    <3>2. Cardinality(s \cup {y}) = Cardinality(s) + 1 /\ Cardinality(s) \in Nat
      BY <2>0, <2>2, FS_AddElement, FS_CardinalityType
    <3>3. v * (Cardinality(s) + 1) = v * Cardinality(s) + v /\ v * Cardinality(s) \in Int
      BY <3>2
    <3>4. v <= F[y] /\ F[y] \in Int
      OBVIOUS
    <3>5. v * Cardinality(s \cup {y}) <= Sum(F, s \cup {y})
      BY <2>0, <3>1, <3>2, <3>3, <3>4
    <3> QED BY <2>0, <3>5
  <2> QED BY <2>1, <2>2
<1>3. S \in T
  <2> HIDE DEF T
  <2> QED BY <1>1, <1>2, FiniteInduction
<1> QED BY <1>3
-----------------------------------------------------------------------------
(* The planner's loop *)

(* A list of n candidates each of which has something to give. *)
Offers(s, avail, n) ==
  DOMAIN s = 1 .. n /\ \A i \in 1 .. n : avail[s[i]] \in Nat \ {0}

(* A list of the n members of a finite set, each once, and its first m.     *)
Lists(s, C, n) ==
  /\ IsFiniteSet(C) /\ Cardinality(C) = n /\ DOMAIN s = 1 .. n
  /\ \A i \in 1 .. n : s[i] \in C
  /\ \A i, j \in 1 .. n : s[i] = s[j] => i = j
Firsts(s, m) == { s[i] : i \in 1 .. m }
Stocked(avail, C) == \A c \in C : avail[c] \in Nat \ {0}

(* What the first candidates have, one candidate at a time. *)
LEMMA GivenStep ==
  ASSUME NEW n \in Nat, NEW s, NEW avail, Offers(s, avail, n)
  PROVE  /\ Given(s, avail, 0) = 0
         /\ \A i \in 0 .. n : Given(s, avail, i) \in Nat
         /\ \A i \in 1 .. n :
              Given(s, avail, i) = Given(s, avail, i - 1) + avail[s[i]]
<1>1. Given(s, avail, 0) = 0
  <2>1. 1 .. 0 = {}
    OBVIOUS
  <2> QED BY <2>1, SumEmpty DEF Given
<1>2. ASSUME NEW i \in 0 .. n PROVE Given(s, avail, i) \in Nat
  <2> DEFINE F == [j \in 1 .. i |-> avail[s[j]]]
  <2>1. IsFiniteSet(1 .. i) /\ \A j \in 1 .. i : F[j] \in Nat
    BY FS_Interval DEF Offers
  <2>2. Sum(F, 1 .. i) \in Nat
    <3> HIDE DEF F
    <3> QED BY <2>1, SumNat
  <2> QED BY <2>2 DEF Given
<1>3. ASSUME NEW i \in 1 .. n
      PROVE  Given(s, avail, i) = Given(s, avail, i - 1) + avail[s[i]]
  <2> DEFINE F == [j \in 1 .. i - 1 |-> avail[s[j]]]
             G == [j \in 1 .. i |-> avail[s[j]]]
  <2>1. /\ IsFiniteSet(1 .. i - 1) /\ i \notin 1 .. i - 1
        /\ (1 .. i - 1) \cup {i} = 1 .. i
    BY FS_Interval
  <2>2. \A j \in 1 .. i - 1 : F[j] \in Int /\ G[j] = F[j]
    BY DEF Offers
  <2>3. G[i] = avail[s[i]] /\ G[i] \in Int
    BY DEF Offers
  <2>4. Sum(G, (1 .. i - 1) \cup {i}) = Sum(F, 1 .. i - 1) + G[i]
    <3>1. PICK S : S = 1 .. i - 1
      OBVIOUS
    <3>2. IsFiniteSet(S) /\ i \notin S
      BY <2>1, <3>1
    <3>3. (\A j \in S : F[j] \in Int) /\ (\A j \in S : G[j] = F[j]) /\ G[i] \in Int
      BY <2>2, <2>3, <3>1
    <3> HIDE DEF F, G
    <3>4. Sum(G, S \cup {i}) = Sum(F, S) + G[i]
      BY <3>2, <3>3, SumGrows
    <3> QED BY <3>1, <3>4
  <2> QED BY <2>1, <2>3, <2>4 DEF Given
<1> QED BY <1>1, <1>2, <1>3

(* Each candidate adds something. *)
LEMMA GivenGrows ==
  ASSUME NEW n \in Nat, NEW s, NEW avail, Offers(s, avail, n),
         NEW i \in 0 .. n, NEW j \in 0 .. n, i < j
  PROVE  Given(s, avail, i) < Given(s, avail, j)
<1> DEFINE Bad == { m \in Nat : /\ i + 1 + m \in 0 .. n
                                /\ ~ (Given(s, avail, i) < Given(s, avail, i + 1 + m)) }
<1>1. /\ \A k \in 0 .. n : Given(s, avail, k) \in Nat
      /\ \A k \in 1 .. n : Given(s, avail, k) = Given(s, avail, k - 1) + avail[s[k]]
  BY GivenStep
<1>2. \A k \in 1 .. n : avail[s[k]] \in Nat /\ avail[s[k]] > 0
  BY DEF Offers
<1>3. \A k \in 1 .. n : Given(s, avail, k - 1) < Given(s, avail, k)
  <2> SUFFICES ASSUME NEW k \in 1 .. n
               PROVE  Given(s, avail, k - 1) < Given(s, avail, k)
    OBVIOUS
  <2>1. k - 1 \in 0 .. n /\ k \in 0 .. n
    OBVIOUS
  <2> QED BY <2>1, <1>1, <1>2
<1>4. Bad = {}
  <2> SUFFICES ASSUME Bad # {} PROVE FALSE
    OBVIOUS
  <2>1. Bad \subseteq Nat
    OBVIOUS
  <2>2. PICK m \in Bad : \A k \in Bad : m <= k
    BY <2>1, LeastNumber, Zenon
  <2>3. m \in Nat /\ i + 1 + m \in 1 .. n
        /\ ~ (Given(s, avail, i) < Given(s, avail, i + 1 + m))
    OBVIOUS
  <2>4. Given(s, avail, i + m) < Given(s, avail, i + 1 + m)
    <3>1. (i + 1 + m) - 1 = i + m
      BY <2>3
    <3> QED BY <3>1, <2>3, <1>3
  <2>5. m # 0
    BY <2>3, <2>4
  <2>6. m - 1 \in Nat /\ i + 1 + (m - 1) = i + m /\ i + m \in 0 .. n
    BY <2>3, <2>5
  <2>7. m - 1 \notin Bad
    <3> HIDE DEF Bad
    <3> QED BY <2>2, <2>3, <2>6
  <2>8. Given(s, avail, i) < Given(s, avail, i + m)
    BY <2>6, <2>7
  <2>9. /\ Given(s, avail, i) \in Nat /\ Given(s, avail, i + m) \in Nat
        /\ Given(s, avail, i + 1 + m) \in Nat
    BY <1>1, <2>3, <2>6
  <2> QED BY <2>3, <2>4, <2>8, <2>9
<1>5. j - i - 1 \in Nat /\ i + 1 + (j - i - 1) = j
  OBVIOUS
<1>6. j - i - 1 \notin Bad
  BY <1>4
<1> QED BY <1>5, <1>6

(* The loop breaks once: the candidates it comes to are the first ones. *)
LEMMA VisitedFirst ==
  ASSUME NEW n \in Nat, NEW s, NEW avail, Offers(s, avail, n), NEW q \in Nat
  PROVE  /\ Cardinality(Visited(s, avail, q)) \in 0 .. n
         /\ Visited(s, avail, q) = 1 .. Cardinality(Visited(s, avail, q))
<1> DEFINE V == Visited(s, avail, q)
<1>1. V = { i \in 1 .. n : Given(s, avail, i - 1) < q }
  <2>1. \A i \in 1 .. n : Given(s, avail, i - 1) \in Nat
    BY GivenStep
  <2>2. \A i \in 1 .. n : q - Given(s, avail, i - 1) > 0 <=> Given(s, avail, i - 1) < q
    BY <2>1
  <2>3. DOMAIN s = 1 .. n
    BY DEF Offers
  <2> QED BY <2>2, <2>3 DEF Visited, LeftAt
<1> HIDE DEF V
<1>2. CASE V = {}
  <2>1. 1 .. 0 = {} /\ Cardinality(V) = 0
    BY <1>2, FS_EmptySet
  <2> QED BY <1>2, <2>1 DEF V
<1>3. CASE V # {}
  <2> DEFINE Rest == { n - i : i \in V }
  <2>1. Rest \subseteq Nat /\ Rest # {}
    BY <1>1, <1>3
  <2>2. PICK r \in Rest : \A x \in Rest : r <= x
    BY <2>1, LeastNumber, Zenon
  <2>3. PICK m \in V : r = n - m
    BY <2>2
  <2>4. m \in 1 .. n
    BY <2>3, <1>1
  <2>5. ASSUME NEW i \in V PROVE i \in 1 .. m
    <3>1. i \in 1 .. n /\ n - m <= n - i
      BY <1>1, <2>2, <2>3
    <3> QED BY <3>1, <2>4
  <2>6. ASSUME NEW i \in 1 .. m PROVE i \in V
    <3>1. i \in 1 .. n /\ i - 1 \in 0 .. n /\ m - 1 \in 0 .. n
      BY <2>4
    <3>2. Given(s, avail, m - 1) < q /\ Given(s, avail, m - 1) \in Nat
          /\ Given(s, avail, i - 1) \in Nat
      BY <1>1, <2>3, <3>1, GivenStep
    <3>3. CASE i = m
      BY <2>3, <3>3
    <3>4. CASE i # m
      <4>1. i - 1 < m - 1
        BY <2>4, <3>4
      <4>2. Given(s, avail, i - 1) < Given(s, avail, m - 1)
        BY <3>1, <4>1, GivenGrows
      <4> QED BY <1>1, <3>1, <3>2, <4>2
    <3> QED BY <3>3, <3>4
  <2>7. V = 1 .. m
    BY <2>5, <2>6
  <2>8. Cardinality(1 .. m) = m
    <3>1. Cardinality(1 .. m) = IF 1 > m THEN 0 ELSE m - 1 + 1
      BY <2>4, FS_Interval
    <3> QED BY <3>1, <2>4
  <2> QED BY <2>4, <2>7, <2>8 DEF V
<1> QED BY <1>2, <1>3

(* The first k of n candidates give what they have, the last of them what   *)
(* is still needed.                                                         *)
TakesInTurn(plan, s, avail, q, n, k) ==
  /\ k \in 0 .. n /\ DOMAIN plan = 1 .. k
  /\ \A i \in 1 .. k :
       /\ plan[i] = Leg(s[i], plan[i].quantity) /\ plan[i].node = s[i]
       /\ plan[i].quantity \in 1 .. avail[s[i]]
       /\ i < k => plan[i].quantity = avail[s[i]]
  /\ Planned(plan) = IF q < Given(s, avail, n) THEN q ELSE Given(s, avail, n)
  /\ k > 0 => Given(s, avail, k - 1) < Planned(plan)

(* planLine: the candidates before the last leg give all they have and the  *)
(* last one no more than is needed; together the legs cover the line, or    *)
(* all there is.                                                            *)
THEOREM GreedyLegs ==
  ASSUME NEW n \in Nat, NEW s, NEW avail, Offers(s, avail, n), NEW q \in Nat \ {0},
         NEW plan, plan = Greedy(s, avail, q),
         NEW k, k = Cardinality(Visited(s, avail, q))
  PROVE  TakesInTurn(plan, s, avail, q, n, k)
<1> USE DEF TakesInTurn
<1> DEFINE g(i) == Given(s, avail, i)
<1>1. k \in 0 .. n /\ DOMAIN plan = 1 .. k
      /\ \A i \in 1 .. k : plan[i] = Leg(s[i], Take(s, avail, q, i))
  BY VisitedFirst DEF Greedy
<1>2. \A i \in 1 .. n : i \in 1 .. k <=> g(i - 1) < q
  <2>1. \A i \in 1 .. n : g(i - 1) \in Nat
    BY GivenStep
  <2>2. Visited(s, avail, q) = 1 .. k /\ DOMAIN s = 1 .. n
    BY VisitedFirst DEF Offers
  <2>3. \A i \in 1 .. n : i \in 1 .. k <=> q - g(i - 1) > 0
    BY <2>2 DEF Visited, LeftAt
  <2> QED BY <2>1, <2>3
<1>3. /\ g(0) = 0 /\ \A i \in 0 .. n : g(i) \in Nat
      /\ \A i \in 1 .. n : g(i) = g(i - 1) + avail[s[i]]
      /\ \A i \in 1 .. n : avail[s[i]] \in Nat \ {0}
  BY GivenStep DEF Offers
<1> HIDE DEF g
<1>4. \A i \in 1 .. k :
        /\ plan[i].quantity = IF q - g(i - 1) < avail[s[i]] THEN q - g(i - 1) ELSE avail[s[i]]
        /\ plan[i].node = s[i] /\ plan[i] = Leg(s[i], plan[i].quantity)
  BY <1>1 DEF Leg, Take, LeftAt, g
<1>5. ASSUME NEW i \in 1 .. k
      PROVE  /\ plan[i].quantity \in 1 .. avail[s[i]]
             /\ i < k => plan[i].quantity = avail[s[i]]
  <2>1. i \in 1 .. n /\ i - 1 \in 0 .. n /\ i \in 0 .. n
    BY <1>1
  <2>2. g(i - 1) < q /\ g(i - 1) \in Nat /\ g(i) \in Nat /\ g(i) = g(i - 1) + avail[s[i]]
        /\ avail[s[i]] \in Nat \ {0}
    BY <1>2, <1>3, <2>1
  <2>3. i < k => g(i) < q
    <3>1. i < k => i + 1 \in 1 .. k /\ i + 1 \in 1 .. n /\ (i + 1) - 1 = i
      BY <1>1
    <3> QED BY <3>1, <1>2
  <2>4. plan[i].quantity = IF q - g(i - 1) < avail[s[i]] THEN q - g(i - 1) ELSE avail[s[i]]
    BY <1>4
  <2> QED BY <2>2, <2>3, <2>4
<1>6. CASE k = 0
  <2>1. n = 0
    <3>1. n # 0 => 1 \in 1 .. n /\ 1 - 1 = 0
      OBVIOUS
    <3>2. 1 \notin 1 .. k
      BY <1>6
    <3> QED BY <3>1, <3>2, <1>2, <1>3
  <2>2. Planned(plan) = 0
    <3>1. DOMAIN plan = {}
      BY <1>1, <1>6
    <3> QED BY <3>1, SumEmpty DEF Planned
  <2>3. Planned(plan) = IF q < g(n) THEN q ELSE g(n)
    BY <1>3, <2>1, <2>2
  <2> QED BY <1>1, <1>4, <1>5, <1>6, <2>3 DEF g
<1>7. CASE k # 0
  <2>0. k \in 1 .. n /\ k \in 1 .. k /\ k - 1 \in 0 .. n /\ k - 1 \in Nat /\ k \in 0 .. n
        /\ k \in Int
    BY <1>1, <1>7
  <2> DEFINE P == [i \in DOMAIN plan |-> plan[i].quantity]
             A == [i \in 1 .. k - 1 |-> avail[s[i]]]
  <2>1. PICK S : S = 1 .. k - 1
    OBVIOUS
  <2>2. IsFiniteSet(S) /\ k \notin S /\ S \cup {k} = DOMAIN plan
    <3>1. IsFiniteSet(1 .. k - 1)
      BY <2>0, FS_Interval
    <3> QED BY <2>0, <2>1, <1>1, <3>1
  <2>3. \A i \in S : i \in 1 .. k /\ i < k /\ i \in 1 .. n
    BY <1>1, <2>0, <2>1
  <2>4. /\ \A i \in S : A[i] \in Int
        /\ \A i \in S : P[i] = A[i]
    <3>1. ASSUME NEW i \in S PROVE A[i] \in Int /\ P[i] = A[i]
      <4>1. i \in 1 .. k - 1 /\ i \in 1 .. k /\ i < k /\ i \in 1 .. n
        BY <2>1, <2>3, <3>1
      <4>2. A[i] = avail[s[i]]
        BY <4>1
      <4>3. P[i] = plan[i].quantity
        BY <4>1, <1>1
      <4>4. plan[i].quantity = avail[s[i]] /\ avail[s[i]] \in Int
        BY <4>1, <1>3, <1>5
      <4> HIDE DEF P, A
      <4> QED BY <4>2, <4>3, <4>4
    <3> HIDE DEF P, A
    <3> QED BY <3>1
  <2>5. P[k] = plan[k].quantity /\ plan[k].quantity \in Int /\ P[k] \in Int
    BY <2>0, <1>1, <1>3, <1>5
  <2>6. Sum(P, S \cup {k}) = Sum(A, S) + P[k]
    <3> HIDE DEF P, A
    <3>1. IsFiniteSet(S) /\ k \notin S /\ P[k] \in Int
      BY <2>2, <2>5
    <3>2. ASSUME NEW y, y \notin S, P[y] \in Int
          PROVE  Sum(P, S \cup {y}) = Sum(A, S) + P[y]
      BY <3>1, <3>2, <2>4, SumGrows
    <3> QED BY <3>1, <3>2
  <2>7. Planned(plan) = g(k - 1) + plan[k].quantity
    BY <2>1, <2>2, <2>5, <2>6 DEF Planned, Given, g
  <2>8. /\ g(k - 1) < q /\ g(k - 1) \in Nat /\ g(k) \in Nat
        /\ g(k) = g(k - 1) + avail[s[k]] /\ avail[s[k]] \in Nat \ {0}
    BY <1>2, <1>3, <2>0
  <2>9. plan[k].quantity = IF q - g(k - 1) < avail[s[k]] THEN q - g(k - 1) ELSE avail[s[k]]
    BY <1>4, <2>0
  <2>10. Planned(plan) = IF q < g(k) THEN q ELSE g(k)
    BY <2>7, <2>8, <2>9
  <2>11. g(k - 1) < Planned(plan)
    BY <2>8, <2>10
  <2>12. k < n => q <= g(k) /\ g(k) < g(n) /\ g(n) \in Nat
    <3> SUFFICES ASSUME k < n PROVE q <= g(k) /\ g(k) < g(n) /\ g(n) \in Nat
      OBVIOUS
    <3>1. k + 1 \in 1 .. n /\ k + 1 \notin 1 .. k /\ (k + 1) - 1 = k /\ n \in 0 .. n
      BY <2>0
    <3>2. ~ (g(k) < q)
      BY <3>1, <1>2
    <3>3. g(k) < g(n)
      BY <2>0, <3>1, GivenGrows DEF g
    <3> QED BY <3>1, <3>2, <3>3, <2>8, <1>3
  <2>13. Planned(plan) = IF q < g(n) THEN q ELSE g(n)
    <3>1. CASE k < n
      BY <3>1, <2>8, <2>10, <2>12
    <3>2. CASE ~ (k < n)
      <4>1. k = n
        BY <3>2, <2>0
      <4> QED BY <4>1, <2>10
    <3> QED BY <3>1, <3>2
  <2> QED BY <1>1, <1>4, <1>5, <2>11, <2>13 DEF g
<1> QED BY <1>6, <1>7

(* A list of the members of a finite set, each once, has what they have     *)
(* together.                                                                *)
LEMMA GivenAll ==
  ASSUME NEW n \in Nat, NEW s, NEW avail, NEW C, Lists(s, C, n),
         Stocked(avail, C)
  PROVE  /\ Offers(s, avail, n)
         /\ Firsts(s, n) = C
         /\ \A m \in 0 .. n :
              /\ Given(s, avail, m) = Sum(avail, Firsts(s, m))
              /\ Cardinality(Firsts(s, m)) = m
              /\ Firsts(s, m) \subseteq C
         /\ Given(s, avail, n) = Sum(avail, C)
<1>0. /\ IsFiniteSet(C) /\ Cardinality(C) = n /\ DOMAIN s = 1 .. n
      /\ \A i \in 1 .. n : s[i] \in C
      /\ \A i, j \in 1 .. n : s[i] = s[j] => i = j
      /\ \A c \in C : avail[c] \in Nat \ {0}
  BY DEF Lists, Stocked
<1>1. Offers(s, avail, n)
  BY <1>0 DEF Offers
<1>2. ASSUME NEW m \in 0 .. n
      PROVE  /\ Given(s, avail, m) = Sum(avail, Firsts(s, m))
             /\ Cardinality(Firsts(s, m)) = m
             /\ Firsts(s, m) \subseteq C
             /\ IsFiniteSet(Firsts(s, m))
  <2> DEFINE T == { s[i] : i \in 1 .. m }
             G == [i \in 1 .. m |-> avail[s[i]]]
             f == [i \in 1 .. m |-> s[i]]
  <2>1. m \in Nat /\ \A i \in 1 .. m : i \in 1 .. n
    OBVIOUS
  <2>2. PICK D : D = 1 .. m
    OBVIOUS
  <2>3. IsFiniteSet(D) /\ Cardinality(D) = m
    <3>1. Cardinality(1 .. m) = IF 1 > m THEN 0 ELSE m - 1 + 1
      BY FS_Interval
    <3>2. Cardinality(1 .. m) = m
      BY <3>1
    <3> QED BY <2>2, <3>2, FS_Interval
  <2>4. T \subseteq C
    BY <1>0, <2>1
  <2>5. IsFiniteSet(T)
    BY <1>0, <2>4, FS_Subset
  <2>6. f \in Bijection(D, T)
    <3>1. f \in [D -> T] /\ \A t \in T : \E x \in D : f[x] = t
      BY <2>2
    <3>2. \A x, y \in D : f[x] = f[y] => x = y
      BY <1>0, <2>1, <2>2
    <3> HIDE DEF T, f
    <3> QED BY <3>1, <3>2 DEF Bijection, Injection, Surjection, IsInjective
  <2>7. Cardinality(T) = m
    <3>1. Cardinality(D) = Cardinality(T)
      <4> HIDE DEF T, f
      <4>1. ExistsBijection(D, T)
        BY <2>6 DEF ExistsBijection
      <4> QED BY <2>3, <4>1, FS_Bijection
    <3> QED BY <3>1, <2>3
  <2>8. /\ \A x, y \in D : f[x] = f[y] => x = y
        /\ \A x \in D : G[x] = avail[f[x]] /\ avail[f[x]] \in Int
        /\ T = { f[x] : x \in D }
    BY <1>0, <2>1, <2>2
  <2>9. Sum(G, D) = Sum(avail, T)
    <3> HIDE DEF G, f, T
    <3>1. Renames(f, D, T) /\ ReadsAs(G, avail, f, D)
      BY <2>8 DEF Renames, ReadsAs
    <3> QED BY <2>3, <3>1, SumRename
  <2> QED BY <2>2, <2>4, <2>5, <2>7, <2>9 DEF Given, Firsts
<1>3. Firsts(s, n) = C
  <2>1. n \in 0 .. n
    OBVIOUS
  <2>2. PICK T : T = Firsts(s, n)
    OBVIOUS
  <2>3. T \subseteq C /\ Cardinality(T) = n
    BY <1>2, <2>1, <2>2
  <2>4. T = C
    BY <1>0, <2>3, FS_Subset
  <2> QED BY <2>2, <2>4
<1>5. Given(s, avail, n) = Sum(avail, C)
  <2>1. n \in 0 .. n
    OBVIOUS
  <2> QED BY <1>2, <1>3, <2>1
<1> QED BY <1>1, <1>2, <1>3, <1>5

(* The splitting of one set by another. *)
LEMMA SumSplit ==
  ASSUME NEW S, IsFiniteSet(S), NEW T, NEW F, \A x \in S : F[x] \in Int
  PROVE  /\ Sum(F, S) = Sum(F, S \cap T) + Sum(F, S \ T)
         /\ Sum(F, S \cap T) \in Int /\ Sum(F, S \ T) \in Int
         /\ IsFiniteSet(S \cap T) /\ IsFiniteSet(S \ T)
<1>1. PICK A, B : A = S \cap T /\ B = S \ T
  OBVIOUS
<1>2. IsFiniteSet(A) /\ IsFiniteSet(B)
  BY <1>1, FS_Subset
<1>3. A \cap B = {} /\ A \cup B = S /\ \A x \in A \cup B : F[x] \in Int
  BY <1>1
<1>4. Sum(F, A \cup B) = Sum(F, A) + Sum(F, B)
  BY <1>2, <1>3, SumUnion
<1>5. Sum(F, A) \in Int /\ Sum(F, B) \in Int
  BY <1>2, <1>3, SumType
<1> QED BY <1>1, <1>2, <1>3, <1>4, <1>5

(* Largest first: no m candidates have more than the first m of the list,   *)
(* so the list covers what it covers with the fewest of them.               *)
THEOREM LargestFirst ==
  ASSUME NEW n \in Nat, NEW s, NEW avail, NEW C, Lists(s, C, n),
         Stocked(avail, C),
         \A i, j \in 1 .. n : i < j => avail[s[j]] <= avail[s[i]],
         NEW m \in 0 .. n, NEW S \in SUBSET C, Cardinality(S) <= m
  PROVE  Sum(avail, S) <= Given(s, avail, m)
<1>0. /\ Offers(s, avail, n)
      /\ \A c \in C : \E i \in 1 .. n : s[i] = c
      /\ Given(s, avail, m) = Sum(avail, Firsts(s, m))
      /\ Cardinality(Firsts(s, m)) = m
      /\ Firsts(s, m) \subseteq C
  <2>2. Offers(s, avail, n) /\ Firsts(s, n) = C
    BY GivenAll
  <2>3. Given(s, avail, m) = Sum(avail, Firsts(s, m)) /\ Cardinality(Firsts(s, m)) = m
        /\ Firsts(s, m) \subseteq C
    BY GivenAll
  <2>4. \A c \in C : \E i \in 1 .. n : s[i] = c
    BY <2>2 DEF Firsts
  <2> QED BY <2>2, <2>3, <2>4
<1>1. PICK T : T = Firsts(s, m)
  OBVIOUS
<1>2. /\ T \subseteq C /\ Cardinality(T) = m /\ IsFiniteSet(T) /\ IsFiniteSet(S)
      /\ Cardinality(S) \in Nat
  BY <1>0, <1>1, FS_Subset, FS_CardinalityType DEF Lists
<1>3. CASE m = 0
  <2>1. Cardinality(S) = 0
    BY <1>2, <1>3
  <2>2. S = {} /\ T = {}
    BY <1>2, <1>3, <2>1, FS_EmptySet
  <2>3. Sum(avail, S) = 0 /\ Sum(avail, T) = 0
    BY <2>2, SumEmpty
  <2> QED BY <1>0, <1>1, <2>3
<1>4. CASE m # 0
  <2>0. PICK v : v = avail[s[m]]
    OBVIOUS
  <2>1. v \in Nat /\ v \in Int /\ m \in 1 .. n
    BY <1>4, <2>0 DEF Lists, Stocked
  <2>a. T = { s[i] : i \in 1 .. m } /\ \A i \in 1 .. n : s[i] \in C
    BY <1>1 DEF Firsts, Lists
  <2>b. \A c \in C : avail[c] \in Nat \ {0}
    BY DEF Stocked
  <2>2. ASSUME NEW x \in S \ T PROVE avail[x] \in Int /\ avail[x] <= v
    <3>1. PICK j \in 1 .. n : s[j] = x
      BY <1>0
    <3>2. j \notin 1 .. m
      BY <2>a, <2>b, <3>1
    <3>3. m < j
      BY <2>1, <3>2
    <3> QED BY <2>0, <2>1, <2>a, <2>b, <3>1, <3>3
  <2>3. ASSUME NEW x \in T \ S PROVE avail[x] \in Int /\ v <= avail[x]
    <3>1. PICK i \in 1 .. m : s[i] = x
      BY <2>a
    <3>2. i \in 1 .. n /\ (i < m \/ i = m)
      BY <2>1
    <3>3. avail[s[i]] \in Nat
      BY <2>a, <2>b, <3>2
    <3> QED BY <2>0, <2>1, <3>1, <3>2, <3>3
  <2>4. PICK A, B, X : A = S \ T /\ B = T \ S /\ X = S \cap T
    OBVIOUS
  <2>5. \A x \in C : avail[x] \in Int
    BY <2>b
  <2>6. /\ Sum(avail, S) = Sum(avail, X) + Sum(avail, A)
        /\ Sum(avail, X) \in Int /\ Sum(avail, A) \in Int
        /\ IsFiniteSet(X) /\ IsFiniteSet(A)
    BY <1>2, <2>4, <2>5, SumSplit
  <2>7. /\ Sum(avail, T) = Sum(avail, X) + Sum(avail, B)
        /\ Sum(avail, B) \in Int /\ IsFiniteSet(B)
    <3>1. T \cap S = X
      BY <2>4
    <3>2. \A x \in T : avail[x] \in Int
      BY <1>2, <2>5
    <3>3. /\ Sum(avail, T) = Sum(avail, T \cap S) + Sum(avail, T \ S)
          /\ Sum(avail, T \ S) \in Int /\ IsFiniteSet(T \ S)
      BY <1>2, <3>2, SumSplit
    <3> QED BY <2>4, <3>1, <3>3
  <2>8. Sum(avail, A) <= v * Cardinality(A)
    BY <2>1, <2>2, <2>4, <2>6, SumAtMost
  <2>9. v * Cardinality(B) <= Sum(avail, B)
    BY <2>1, <2>3, <2>4, <2>7, SumAtLeast
  <2>10. Cardinality(A) <= Cardinality(B) /\ Cardinality(A) \in Nat /\ Cardinality(B) \in Nat
    <3>1. Cardinality(A) = Cardinality(S) - Cardinality(X)
      BY <1>2, <2>4, FS_Difference
    <3>2. T \cap S = X
      BY <2>4
    <3>3. Cardinality(B) = Cardinality(T) - Cardinality(X)
      <4>1. Cardinality(T \ S) = Cardinality(T) - Cardinality(T \cap S)
        BY <1>2, FS_Difference
      <4> QED BY <2>4, <3>2, <4>1
    <3>4. Cardinality(A) \in Nat /\ Cardinality(B) \in Nat /\ Cardinality(X) \in Nat
      BY <2>6, <2>7, FS_CardinalityType
    <3> QED BY <1>2, <3>1, <3>3, <3>4
  <2>11. v * Cardinality(A) <= v * Cardinality(B)
         /\ v * Cardinality(A) \in Int /\ v * Cardinality(B) \in Int
    <3>1. PICK a, b : a = Cardinality(A) /\ b = Cardinality(B)
      OBVIOUS
    <3>2. a \in Nat /\ b - a \in Nat /\ b = a + (b - a)
      BY <2>10, <3>1
    <3>3. v * b = v * a + v * (b - a) /\ v * (b - a) \in Nat /\ v * a \in Int
      BY <2>1, <3>2
    <3> QED BY <3>1, <3>3
  <2>12. Sum(avail, S) <= Sum(avail, T)
    BY <2>6, <2>7, <2>8, <2>9, <2>11
  <2> QED BY <1>0, <1>1, <2>12
<1> QED BY <1>3, <1>4
=============================================================================
