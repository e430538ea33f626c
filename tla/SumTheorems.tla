------------------------------ MODULE SumTheorems ------------------------------
(***************************************************************************)
(* Sums over finite sets, as the models take them: the total of a day in   *)
(* the spend ledger, the subtotal of a bill, the shares of a dish, what    *)
(* all people owe together; and the product that is a common multiple of   *)
(* all share counts.  SumFunctionOnSet (Functions) folds with CHOOSE, so   *)
(* the first part proves that its recursion is well founded, and the       *)
(* second that the order of the elements does not matter.                  *)
(*                                                                         *)
(* Induction over subsets is the choice of a smallest counterexample       *)
(* (SmallestSubset), because a library theorem with an operator parameter  *)
(* cannot be instantiated.                                                 *)
(***************************************************************************)
EXTENDS FiniteSetsExt, Functions, FiniteSetTheorems, TLAPS

-----------------------------------------------------------------------------
(* Induction.                                                                *)

(* A non-empty family of subsets of a finite set has a member that leaves    *)
(* the family whichever element it loses.                                    *)
LEMMA SmallestSubset ==
  ASSUME NEW S, IsFiniteSet(S), NEW F, F \subseteq SUBSET S, F # {}
  PROVE  \E U \in F : \A x \in U : U \ {x} \notin F
<1>1. IsWellFoundedOn(StrictSubsetOrdering(S), FiniteSubsetsOf(S))
  BY FS_StrictSubsetOrderingWellFounded
<1>2. F \subseteq FiniteSubsetsOf(S)
  BY FS_FiniteSubsetsOfFinite
<1>3. PICK U \in F : \A V \in F : <<V, U>> \notin StrictSubsetOrdering(S)
  BY <1>1, <1>2, WFMin
<1>4. ASSUME NEW x \in U, U \ {x} \in F PROVE FALSE
  <2>1. U \ {x} \subseteq U /\ U \ {x} # U
    BY <1>4
  <2>2. <<U \ {x}, U>> \in (SUBSET S) \X (SUBSET S)
    BY <1>4
  <2> QED BY <1>3, <1>4, <2>1, <2>2 DEF StrictSubsetOrdering
<1> QED BY <1>3, <1>4

(* A non-empty set of natural numbers has a smallest one. *)
LEMMA SmallestNumber ==
  ASSUME NEW F, F \subseteq Nat, F # {}
  PROVE  \E n \in F : \A m \in F : n <= m
<1>1. PICK n \in F : \A m \in F : <<m, n>> \notin OpToRel(<, Nat)
  BY NatLessThanWellFounded, WFMin
<1>2. ASSUME NEW m \in F PROVE n <= m
  <2>1. <<m, n>> \in Nat \X Nat
    BY <1>2
  <2>2. ~(m < n)
    BY <1>1, <2>1 DEF OpToRel
  <2> QED BY <2>2
<1> QED BY <1>2

-----------------------------------------------------------------------------
(* The recursion.                                                            *)

First(T) == CHOOSE x \in T : TRUE

(* The folds that the models take: sums and products. *)
Base(kind) == IF kind = "sum" THEN 0 ELSE 1
Combine(kind, a, b) == IF kind = "sum" THEN a + b ELSE a * b

(* g holds the fold of f over every member of F. *)
IsFold(g, kind, f, F) ==
  g = [T \in F |-> IF T = {} THEN Base(kind)
                   ELSE Combine(kind, f[First(T)], g[T \ {First(T)}])]

Small(S, n) == {T \in SUBSET S : Cardinality(T) <= n}

(* Folds of sets of n + 1 elements at most, from folds of smaller sets. *)
LEMMA FoldsGrow ==
  ASSUME NEW kind, NEW f, NEW S, IsFiniteSet(S), NEW n \in Nat,
         \E g : IsFold(g, kind, f, Small(S, n))
  PROVE  \E g : IsFold(g, kind, f, Small(S, n + 1))
<1>1. PICK g : IsFold(g, kind, f, Small(S, n))
  OBVIOUS
<1> DEFINE h == [T \in Small(S, n + 1) |->
                   IF T = {} THEN Base(kind) ELSE Combine(kind, f[First(T)], g[T \ {First(T)}])]
<1>2. ASSUME NEW T \in Small(S, n + 1), T # {} PROVE h[T \ {First(T)}] = g[T \ {First(T)}]
  <2>1. First(T) \in T
    BY <1>2 DEF First
  <2>2. IsFiniteSet(T) /\ Cardinality(T) \in Nat /\ Cardinality(T) <= n + 1
    BY FS_Subset, FS_CardinalityType DEF Small
  <2>3. Cardinality(T \ {First(T)}) = Cardinality(T) - 1
    BY <2>1, <2>2, FS_RemoveElement
  <2>4. T \ {First(T)} \in Small(S, n) /\ T \ {First(T)} \in Small(S, n + 1)
    BY <2>2, <2>3 DEF Small
  <2> QED BY <1>1, <2>4 DEF IsFold
<1>3. h = [T \in Small(S, n + 1) |->
             IF T = {} THEN Base(kind) ELSE Combine(kind, f[First(T)], h[T \ {First(T)}])]
  BY <1>2
<1> QED BY <1>3 DEF IsFold

LEMMA FoldsExist ==
  ASSUME NEW kind, NEW f, NEW S, IsFiniteSet(S)
  PROVE  \E g : IsFold(g, kind, f, SUBSET S)
<1> DEFINE Bad == {n \in Nat : ~ \E g : IsFold(g, kind, f, Small(S, n))}
<1>1. Bad = {}
  <2> SUFFICES ASSUME Bad # {} PROVE FALSE
    OBVIOUS
  <2>1. PICK n \in Bad : \A m \in Bad : n <= m
    BY SmallestNumber
  <2>2. CASE n = 0
    <3>1. Small(S, 0) = {{}}
      <4>1. \A T \in SUBSET S : IsFiniteSet(T) /\ Cardinality(T) \in Nat
        BY FS_Subset, FS_CardinalityType
      <4> QED BY <4>1, FS_EmptySet DEF Small
    <3>2. IsFold([T \in {{}} |-> Base(kind)], kind, f, {{}})
      BY DEF IsFold
    <3> QED BY <2>2, <3>1, <3>2
  <2>3. CASE n # 0
    <3>1. n - 1 \in Nat /\ (n - 1) + 1 = n
      BY <2>3
    <3>2. n - 1 \notin Bad
      BY <2>1, <3>1
    <3>3. \E g : IsFold(g, kind, f, Small(S, n - 1))
      BY <3>1, <3>2
    <3>4. \E g : IsFold(g, kind, f, Small(S, (n - 1) + 1))
      BY <3>1, <3>3, FoldsGrow
    <3> QED BY <3>1, <3>4
  <2> QED BY <2>2, <2>3
<1>2. Cardinality(S) \in Nat
  BY FS_CardinalityType
<1>3. Small(S, Cardinality(S)) = SUBSET S
  BY FS_Subset DEF Small
<1>4. \E g : IsFold(g, kind, f, Small(S, Cardinality(S)))
  BY <1>1, <1>2
<1> QED BY <1>3, <1>4

(* Two tables agree on what both hold. *)
LEMMA FoldsAgree ==
  ASSUME NEW kind, NEW f, NEW g, NEW h, NEW S, NEW U, IsFiniteSet(S), U \subseteq S,
         IsFold(g, kind, f, SUBSET S), IsFold(h, kind, f, SUBSET U)
  PROVE  g[U] = h[U]
<1> DEFINE Bad == {T \in SUBSET U : g[T] # h[T]}
<1>1. Bad = {}
  <2> SUFFICES ASSUME Bad # {} PROVE FALSE
    OBVIOUS
  <2>1. IsFiniteSet(U)
    BY FS_Subset
  <2>2. PICK T \in Bad : \A x \in T : T \ {x} \notin Bad
    BY <2>1, SmallestSubset
  <2>3. T \in SUBSET U /\ T \in SUBSET S
    OBVIOUS
  <2>4. CASE T = {}
    BY <2>3, <2>4 DEF IsFold
  <2>5. CASE T # {}
    <3>1. First(T) \in T
      BY <2>5 DEF First
    <3>2. g[T \ {First(T)}] = h[T \ {First(T)}]
      BY <2>2, <2>3, <3>1
    <3> QED BY <2>3, <2>5, <3>2 DEF IsFold
  <2> QED BY <2>4, <2>5
<1> QED BY <1>1

ProductOnSet(f, S) == FoldFunctionOnSet(LAMBDA n, m : n * m, 1, f, S)

LEMMA FoldIsChosen ==
  ASSUME NEW f, NEW S
  PROVE  /\ SumFunctionOnSet(f, S) = (CHOOSE g : IsFold(g, "sum", f, SUBSET S))[S]
         /\ ProductOnSet(f, S) = (CHOOSE g : IsFold(g, "product", f, SUBSET S))[S]
<1>1. SumFunctionOnSet(f, S) = (CHOOSE g : IsFold(g, "sum", f, SUBSET S))[S]
  BY DEF SumFunctionOnSet, FoldFunctionOnSet, MapThenFoldSet, IsFold, First, Base, Combine
<1>2. ProductOnSet(f, S) = (CHOOSE g : IsFold(g, "product", f, SUBSET S))[S]
  BY DEF ProductOnSet, FoldFunctionOnSet, MapThenFoldSet, IsFold, First, Base, Combine
<1> QED BY <1>1, <1>2

(* The fold of a finite set is looked up in such a table. *)
LEMMA FoldTable ==
  ASSUME NEW f, NEW S, IsFiniteSet(S)
  PROVE  /\ \E g : IsFold(g, "sum", f, SUBSET S) /\ SumFunctionOnSet(f, S) = g[S]
         /\ \E g : IsFold(g, "product", f, SUBSET S) /\ ProductOnSet(f, S) = g[S]
<1>1. \A kind : IsFold(CHOOSE g : IsFold(g, kind, f, SUBSET S), kind, f, SUBSET S)
  BY FoldsExist
<1> QED BY <1>1, FoldIsChosen

LEMMA FoldEmpty ==
  ASSUME NEW f
  PROVE  SumFunctionOnSet(f, {}) = 0 /\ ProductOnSet(f, {}) = 1
<1>1. PICK g : IsFold(g, "sum", f, SUBSET {}) /\ SumFunctionOnSet(f, {}) = g[{}]
  BY FoldTable, FS_EmptySet
<1>2. PICK h : IsFold(h, "product", f, SUBSET {}) /\ ProductOnSet(f, {}) = h[{}]
  BY FoldTable, FS_EmptySet
<1> QED BY <1>1, <1>2 DEF IsFold, Base

LEMMA SumEmpty ==
  ASSUME NEW f
  PROVE  SumFunctionOnSet(f, {}) = 0
BY FoldEmpty

(* The defining equation of the fold. *)
LEMMA FoldUnfold ==
  ASSUME NEW kind, NEW f, NEW S, IsFiniteSet(S), S # {},
         NEW g, IsFold(g, kind, f, SUBSET S),
         NEW h, IsFold(h, kind, f, SUBSET (S \ {First(S)}))
  PROVE  g[S] = Combine(kind, f[First(S)], h[S \ {First(S)}])
<1>1. PICK R : R = S \ {First(S)} /\ R \subseteq S
  OBVIOUS
<1>2. IsFold(h, kind, f, SUBSET R)
  BY <1>1
<1>3. g[R] = h[R]
  BY <1>1, <1>2, FoldsAgree
<1>4. g[S] = Combine(kind, f[First(S)], g[R])
  BY <1>1 DEF IsFold
<1> QED BY <1>1, <1>3, <1>4

LEMMA SumUnfold ==
  ASSUME NEW f, NEW S, IsFiniteSet(S), S # {}
  PROVE  /\ First(S) \in S
         /\ SumFunctionOnSet(f, S) = f[First(S)] + SumFunctionOnSet(f, S \ {First(S)})
<1>1. First(S) \in S
  BY DEF First
<1>2. IsFiniteSet(S \ {First(S)})
  BY FS_RemoveElement
<1>3. PICK g : IsFold(g, "sum", f, SUBSET S) /\ SumFunctionOnSet(f, S) = g[S]
  BY FoldTable
<1>4. PICK h : /\ IsFold(h, "sum", f, SUBSET (S \ {First(S)}))
               /\ SumFunctionOnSet(f, S \ {First(S)}) = h[S \ {First(S)}]
  BY <1>2, FoldTable
<1>5. g[S] = Combine("sum", f[First(S)], h[S \ {First(S)}])
  BY <1>3, <1>4, FoldUnfold
<1> QED BY <1>1, <1>3, <1>4, <1>5 DEF Combine

LEMMA ProductUnfold ==
  ASSUME NEW f, NEW S, IsFiniteSet(S), S # {}
  PROVE  /\ First(S) \in S
         /\ ProductOnSet(f, S) = f[First(S)] * ProductOnSet(f, S \ {First(S)})
<1>1. First(S) \in S
  BY DEF First
<1>2. IsFiniteSet(S \ {First(S)})
  BY FS_RemoveElement
<1>3. PICK g : IsFold(g, "product", f, SUBSET S) /\ ProductOnSet(f, S) = g[S]
  BY FoldTable
<1>4. PICK h : /\ IsFold(h, "product", f, SUBSET (S \ {First(S)}))
               /\ ProductOnSet(f, S \ {First(S)}) = h[S \ {First(S)}]
  BY <1>2, FoldTable
<1>5. g[S] = Combine("product", f[First(S)], h[S \ {First(S)}])
  BY <1>3, <1>4, FoldUnfold
<1> QED BY <1>1, <1>3, <1>4, <1>5 DEF Combine

-----------------------------------------------------------------------------
(* What the sum of integers is.                                              *)

IntValued(f, S) == \A x \in S : f[x] \in Int

LEMMA SumInt ==
  ASSUME NEW f, NEW S, IsFiniteSet(S), IntValued(f, S)
  PROVE  SumFunctionOnSet(f, S) \in Int
<1> DEFINE Bad == {T \in SUBSET S : SumFunctionOnSet(f, T) \notin Int}
<1>1. Bad = {}
  <2> SUFFICES ASSUME Bad # {} PROVE FALSE
    OBVIOUS
  <2>1. PICK T \in Bad : \A x \in T : T \ {x} \notin Bad
    BY SmallestSubset
  <2>2. T # {}
    BY SumEmpty
  <2>3. IsFiniteSet(T)
    BY FS_Subset
  <2>4. /\ First(T) \in T
        /\ SumFunctionOnSet(f, T) = f[First(T)] + SumFunctionOnSet(f, T \ {First(T)})
    BY <2>2, <2>3, SumUnfold
  <2>5. SumFunctionOnSet(f, T \ {First(T)}) \in Int /\ f[First(T)] \in Int
    BY <2>1, <2>4 DEF IntValued
  <2> QED BY <2>4, <2>5
<1> QED BY <1>1

(* Any element may be taken out first. *)
LEMMA SumRemove ==
  ASSUME NEW f, NEW S, IsFiniteSet(S), IntValued(f, S), NEW x \in S
  PROVE  SumFunctionOnSet(f, S) = f[x] + SumFunctionOnSet(f, S \ {x})
<1> DEFINE Right(T) == \A y \in T : SumFunctionOnSet(f, T) = f[y] + SumFunctionOnSet(f, T \ {y})
           Bad == {T \in SUBSET S : ~Right(T)}
<1>1. Bad = {}
  <2> SUFFICES ASSUME Bad # {} PROVE FALSE
    OBVIOUS
  <2>1. PICK T \in Bad : \A y \in T : T \ {y} \notin Bad
    BY SmallestSubset
  <2>2. PICK y \in T : SumFunctionOnSet(f, T) # f[y] + SumFunctionOnSet(f, T \ {y})
    OBVIOUS
  <2> DEFINE z == First(T)
  <2>3. IsFiniteSet(T) /\ IsFiniteSet(T \ {y}) /\ T \subseteq S
    BY FS_Subset
  <2>4. z \in T /\ SumFunctionOnSet(f, T) = f[z] + SumFunctionOnSet(f, T \ {z})
    BY <2>2, <2>3, SumUnfold
  <2>5. z # y
    BY <2>2, <2>4
  <2>6. Right(T \ {z}) /\ Right(T \ {y})
    BY <2>1, <2>2, <2>4
  <2> HIDE DEF z
  <2>7. SumFunctionOnSet(f, T \ {z}) = f[y] + SumFunctionOnSet(f, (T \ {z}) \ {y})
    BY <2>2, <2>5, <2>6
  <2>8. SumFunctionOnSet(f, T \ {y}) = f[z] + SumFunctionOnSet(f, (T \ {y}) \ {z})
    BY <2>4, <2>5, <2>6
  <2>9. (T \ {z}) \ {y} = (T \ {y}) \ {z}
    OBVIOUS
  <2>10. /\ f[y] \in Int /\ f[z] \in Int
         /\ SumFunctionOnSet(f, (T \ {y}) \ {z}) \in Int
    <3>1. IsFiniteSet((T \ {y}) \ {z}) /\ IntValued(f, (T \ {y}) \ {z})
      BY <2>3, FS_Subset DEF IntValued
    <3> QED BY <2>2, <2>3, <2>4, <3>1, SumInt DEF IntValued
  <2>11. PICK rest \in Int : rest = SumFunctionOnSet(f, (T \ {y}) \ {z})
    BY <2>10
  <2>12. /\ SumFunctionOnSet(f, T) = f[z] + (f[y] + rest)
         /\ SumFunctionOnSet(f, T \ {y}) = f[z] + rest
    BY <2>4, <2>7, <2>8, <2>9, <2>11
  <2>13. f[z] + (f[y] + rest) = f[y] + (f[z] + rest)
    BY <2>10
  <2> QED BY <2>2, <2>12, <2>13
<1> QED BY <1>1

LEMMA SumAdd ==
  ASSUME NEW f, NEW S, IsFiniteSet(S), NEW x, x \notin S, IntValued(f, S \cup {x})
  PROVE  SumFunctionOnSet(f, S \cup {x}) = f[x] + SumFunctionOnSet(f, S)
<1>1. IsFiniteSet(S \cup {x})
  BY FS_AddElement
<1>2. (S \cup {x}) \ {x} = S
  OBVIOUS
<1> QED BY <1>1, <1>2, SumRemove

(* Sums of integers are linear in the function. *)
LEMMA SumLinear ==
  ASSUME NEW S, IsFiniteSet(S), NEW a \in Int, NEW b \in Int,
         NEW f, IntValued(f, S), NEW g, IntValued(g, S),
         NEW h, \A x \in S : h[x] = a * f[x] + b * g[x]
  PROVE  SumFunctionOnSet(h, S) = a * SumFunctionOnSet(f, S) + b * SumFunctionOnSet(g, S)
<1> DEFINE Right(T) == SumFunctionOnSet(h, T)
                       = a * SumFunctionOnSet(f, T) + b * SumFunctionOnSet(g, T)
           Bad == {T \in SUBSET S : ~Right(T)}
<1>1. Bad = {}
  <2> SUFFICES ASSUME Bad # {} PROVE FALSE
    OBVIOUS
  <2>1. PICK T \in Bad : \A y \in T : T \ {y} \notin Bad
    BY SmallestSubset
  <2>2. T # {}
    <3>1. 0 = a * 0 + b * 0
      OBVIOUS
    <3> QED BY <3>1, SumEmpty
  <2>3. PICK x \in T : TRUE
    BY <2>2
  <2>4. IsFiniteSet(T) /\ IsFiniteSet(T \ {x}) /\ T \subseteq S
    BY FS_Subset
  <2>5. /\ IntValued(f, T) /\ IntValued(g, T) /\ IntValued(h, T)
        /\ IntValued(f, T \ {x}) /\ IntValued(g, T \ {x})
    BY <2>4 DEF IntValued
  <2>6. /\ SumFunctionOnSet(f, T) = f[x] + SumFunctionOnSet(f, T \ {x})
        /\ SumFunctionOnSet(g, T) = g[x] + SumFunctionOnSet(g, T \ {x})
        /\ SumFunctionOnSet(h, T) = h[x] + SumFunctionOnSet(h, T \ {x})
    BY <2>4, <2>5, SumRemove
  <2>7. PICK F \in Int, G \in Int : F = SumFunctionOnSet(f, T \ {x}) /\ G = SumFunctionOnSet(g, T \ {x})
    BY <2>4, <2>5, SumInt
  <2>8. SumFunctionOnSet(h, T \ {x}) = a * F + b * G
    BY <2>1, <2>7
  <2>9. f[x] \in Int /\ g[x] \in Int /\ h[x] = a * f[x] + b * g[x]
    BY <2>4 DEF IntValued
  <2>10. (a * f[x] + b * g[x]) + (a * F + b * G) = a * (f[x] + F) + b * (g[x] + G)
    BY <2>9
  <2> QED BY <2>6, <2>7, <2>8, <2>9, <2>10
<1> QED BY <1>1

LEMMA SumNonnegative ==
  ASSUME NEW f, NEW S, IsFiniteSet(S), \A x \in S : f[x] \in Nat
  PROVE  SumFunctionOnSet(f, S) \in Nat
<1> DEFINE Bad == {T \in SUBSET S : SumFunctionOnSet(f, T) \notin Nat}
<1>1. Bad = {}
  <2> SUFFICES ASSUME Bad # {} PROVE FALSE
    OBVIOUS
  <2>1. PICK T \in Bad : \A x \in T : T \ {x} \notin Bad
    BY SmallestSubset
  <2>2. T # {}
    BY SumEmpty
  <2>3. IsFiniteSet(T)
    BY FS_Subset
  <2>4. /\ First(T) \in T
        /\ SumFunctionOnSet(f, T) = f[First(T)] + SumFunctionOnSet(f, T \ {First(T)})
    BY <2>2, <2>3, SumUnfold
  <2>5. SumFunctionOnSet(f, T \ {First(T)}) \in Nat /\ f[First(T)] \in Nat
    BY <2>1, <2>4
  <2> QED BY <2>4, <2>5
<1> QED BY <1>1

(* Only the values on the set count. *)
LEMMA SumCongruence ==
  ASSUME NEW S, IsFiniteSet(S), NEW f, IntValued(f, S), NEW g, \A x \in S : g[x] = f[x]
  PROVE  SumFunctionOnSet(g, S) = SumFunctionOnSet(f, S)
<1>1. \A x \in S : g[x] = 1 * f[x] + 0 * f[x]
  BY DEF IntValued
<1>2. SumFunctionOnSet(g, S) = 1 * SumFunctionOnSet(f, S) + 0 * SumFunctionOnSet(f, S)
  BY <1>1, SumLinear
<1> QED BY <1>2, SumInt

(* The sum moves by what one element moves. *)
LEMMA SumUpdate ==
  ASSUME NEW S, IsFiniteSet(S), NEW f, IntValued(f, S), NEW g, IntValued(g, S),
         NEW x \in S, \A y \in S : y # x => g[y] = f[y]
  PROVE  SumFunctionOnSet(g, S) = SumFunctionOnSet(f, S) + g[x] - f[x]
<1>1. /\ SumFunctionOnSet(f, S) = f[x] + SumFunctionOnSet(f, S \ {x})
      /\ SumFunctionOnSet(g, S) = g[x] + SumFunctionOnSet(g, S \ {x})
  BY SumRemove
<1>2. IsFiniteSet(S \ {x}) /\ IntValued(f, S \ {x}) /\ \A y \in S \ {x} : g[y] = f[y]
  BY FS_RemoveElement DEF IntValued
<1>3. SumFunctionOnSet(g, S \ {x}) = SumFunctionOnSet(f, S \ {x})
  BY <1>2, SumCongruence
<1>4. f[x] \in Int /\ g[x] \in Int /\ SumFunctionOnSet(f, S \ {x}) \in Int
  BY <1>2, SumInt DEF IntValued
<1> QED BY <1>1, <1>3, <1>4

LEMMA SumMonotonic ==
  ASSUME NEW S, IsFiniteSet(S), NEW f, IntValued(f, S), NEW g, IntValued(g, S),
         \A x \in S : f[x] <= g[x]
  PROVE  SumFunctionOnSet(f, S) <= SumFunctionOnSet(g, S)
<1> DEFINE h == [x \in S |-> g[x] - f[x]]
<1>1. \A x \in S : h[x] = 1 * g[x] + (-1) * f[x]
  BY DEF IntValued
<1>2. SumFunctionOnSet(h, S) \in Nat
  <2>1. \A x \in S : h[x] \in Nat
    BY DEF IntValued
  <2> HIDE DEF h
  <2> QED BY <2>1, SumNonnegative
<1> HIDE DEF h
<1>3. SumFunctionOnSet(h, S) = 1 * SumFunctionOnSet(g, S) + (-1) * SumFunctionOnSet(f, S)
  BY <1>1, SumLinear
<1> QED BY <1>2, <1>3, SumInt

(* A sum of equal terms is a product. *)
LEMMA SumConstant ==
  ASSUME NEW S, IsFiniteSet(S), NEW c \in Int, NEW f, \A x \in S : f[x] = c
  PROVE  SumFunctionOnSet(f, S) = c * Cardinality(S)
<1> DEFINE Bad == {T \in SUBSET S : SumFunctionOnSet(f, T) # c * Cardinality(T)}
<1>1. Bad = {}
  <2> SUFFICES ASSUME Bad # {} PROVE FALSE
    OBVIOUS
  <2>1. PICK T \in Bad : \A x \in T : T \ {x} \notin Bad
    BY SmallestSubset
  <2>2. T # {}
    BY SumEmpty, FS_EmptySet
  <2>3. IsFiniteSet(T)
    BY FS_Subset
  <2>4. /\ First(T) \in T
        /\ SumFunctionOnSet(f, T) = f[First(T)] + SumFunctionOnSet(f, T \ {First(T)})
    BY <2>2, <2>3, SumUnfold
  <2>5. SumFunctionOnSet(f, T \ {First(T)}) = c * Cardinality(T \ {First(T)}) /\ f[First(T)] = c
    BY <2>1, <2>4
  <2>6. /\ Cardinality(T) \in Nat
        /\ Cardinality(T \ {First(T)}) = Cardinality(T) - 1
    BY <2>3, <2>4, FS_RemoveElement, FS_CardinalityType
  <2>7. PICK n \in Nat : n = Cardinality(T)
    BY <2>6
  <2>8. c + c * (n - 1) = c * n
    OBVIOUS
  <2> QED BY <2>1, <2>4, <2>5, <2>6, <2>7, <2>8
<1> QED BY <1>1

LEMMA SumZero ==
  ASSUME NEW S, IsFiniteSet(S), NEW f, \A x \in S : f[x] = 0
  PROVE  SumFunctionOnSet(f, S) = 0
<1>1. SumFunctionOnSet(f, S) = 0 * Cardinality(S) /\ Cardinality(S) \in Nat
  BY SumConstant, FS_CardinalityType
<1> QED BY <1>1

(* A sum may be taken in two parts. *)
LEMMA SumSplit ==
  ASSUME NEW f, NEW S, IsFiniteSet(S), IntValued(f, S), NEW P, P \subseteq S
  PROVE  SumFunctionOnSet(f, S) = SumFunctionOnSet(f, P) + SumFunctionOnSet(f, S \ P)
<1> DEFINE Right(T) == SumFunctionOnSet(f, T)
                       = SumFunctionOnSet(f, T \cap P) + SumFunctionOnSet(f, T \ P)
           Bad == {T \in SUBSET S : ~Right(T)}
<1>1. Bad = {}
  <2> SUFFICES ASSUME Bad # {} PROVE FALSE
    OBVIOUS
  <2>1. PICK T \in Bad : \A y \in T : T \ {y} \notin Bad
    BY SmallestSubset
  <2>2. T # {}
    <3>1. {} \cap P = {} /\ {} \ P = {}
      OBVIOUS
    <3> QED BY <3>1, SumEmpty
  <2>3. PICK x \in T : TRUE
    BY <2>2
  <2>4. PICK A, B, R : A = T \cap P /\ B = T \ P /\ R = T \ {x}
    OBVIOUS
  <2>5. /\ T \subseteq S /\ A \subseteq S /\ B \subseteq S /\ R \subseteq S
        /\ A \ {x} \subseteq S /\ B \ {x} \subseteq S
    BY <2>4
  <2>6. \A U \in SUBSET S : IsFiniteSet(U) /\ IntValued(f, U) /\ SumFunctionOnSet(f, U) \in Int
    BY FS_Subset, SumInt DEF IntValued
  <2>7. SumFunctionOnSet(f, T) = f[x] + SumFunctionOnSet(f, R) /\ f[x] \in Int
    BY <2>4, <2>5, <2>6, SumRemove DEF IntValued
  <2>8. SumFunctionOnSet(f, R) = SumFunctionOnSet(f, R \cap P) + SumFunctionOnSet(f, R \ P)
    BY <2>1, <2>4, <2>5
  <2>9. SumFunctionOnSet(f, T) # SumFunctionOnSet(f, A) + SumFunctionOnSet(f, B)
    BY <2>4
  <2>10. CASE x \in P
    <3>1. x \in A /\ R \cap P = A \ {x} /\ R \ P = B
      BY <2>4, <2>10
    <3>2. SumFunctionOnSet(f, A) = f[x] + SumFunctionOnSet(f, A \ {x})
      BY <2>5, <2>6, <3>1, SumRemove
    <3>3. SumFunctionOnSet(f, B) \in Int /\ SumFunctionOnSet(f, A \ {x}) \in Int
      BY <2>5, <2>6
    <3>4. SumFunctionOnSet(f, R) = SumFunctionOnSet(f, A \ {x}) + SumFunctionOnSet(f, B)
      BY <2>8, <3>1
    <3> QED BY <2>7, <2>9, <3>2, <3>3, <3>4
  <2>11. CASE x \notin P
    <3>1. x \in B /\ R \cap P = A /\ R \ P = B \ {x}
      BY <2>4, <2>11
    <3>2. SumFunctionOnSet(f, B) = f[x] + SumFunctionOnSet(f, B \ {x})
      BY <2>5, <2>6, <3>1, SumRemove
    <3>3. SumFunctionOnSet(f, A) \in Int /\ SumFunctionOnSet(f, B \ {x}) \in Int
      BY <2>5, <2>6
    <3>4. SumFunctionOnSet(f, R) = SumFunctionOnSet(f, A) + SumFunctionOnSet(f, B \ {x})
      BY <2>8, <3>1
    <3> QED BY <2>7, <2>9, <3>2, <3>3, <3>4
  <2> QED BY <2>10, <2>11
<1>2. S \cap P = P
  OBVIOUS
<1> QED BY <1>1, <1>2

(* Elements that add nothing may be left out. *)
LEMMA SumSupport ==
  ASSUME NEW f, NEW S, IsFiniteSet(S), IntValued(f, S), NEW P, P \subseteq S,
         \A x \in S : x \notin P => f[x] = 0
  PROVE  SumFunctionOnSet(f, S) = SumFunctionOnSet(f, P)
<1>1. SumFunctionOnSet(f, S) = SumFunctionOnSet(f, P) + SumFunctionOnSet(f, S \ P)
  BY SumSplit
<1>2. IsFiniteSet(S \ P) /\ \A x \in S \ P : f[x] = 0
  BY FS_Subset
<1>3. SumFunctionOnSet(f, S \ P) = 0
  BY <1>2, SumZero
<1>4. SumFunctionOnSet(f, P) \in Int
  BY FS_Subset, SumInt DEF IntValued
<1> QED BY <1>1, <1>3, <1>4

LEMMA SumSubset ==
  ASSUME NEW f, NEW S, IsFiniteSet(S), \A x \in S : f[x] \in Nat, NEW P, P \subseteq S
  PROVE  SumFunctionOnSet(f, P) <= SumFunctionOnSet(f, S)
<1>1. SumFunctionOnSet(f, S) = SumFunctionOnSet(f, P) + SumFunctionOnSet(f, S \ P)
  BY SumSplit DEF IntValued
<1>2. IsFiniteSet(P) /\ IsFiniteSet(S \ P)
  BY FS_Subset
<1>3. SumFunctionOnSet(f, P) \in Nat /\ SumFunctionOnSet(f, S \ P) \in Nat
  BY <1>2, SumNonnegative
<1> QED BY <1>1, <1>3

(* Sums over pairs with the same first component. *)
LEMMA SumPairs ==
  ASSUME NEW S, IsFiniteSet(S), NEW a, NEW g, IntValued(g, {a} \X S),
         NEW f, \A x \in S : f[x] = g[<<a, x>>]
  PROVE  SumFunctionOnSet(f, S) = SumFunctionOnSet(g, {a} \X S)
<1> DEFINE Bad == {T \in SUBSET S : SumFunctionOnSet(f, T) # SumFunctionOnSet(g, {a} \X T)}
<1>1. Bad = {}
  <2> SUFFICES ASSUME Bad # {} PROVE FALSE
    OBVIOUS
  <2>1. PICK T \in Bad : \A x \in T : T \ {x} \notin Bad
    BY SmallestSubset
  <2>2. T # {}
    <3>1. {a} \X {} = {}
      OBVIOUS
    <3> QED BY <3>1, SumEmpty
  <2>3. PICK x \in T : TRUE
    BY <2>2
  <2>4. IsFiniteSet(T) /\ T \subseteq S /\ IsFiniteSet({a})
    BY FS_Subset, FS_Singleton
  <2>5. PICK K, y : K = {a} \X T /\ y = <<a, x>>
    OBVIOUS
  <2>6. IsFiniteSet(K) /\ y \in K /\ K \ {y} = {a} \X (T \ {x})
    <3>1. IsFiniteSet(K)
      BY <2>4, <2>5, FS_Product
    <3> QED BY <2>3, <2>5, <3>1
  <2>7. IntValued(g, K) /\ IntValued(f, T)
    BY <2>4, <2>5 DEF IntValued
  <2>8. /\ SumFunctionOnSet(f, T) = f[x] + SumFunctionOnSet(f, T \ {x})
        /\ SumFunctionOnSet(g, K) = g[y] + SumFunctionOnSet(g, K \ {y})
    BY <2>3, <2>4, <2>6, <2>7, SumRemove
  <2>9. f[x] = g[y] /\ SumFunctionOnSet(f, T \ {x}) = SumFunctionOnSet(g, K \ {y})
    BY <2>1, <2>3, <2>4, <2>5, <2>6
  <2> QED BY <2>1, <2>5, <2>8, <2>9
<1> QED BY <1>1

(* The sums of the rows and of the columns of a matrix. *)
RowSums(m, A, B) == [a \in A |-> SumFunctionOnSet([b \in B |-> m[<<a, b>>]], B)]
ColumnSums(m, A, B) == [b \in B |-> SumFunctionOnSet([a \in A |-> m[<<a, b>>]], A)]

(* The sum of a matrix by rows is the sum by columns. *)
LEMMA SumExchange ==
  ASSUME NEW A, IsFiniteSet(A), NEW B, IsFiniteSet(B), NEW m, m \in [A \X B -> Int]
  PROVE  /\ IntValued(RowSums(m, A, B), A) /\ IntValued(ColumnSums(m, A, B), B)
         /\ SumFunctionOnSet(RowSums(m, A, B), A) = SumFunctionOnSet(ColumnSums(m, A, B), B)
<1>0. PICK rows, columns : rows = RowSums(m, A, B) /\ columns = ColumnSums(m, A, B)
  OBVIOUS
<1> DEFINE Row(a) == [b \in B |-> m[<<a, b>>]]
           Col(b) == [a \in A |-> m[<<a, b>>]]
           Upper(T) == [b \in B |-> SumFunctionOnSet(Col(b), T)]
           Bad == {T \in SUBSET A : SumFunctionOnSet(rows, T) # SumFunctionOnSet(Upper(T), B)}
<1>1. \A T \in SUBSET A : /\ IsFiniteSet(T)
                          /\ \A b \in B : IntValued(Col(b), T)
  BY FS_Subset DEF IntValued
<1>2. \A a \in A : IntValued(Row(a), B) /\ SumFunctionOnSet(Row(a), B) \in Int /\ rows[a] = SumFunctionOnSet(Row(a), B)
  <2> SUFFICES ASSUME NEW a \in A
               PROVE  IntValued(Row(a), B) /\ SumFunctionOnSet(Row(a), B) \in Int /\ rows[a] = SumFunctionOnSet(Row(a), B)
    OBVIOUS
  <2>1. IntValued(Row(a), B) /\ rows[a] = SumFunctionOnSet(Row(a), B)
    BY <1>0 DEF IntValued, RowSums
  <2> HIDE DEF Row
  <2> QED BY <2>1, SumInt
<1>3. \A T \in SUBSET A : IntValued(Upper(T), B)
  <2> SUFFICES ASSUME NEW T \in SUBSET A, NEW b \in B PROVE Upper(T)[b] \in Int
    BY DEF IntValued
  <2>1. IntValued(Col(b), T) /\ IsFiniteSet(T) /\ Upper(T)[b] = SumFunctionOnSet(Col(b), T)
    BY <1>1
  <2> HIDE DEF Col, Upper
  <2> QED BY <2>1, SumInt
<1>4. ASSUME NEW T \in SUBSET A, NEW x \in T, T \ {x} \notin Bad PROVE T \notin Bad
  <2>1. PICK U, V, r : U = Upper(T) /\ V = Upper(T \ {x}) /\ r = Row(x)
    OBVIOUS
  <2>2. T \ {x} \in SUBSET A /\ x \in A
    OBVIOUS
  <2>3. IntValued(U, B) /\ IntValued(V, B) /\ IntValued(r, B)
    BY <1>2, <1>3, <2>1, <2>2
  <2>4. ASSUME NEW b \in B PROVE U[b] = 1 * r[b] + 1 * V[b]
    <3>1. PICK c : c = Col(b)
      OBVIOUS
    <3>2. /\ U[b] = SumFunctionOnSet(c, T) /\ V[b] = SumFunctionOnSet(c, T \ {x})
          /\ r[b] = c[x]
      BY <2>1, <3>1
    <3>3. IntValued(c, T) /\ IsFiniteSet(T)
      BY <1>1, <3>1
    <3>4. SumFunctionOnSet(c, T) = c[x] + SumFunctionOnSet(c, T \ {x})
      BY <3>3, SumRemove
    <3> QED BY <2>3, <3>2, <3>4 DEF IntValued
  <2> HIDE DEF Row, Col, Upper, Bad
  <2>5. SumFunctionOnSet(U, B) = 1 * SumFunctionOnSet(r, B) + 1 * SumFunctionOnSet(V, B)
    <3>1. \A b \in B : U[b] = 1 * r[b] + 1 * V[b]
      BY <2>4
    <3>2. IsFiniteSet(B) /\ 1 \in Int
      OBVIOUS
    <3> QED BY ONLY <2>3, <3>1, <3>2, SumLinear
  <2>6. IntValued(rows, T) /\ IsFiniteSet(T)
    BY <1>1, <1>2 DEF IntValued
  <2>7. SumFunctionOnSet(rows, T) = rows[x] + SumFunctionOnSet(rows, T \ {x})
    <3>1. x \in T
      OBVIOUS
    <3> QED BY ONLY <2>6, <3>1, SumRemove
  <2>8. rows[x] = SumFunctionOnSet(r, B) /\ SumFunctionOnSet(r, B) \in Int
    BY <1>2, <2>1, <2>2
  <2>9. SumFunctionOnSet(rows, T \ {x}) = SumFunctionOnSet(V, B)
    BY <1>4, <2>1, <2>2 DEF Bad
  <2>10. SumFunctionOnSet(V, B) \in Int
    BY <2>3, SumInt
  <2>11. SumFunctionOnSet(rows, T) = SumFunctionOnSet(U, B)
    BY <2>5, <2>7, <2>8, <2>9, <2>10
  <2> QED BY <2>1, <2>11 DEF Bad
<1>5. {} \notin Bad
  <2>1. PICK U : U = Upper({})
    OBVIOUS
  <2>2. \A b \in B : U[b] = 0
    BY <2>1, SumEmpty
  <2>3. SumFunctionOnSet(U, B) = 0
    BY <2>2, SumZero
  <2> QED BY <2>1, <2>3, SumEmpty
<1>6. Bad = {}
  <2> HIDE DEF Bad
  <2>0. Bad \subseteq SUBSET A
    BY DEF Bad
  <2> SUFFICES ASSUME Bad # {} PROVE FALSE
    OBVIOUS
  <2>1. PICK T \in Bad : \A y \in T : T \ {y} \notin Bad
    BY <2>0, SmallestSubset
  <2>2. T # {}
    BY <1>5
  <2> QED BY <1>4, <2>0, <2>1, <2>2
<1>7. SumFunctionOnSet(rows, A) = SumFunctionOnSet(Upper(A), B) /\ columns = Upper(A)
  BY <1>0, <1>6 DEF ColumnSums
<1>8. IntValued(rows, A) /\ IntValued(columns, B)
  BY <1>2, <1>3, <1>7 DEF IntValued
<1> QED BY <1>0, <1>7, <1>8

-----------------------------------------------------------------------------
(* Products of positive numbers.                                             *)

LEMMA ProductPositive ==
  ASSUME NEW f, NEW S, IsFiniteSet(S), \A x \in S : f[x] \in Nat \ {0}
  PROVE  ProductOnSet(f, S) \in Nat \ {0}
<1> DEFINE Bad == {T \in SUBSET S : ProductOnSet(f, T) \notin Nat \ {0}}
<1>1. Bad = {}
  <2> SUFFICES ASSUME Bad # {} PROVE FALSE
    OBVIOUS
  <2>1. PICK T \in Bad : \A x \in T : T \ {x} \notin Bad
    BY SmallestSubset
  <2>2. T # {}
    BY FoldEmpty
  <2>3. IsFiniteSet(T)
    BY FS_Subset
  <2>4. /\ First(T) \in T
        /\ ProductOnSet(f, T) = f[First(T)] * ProductOnSet(f, T \ {First(T)})
    BY <2>2, <2>3, ProductUnfold
  <2>5. PICK n \in Nat \ {0}, k \in Nat \ {0} : n = f[First(T)] /\ k = ProductOnSet(f, T \ {First(T)})
    BY <2>1, <2>4
  <2>6. n * k \in Nat \ {0}
    OBVIOUS
  <2> QED BY <2>4, <2>5, <2>6
<1> QED BY <1>1

(* A product is a multiple of every factor. *)
LEMMA ProductDivides ==
  ASSUME NEW f, NEW S, IsFiniteSet(S), \A x \in S : f[x] \in Nat \ {0}, NEW x \in S
  PROVE  \E m \in Nat \ {0} : ProductOnSet(f, S) = f[x] * m
<1> DEFINE Right(T) == \A y \in T : \E m \in Nat \ {0} : ProductOnSet(f, T) = f[y] * m
           Bad == {T \in SUBSET S : ~Right(T)}
<1>1. Bad = {}
  <2> SUFFICES ASSUME Bad # {} PROVE FALSE
    OBVIOUS
  <2>1. PICK T \in Bad : \A y \in T : T \ {y} \notin Bad
    BY SmallestSubset
  <2>2. PICK y \in T : ~ \E m \in Nat \ {0} : ProductOnSet(f, T) = f[y] * m
    OBVIOUS
  <2>3. IsFiniteSet(T) /\ T \subseteq S
    BY FS_Subset
  <2>4. PICK z \in T : ProductOnSet(f, T) = f[z] * ProductOnSet(f, T \ {z})
    BY <2>2, <2>3, ProductUnfold
  <2>5. f[y] \in Nat \ {0} /\ f[z] \in Nat \ {0}
    BY <2>2, <2>3, <2>4
  <2>6. CASE y = z
    <3>1. IsFiniteSet(T \ {z}) /\ \A v \in T \ {z} : f[v] \in Nat \ {0}
      BY <2>3, FS_Subset
    <3> QED BY <2>2, <2>4, <2>6, <3>1, ProductPositive
  <2>7. CASE y # z
    <3>1. T \ {z} \notin Bad /\ y \in T \ {z} /\ T \ {z} \in SUBSET S
      BY <2>1, <2>2, <2>3, <2>4, <2>7
    <3>2. PICK m \in Nat \ {0} : ProductOnSet(f, T \ {z}) = f[y] * m
      BY <3>1
    <3>3. PICK a \in Nat \ {0}, b \in Nat \ {0} : a = f[y] /\ b = f[z]
      BY <2>5
    <3>4. b * (a * m) = a * (b * m) /\ b * m \in Nat \ {0}
      OBVIOUS
    <3> QED BY <2>2, <2>4, <3>2, <3>3, <3>4
  <2> QED BY <2>6, <2>7
<1> QED BY <1>1
=============================================================================
