------------------------------- MODULE SplitProofs -------------------------------
(***************************************************************************)
(* Proofs about Split: what Compute returns for any dishes, portions,      *)
(* people and total.  First the largest-remainder rounding, for any        *)
(* fractions; then the fractions, for any bill.                            *)
(***************************************************************************)
EXTENDS Split, SumTheorems, TLAPS

-----------------------------------------------------------------------------
(* Integers.                                                                 *)

LEMMA Division ==
  ASSUME NEW n \in Int, NEW d \in Nat \ {0}
  PROVE  /\ n \div d \in Int /\ n % d \in 0 .. d - 1
         /\ n = d * (n \div d) + (n % d)
<1>1. n \div d \in Int /\ n % d \in Int
  OBVIOUS
<1>2. n % d >= 0 /\ n % d < d
  <2>1. d \in Nat /\ d > 0
    OBVIOUS
  <2> QED BY <2>1
<1>3. n = d * (n \div d) + (n % d)
  OBVIOUS
<1> QED BY <1>1, <1>2, <1>3

(* No more cents are left than there are people. *)
LEMMA LeftoverBound ==
  ASSUME NEW den \in Nat \ {0}, NEW n \in Nat, NEW left \in Int, NEW R \in Int,
         R <= (den - 1) * n, 2 * (left * den - R) <= den
  PROVE  left <= n
<1> SUFFICES ASSUME left >= n + 1 PROVE FALSE
  OBVIOUS
<1>1. left * den >= (n + 1) * den
  <2>1. PICK k \in Nat : left = (n + 1) + k
    <3>1. left - (n + 1) \in Nat /\ left = (n + 1) + (left - (n + 1))
      OBVIOUS
    <3> QED BY <3>1
  <2>2. left * den = (n + 1) * den + k * den /\ k * den \in Nat
    BY <2>1
  <2> QED BY <2>2
<1>2. (n + 1) * den = n * den + den /\ (den - 1) * n = n * den - n
  OBVIOUS
<1>3. n * den \in Int /\ left * den \in Int
  OBVIOUS
<1> QED BY <1>1, <1>2, <1>3

(* A cent for somebody without a remainder would be one too many. *)
LEMMA NoCentForNothing ==
  ASSUME NEW den \in Nat \ {0}, NEW n \in Nat \ {0}, NEW R \in Int,
         R <= (den - 1) * (n - 1)
  PROVE  ~(2 * (n * den - R) <= den)
<1>1. (den - 1) * (n - 1) = n * den - n - den + 1 /\ n * den \in Int
  OBVIOUS
<1> QED BY <1>1

-----------------------------------------------------------------------------
(* Rounding by largest remainders.                                           *)

(* What a choice of target and winners has to do with the fractions num / den. *)
Rounds(who, num, den, floors, rest, target, S) ==
  /\ IsFiniteSet(who) /\ num \in [who -> Int] /\ den \in Nat \ {0}
  /\ floors = [p \in who |-> num[p] \div den]
  /\ rest = [p \in who |-> num[p] % den]
  /\ target \in Rounded(SumFunctionOnSet(num, who), den)
  /\ S \subseteq who
  /\ \A p \in S, q \in who \ S : rest[q] <= rest[p]

(* The parts of the amounts: floors and remainders. *)
LEMMA FloorsAndRests ==
  ASSUME NEW who, NEW num, NEW den, NEW floors, NEW rest, NEW target, NEW S,
         Rounds(who, num, den, floors, rest, target, S)
  PROVE  /\ \A p \in who : /\ floors[p] \in Int /\ rest[p] \in 0 .. den - 1
                           /\ num[p] = den * floors[p] + rest[p]
         /\ SumFunctionOnSet(floors, who) \in Int
         /\ SumFunctionOnSet(rest, who) \in Nat
         /\ SumFunctionOnSet(rest, who) <= (den - 1) * Cardinality(who)
         /\ SumFunctionOnSet(num, who)
            = den * SumFunctionOnSet(floors, who) + SumFunctionOnSet(rest, who)
<1> USE DEF Rounds
<1>1. ASSUME NEW p \in who
      PROVE  /\ floors[p] \in Int /\ rest[p] \in 0 .. den - 1
             /\ num[p] = den * floors[p] + rest[p]
  <2>1. num[p] \in Int /\ floors[p] = num[p] \div den /\ rest[p] = num[p] % den
    OBVIOUS
  <2> QED BY <2>1, Division
<1>2. IntValued(floors, who) /\ IntValued(rest, who) /\ \A p \in who : rest[p] \in Nat
  BY <1>1 DEF IntValued
<1>3. SumFunctionOnSet(floors, who) \in Int /\ SumFunctionOnSet(rest, who) \in Nat
  BY <1>2, SumInt, SumNonnegative
<1>4. SumFunctionOnSet(rest, who) <= (den - 1) * Cardinality(who)
  <2>1. PICK c : c = [p \in who |-> den - 1]
    OBVIOUS
  <2>2. IntValued(c, who) /\ \A p \in who : c[p] = den - 1 /\ rest[p] <= c[p]
    BY <1>1, <2>1 DEF IntValued
  <2>3. den - 1 \in Int
    OBVIOUS
  <2>4. SumFunctionOnSet(c, who) = (den - 1) * Cardinality(who)
    BY <2>2, <2>3, SumConstant
  <2> QED BY <1>2, <2>2, <2>4, SumMonotonic
<1>5. SumFunctionOnSet(num, who)
      = den * SumFunctionOnSet(floors, who) + 1 * SumFunctionOnSet(rest, who)
  <2>1. \A p \in who : num[p] = den * floors[p] + 1 * rest[p]
    BY <1>1
  <2> QED BY <1>2, <2>1, SumLinear
<1> QED BY <1>1, <1>3, <1>4, <1>5

(* At most as many cents are left as there are people. *)
LEMMA EnoughPeople ==
  ASSUME NEW who, NEW num, NEW den, NEW floors, NEW rest, NEW target, NEW S,
         Rounds(who, num, den, floors, rest, target, S)
  PROVE  /\ target \in Int
         /\ target - SumFunctionOnSet(floors, who) <= Cardinality(who)
         /\ 2 * ((target - SumFunctionOnSet(floors, who)) * den - SumFunctionOnSet(rest, who)) <= den
<1>1. PICK F \in Int, R \in Nat, N \in Int, n \in Nat :
        /\ F = SumFunctionOnSet(floors, who) /\ R = SumFunctionOnSet(rest, who)
        /\ N = SumFunctionOnSet(num, who) /\ n = Cardinality(who)
        /\ R <= (den - 1) * n /\ N = den * F + R
  <2>1. SumFunctionOnSet(num, who) \in Int /\ Cardinality(who) \in Nat
    BY SumInt, FS_CardinalityType DEF Rounds, IntValued
  <2> QED BY <2>1, FloorsAndRests
<1>2. den \in Nat \ {0} /\ target \in Int /\ 2 * (target * den - N) \in -den .. den
  <2>1. den \in Nat \ {0} /\ target \in Rounded(N, den)
    BY <1>1 DEF Rounds
  <2>2. N \div den \in Int
    BY <2>1, Division
  <2> QED BY <2>1, <2>2 DEF Rounded
<1>3. PICK left \in Int : left = target - F
  BY <1>1, <1>2
<1>4. target * den - N = left * den - R
  <2>1. target = left + F
    BY <1>1, <1>2, <1>3
  <2>2. (left + F) * den - (den * F + R) = left * den - R
    BY <1>1, <1>2, <1>3
  <2> QED BY <1>1, <2>1, <2>2
<1>5. 2 * (left * den - R) <= den
  BY <1>2, <1>4
<1>6. left <= n
  BY <1>1, <1>2, <1>3, <1>5, LeftoverBound
<1> QED BY <1>1, <1>2, <1>3, <1>5, <1>6

(* How many people are in S, as a sum. *)
LEMMA CountAsSum ==
  ASSUME NEW who, IsFiniteSet(who), NEW S, S \subseteq who,
         NEW one, one = [p \in who |-> IF p \in S THEN 1 ELSE 0]
  PROVE  SumFunctionOnSet(one, who) = Cardinality(S) /\ IsFiniteSet(S)
<1>1. IsFiniteSet(S) /\ Cardinality(S) \in Nat
  BY FS_Subset, FS_CardinalityType
<1>2. IntValued(one, who) /\ (\A p \in S : one[p] = 1) /\ \A p \in who : p \notin S => one[p] = 0
  BY DEF IntValued
<1>3. SumFunctionOnSet(one, who) = SumFunctionOnSet(one, S)
  BY <1>2, SumSupport
<1>4. SumFunctionOnSet(one, S) = 1 * Cardinality(S)
  BY <1>1, <1>2, SumConstant
<1> QED BY <1>1, <1>3, <1>4

(* With one cent for each winner, the amounts add up to the target. *)
LEMMA AmountsMakeTarget ==
  ASSUME NEW who, NEW num, NEW den, NEW floors, NEW rest, NEW target, NEW S,
         Rounds(who, num, den, floors, rest, target, S),
         Cardinality(S) = target - SumFunctionOnSet(floors, who),
         NEW amounts, amounts = [p \in who |-> floors[p] + (IF p \in S THEN 1 ELSE 0)]
  PROVE  SumFunctionOnSet(amounts, who) = target
<1>1. PICK one : one = [p \in who |-> IF p \in S THEN 1 ELSE 0]
  OBVIOUS
<1>2. IsFiniteSet(who) /\ S \subseteq who
  BY DEF Rounds
<1>3. SumFunctionOnSet(one, who) = Cardinality(S)
  BY <1>1, <1>2, CountAsSum
<1>4. \A p \in who : floors[p] \in Int /\ one[p] \in Int /\ amounts[p] = floors[p] + one[p]
  <2>1. \A p \in who : floors[p] \in Int
    BY FloorsAndRests
  <2> QED BY <1>1, <2>1
<1>5. IntValued(floors, who) /\ IntValued(one, who) /\ \A p \in who : amounts[p] = 1 * floors[p] + 1 * one[p]
  BY <1>4 DEF IntValued
<1>6. SumFunctionOnSet(amounts, who) = 1 * SumFunctionOnSet(floors, who) + 1 * SumFunctionOnSet(one, who)
  BY <1>2, <1>5, SumLinear
<1>7. SumFunctionOnSet(floors, who) \in Int /\ target \in Int
  BY FloorsAndRests, EnoughPeople
<1> QED BY <1>3, <1>6, <1>7

(* A winner has a remainder. *)
LEMMA WinnersHaveRests ==
  ASSUME NEW who, NEW num, NEW den, NEW floors, NEW rest, NEW target, NEW S,
         Rounds(who, num, den, floors, rest, target, S),
         Cardinality(S) = target - SumFunctionOnSet(floors, who),
         NEW p \in S
  PROVE  rest[p] > 0
<1>1. /\ IsFiniteSet(who) /\ S \subseteq who /\ den \in Nat \ {0} /\ IsFiniteSet(S)
      /\ (\A q \in who : rest[q] \in 0 .. den - 1)
      /\ (\A q \in who \ S : rest[q] <= rest[p])
  BY FloorsAndRests, FS_Subset DEF Rounds
<1> SUFFICES ASSUME rest[p] = 0 PROVE FALSE
  BY <1>1
<1>2. \A q \in who : q \notin S \ {p} => rest[q] = 0
  BY <1>1
<1>3. IntValued(rest, who) /\ S \ {p} \subseteq who /\ IsFiniteSet(S \ {p})
      /\ Cardinality(S \ {p}) = Cardinality(S) - 1 /\ Cardinality(S) \in Nat \ {0}
  <2>1. Cardinality(S) \in Nat /\ Cardinality(S) # 0
    BY <1>1, FS_CardinalityType, FS_EmptySet
  <2> QED BY <1>1, <2>1, FS_RemoveElement DEF IntValued
<1>4. SumFunctionOnSet(rest, who) = SumFunctionOnSet(rest, S \ {p})
  BY <1>1, <1>2, <1>3, SumSupport
<1>5. SumFunctionOnSet(rest, S \ {p}) <= (den - 1) * (Cardinality(S) - 1)
  <2>1. PICK c, L : c = [q \in who |-> den - 1] /\ L = S \ {p}
    OBVIOUS
  <2>2. /\ IntValued(c, L) /\ IntValued(rest, L) /\ den - 1 \in Int
        /\ \A q \in L : c[q] = den - 1 /\ rest[q] <= c[q]
    BY <1>1, <2>1 DEF IntValued
  <2>3. SumFunctionOnSet(c, L) = (den - 1) * Cardinality(L)
    BY <1>3, <2>1, <2>2, SumConstant
  <2>4. SumFunctionOnSet(rest, L) <= SumFunctionOnSet(c, L)
    BY <1>3, <2>1, <2>2, SumMonotonic
  <2> QED BY <1>3, <2>1, <2>3, <2>4
<1>6. PICK R \in Nat, n \in Nat \ {0} : R = SumFunctionOnSet(rest, who) /\ n = Cardinality(S)
  BY <1>3, FloorsAndRests
<1>7. 2 * (n * den - R) <= den
  BY <1>6, EnoughPeople
<1>8. R <= (den - 1) * (n - 1)
  BY <1>4, <1>5, <1>6
<1> QED BY <1>1, <1>6, <1>7, <1>8, NoCentForNothing

(* The amounts are fair: less than a cent from the exact ones, and no cent   *)
(* goes to anybody before somebody with a larger remainder.                  *)
LEMMA AmountsAreClose ==
  ASSUME NEW who, NEW num, NEW den, NEW floors, NEW rest, NEW target, NEW S,
         Rounds(who, num, den, floors, rest, target, S),
         Cardinality(S) = target - SumFunctionOnSet(floors, who),
         NEW amounts, amounts = [p \in who |-> floors[p] + (IF p \in S THEN 1 ELSE 0)],
         NEW p \in who
  PROVE  /\ -den < amounts[p] * den - num[p] /\ amounts[p] * den - num[p] < den
         /\ amounts[p] * den > num[p] <=> p \in S
<1>1. /\ den \in Nat \ {0}
      /\ floors[p] \in Int /\ rest[p] \in 0 .. den - 1 /\ num[p] = den * floors[p] + rest[p]
  <2>1. den \in Nat \ {0}
    BY DEF Rounds
  <2> QED BY <2>1, FloorsAndRests
<1>2. CASE p \in S
  <2>1. rest[p] > 0
    BY <1>2, WinnersHaveRests
  <2>2. PICK m \in Int : m = den * floors[p]
    BY <1>1
  <2>3. amounts[p] = floors[p] + 1
    BY <1>1, <1>2
  <2>4. (floors[p] + 1) * den = m + den
    BY <1>1, <2>2
  <2>5. amounts[p] * den - num[p] = den - rest[p] /\ amounts[p] * den = m + den /\ num[p] = m + rest[p]
    BY <1>1, <2>2, <2>3, <2>4
  <2> QED BY <1>1, <1>2, <2>1, <2>2, <2>5
<1>3. CASE p \notin S
  <2>1. amounts[p] = floors[p] /\ floors[p] * den = den * floors[p] /\ den * floors[p] \in Int
    BY <1>1, <1>3
  <2> QED BY <1>1, <1>3, <2>1
<1> QED BY <1>2, <1>3

-----------------------------------------------------------------------------
(* The fractions.                                                            *)

(* Dishes D and people P are all there are; list is the order of some of them. *)
BillRead(D, P, price, share, list, paid) ==
  /\ IsFiniteSet(D) /\ IsFiniteSet(P)
  /\ DOMAIN price \subseteq D /\ IntValued(price, DOMAIN price)
  /\ DOMAIN share \subseteq D \X P /\ \A k \in DOMAIN share : share[k] \in Nat
  /\ list \in Seq(P)
  /\ paid \in Nat

Portions(share, d) == {k \in DOMAIN share : k[1] = d}

LEMMA FiniteDomains ==
  ASSUME NEW D, NEW P, NEW price, NEW share, NEW list, NEW paid,
         BillRead(D, P, price, share, list, paid)
  PROVE  /\ IsFiniteSet(DOMAIN price) /\ IsFiniteSet(DOMAIN share) /\ IsFiniteSet(Range(list))
         /\ Range(list) \subseteq P
         /\ IsFiniteSet(Assigned(price, share)) /\ Assigned(price, share) \subseteq DOMAIN price
         /\ Subtotal(price) \in Int
         /\ Subtotal(price) = SumFunctionOnSet(price, DOMAIN price)
<1> USE DEF BillRead
<1>1. IsFiniteSet(DOMAIN price)
  BY FS_Subset
<1>2. IsFiniteSet(DOMAIN share)
  BY FS_Product, FS_Subset
<1>3. Range(list) \subseteq P
  BY DEF Range
<1>4. IsFiniteSet(Range(list))
  BY <1>3, FS_Subset
<1>5. Assigned(price, share) \subseteq DOMAIN price
  BY DEF Assigned
<1>6. IsFiniteSet(Assigned(price, share))
  BY <1>1, <1>5, FS_Subset
<1>7. Subtotal(price) = SumFunctionOnSet(price, DOMAIN price)
  BY DEF Subtotal, SumFunction
<1> QED BY <1>1, <1>2, <1>3, <1>4, <1>5, <1>6, <1>7, SumInt

LEMMA SharesType ==
  ASSUME NEW D, NEW P, NEW price, NEW share, NEW list, NEW paid,
         BillRead(D, P, price, share, list, paid), NEW d
  PROVE  /\ Shares(share, d) = SumFunctionOnSet(share, Portions(share, d))
         /\ IsFiniteSet(Portions(share, d))
         /\ Shares(share, d) \in Nat
<1>1. Shares(share, d) = SumFunctionOnSet(share, Portions(share, d))
  BY DEF Shares, Portions
<1>2. IsFiniteSet(Portions(share, d)) /\ \A k \in Portions(share, d) : share[k] \in Nat
  <2>1. Portions(share, d) \subseteq DOMAIN share
    BY DEF Portions
  <2> QED BY <2>1, FiniteDomains, FS_Subset DEF BillRead
<1> QED BY <1>1, <1>2, SumNonnegative

LEMMA AssignedShares ==
  ASSUME NEW D, NEW P, NEW price, NEW share, NEW list, NEW paid,
         BillRead(D, P, price, share, list, paid), NEW d \in Assigned(price, share)
  PROVE  Shares(share, d) \in Nat \ {0}
<1>1. Shares(share, d) \in Nat /\ ~(Shares(share, d) <= 0)
  BY SharesType DEF Assigned, UnassignedDishes
<1> QED BY <1>1

-----------------------------------------------------------------------------
(* The common multiple.                                                      *)

LEMMA UnitDivides ==
  ASSUME NEW D, NEW P, NEW price, NEW share, NEW list, NEW paid,
         BillRead(D, P, price, share, list, paid)
  PROVE  /\ Unit(price, share) \in Nat \ {0}
         /\ \A d \in Assigned(price, share) :
              /\ Unit(price, share) \div Shares(share, d) \in Nat
              /\ (Unit(price, share) \div Shares(share, d)) * Shares(share, d) = Unit(price, share)
<1>1. PICK f, A : f = [d \in DOMAIN price |-> Shares(share, d)] /\ A = Assigned(price, share)
  OBVIOUS
<1>2. Unit(price, share) = ProductOnSet(f, A)
  BY <1>1 DEF Unit, ProductOnSet
<1>3. IsFiniteSet(A) /\ \A d \in A : f[d] \in Nat \ {0} /\ f[d] = Shares(share, d)
  BY <1>1, FiniteDomains, AssignedShares
<1>4. ProductOnSet(f, A) \in Nat \ {0}
  BY ONLY <1>3, ProductPositive
<1>5. ASSUME NEW d \in A
      PROVE  /\ Unit(price, share) \div Shares(share, d) \in Nat
             /\ (Unit(price, share) \div Shares(share, d)) * Shares(share, d) = Unit(price, share)
  <2>0. d \in A
    OBVIOUS
  <2>1. PICK m \in Nat \ {0} : ProductOnSet(f, A) = f[d] * m
    BY ONLY <1>3, <2>0, ProductDivides
  <2>2. PICK n \in Nat \ {0}, s \in Nat \ {0} : n = Unit(price, share) /\ s = Shares(share, d)
    BY <1>2, <1>3, <1>4
  <2>3. n = s * m
    BY <1>2, <1>3, <2>1, <2>2
  <2>4. s > 0 /\ s \in Nat /\ n \in Nat /\ m \in Nat
    OBVIOUS
  <2>5. n \div s = m
    BY ONLY <2>3, <2>4
  <2>6. m * s = n
    BY ONLY <2>3, <2>4
  <2> QED BY <2>2, <2>5, <2>6
<1> QED BY <1>1, <1>2, <1>4, <1>5

-----------------------------------------------------------------------------
(* What everybody's dishes cost, times the common multiple.                  *)

(* A share of a person that may have no portion. *)
Part(share, d, p) == IF <<d, p>> \in DOMAIN share THEN share[<<d, p>>] ELSE 0

(* What one share of an assigned dish costs. *)
Weight(price, share, d) == price[d] * (Unit(price, share) \div Shares(share, d))

RawOf(price, share, p) ==
  [d \in Assigned(price, share) |-> Part(share, d, p) * Weight(price, share, d)]

LEMMA PartType ==
  ASSUME NEW D, NEW P, NEW price, NEW share, NEW list, NEW paid,
         BillRead(D, P, price, share, list, paid), NEW d, NEW p
  PROVE  Part(share, d, p) \in Nat
BY DEF BillRead, Part

LEMMA WeightType ==
  ASSUME NEW D, NEW P, NEW price, NEW share, NEW list, NEW paid,
         BillRead(D, P, price, share, list, paid), NEW d \in Assigned(price, share)
  PROVE  /\ price[d] \in Int /\ Weight(price, share, d) \in Int
         /\ Weight(price, share, d) * Shares(share, d) = price[d] * Unit(price, share)
         /\ price[d] >= 0 => Weight(price, share, d) \in Nat
<1>1. PICK c \in Int, w \in Nat, s \in Nat, u \in Nat :
        /\ c = price[d] /\ w = Unit(price, share) \div Shares(share, d)
        /\ s = Shares(share, d) /\ u = Unit(price, share) /\ w * s = u
  <2>1. price[d] \in Int
    BY DEF BillRead, IntValued, Assigned
  <2>2. Shares(share, d) \in Nat
    BY SharesType
  <2> QED BY <2>1, <2>2, UnitDivides
<1>2. Weight(price, share, d) = c * w
  BY <1>1 DEF Weight
<1>3. (c * w) * s = c * (w * s) /\ c * w \in Int
  OBVIOUS
<1>4. c >= 0 => c * w \in Nat
  <2>1. ASSUME c >= 0 PROVE c * w \in Nat
    <3>1. c \in Nat
      BY <2>1
    <3> QED BY <3>1
  <2> QED BY <2>1
<1> QED BY <1>1, <1>2, <1>3, <1>4

(* The terms that Raw adds, as a function. *)
RawTermsOf(price, share, p, A) ==
  [d \in A |-> share[<<d, p>>] * price[d] * (Unit(price, share) \div Shares(share, d))]

LEMMA RawTerms ==
  ASSUME NEW price, NEW share, NEW p, NEW A, NEW T, T \in SUBSET A, T = Taken(price, share, p)
  PROVE  Raw(price, share, p) = SumFunctionOnSet(RawTermsOf(price, share, p, A), T)
BY ZenonT(60) DEF Raw, RawTermsOf, MapThenSumSet, SumFunctionOnSet, FoldFunctionOnSet, MapThenFoldSet

LEMMA RawIsSum ==
  ASSUME NEW D, NEW P, NEW price, NEW share, NEW list, NEW paid,
         BillRead(D, P, price, share, list, paid), NEW p
  PROVE  /\ IntValued(RawOf(price, share, p), Assigned(price, share))
         /\ Raw(price, share, p) = SumFunctionOnSet(RawOf(price, share, p), Assigned(price, share))
         /\ Raw(price, share, p) \in Int
<1>1. PICK f, A, T, u : /\ f = RawOf(price, share, p) /\ A = Assigned(price, share)
                        /\ T = Taken(price, share, p) /\ u = Unit(price, share)
  OBVIOUS
<1>2. IsFiniteSet(A) /\ T \subseteq A
  BY <1>1, FiniteDomains DEF Taken
<1>3. ASSUME NEW d \in A
      PROVE  /\ f[d] = Part(share, d, p) * Weight(price, share, d) /\ f[d] \in Int
             /\ d \notin T => f[d] = 0
             /\ d \in T => f[d] = share[<<d, p>>] * price[d] * (u \div Shares(share, d))
  <2>1. PICK n \in Nat, c \in Int, w \in Nat :
          n = Part(share, d, p) /\ c = price[d] /\ w = u \div Shares(share, d)
    BY <1>1, PartType, WeightType, UnitDivides
  <2>2. f[d] = n * (c * w)
    BY <1>1, <2>1 DEF RawOf, Weight
  <2>3. n * (c * w) = (n * c) * w /\ n * (c * w) \in Int /\ 0 * (c * w) = 0
    OBVIOUS
  <2>4. d \notin T => n = 0
    BY <1>1, <2>1 DEF Taken, Part
  <2>5. d \in T => n = share[<<d, p>>]
    BY <1>1, <2>1 DEF Taken, Part
  <2>6. f[d] = Part(share, d, p) * Weight(price, share, d)
    BY <1>1 DEF RawOf
  <2> QED BY <2>1, <2>2, <2>3, <2>4, <2>5, <2>6
<1>4. IntValued(f, A)
  BY <1>3 DEF IntValued
<1>5. SumFunctionOnSet(f, A) = SumFunctionOnSet(f, T)
  <2>1. \A x \in A : x \notin T => f[x] = 0
    BY <1>3
  <2> QED BY ONLY <1>2, <1>4, <2>1, SumSupport
<1>6. Raw(price, share, p) = SumFunctionOnSet(f, T)
  <2>1. PICK g : g = RawTermsOf(price, share, p, A)
    OBVIOUS
  <2>2. Raw(price, share, p) = SumFunctionOnSet(g, T)
    <3>1. T \in SUBSET A /\ T = Taken(price, share, p)
      BY <1>1, <1>2
    <3> QED BY ONLY <2>1, <3>1, RawTerms
  <2>3. (\A d \in T : g[d] = f[d]) /\ IntValued(f, T) /\ IsFiniteSet(T)
    BY <1>1, <1>2, <1>3, <1>4, <2>1, FS_Subset DEF IntValued, RawTermsOf
  <2>4. SumFunctionOnSet(g, T) = SumFunctionOnSet(f, T)
    BY ONLY <2>3, SumCongruence
  <2> QED BY <2>2, <2>4
<1>7. SumFunctionOnSet(f, A) \in Int
  BY ONLY <1>2, <1>4, SumInt
<1> QED BY <1>1, <1>4, <1>5, <1>6, <1>7

(* All shares that some people have of a dish. *)
PartsOf(share, d, Q) == [p \in Q |-> Part(share, d, p)]

LEMMA PartsAreShares ==
  ASSUME NEW D, NEW P, NEW price, NEW share, NEW list, NEW paid,
         BillRead(D, P, price, share, list, paid),
         NEW d \in Assigned(price, share), NEW Q, Q \subseteq P
  PROVE  /\ SumFunctionOnSet(PartsOf(share, d, Q), Q) \in Nat
         /\ SumFunctionOnSet(PartsOf(share, d, Q), Q) <= Shares(share, d)
         /\ DOMAIN share \subseteq D \X Q => SumFunctionOnSet(PartsOf(share, d, Q), Q) = Shares(share, d)
<1>1. PICK f, g, K, L, M :
        /\ f = PartsOf(share, d, Q) /\ g = [k \in {d} \X P |-> Part(share, k[1], k[2])]
        /\ K = Portions(share, d) /\ L = {d} \X P /\ M = {d} \X Q
  OBVIOUS
<1>2. /\ IsFiniteSet(P) /\ IsFiniteSet(Q) /\ IsFiniteSet(L) /\ IsFiniteSet(M) /\ IsFiniteSet(K)
      /\ M \subseteq L /\ K \subseteq L
  <2>1. IsFiniteSet(P) /\ IsFiniteSet({d})
    BY FS_Singleton DEF BillRead
  <2>2. M \subseteq L
    BY <1>1
  <2>3. K \subseteq L
    BY <1>1 DEF BillRead, Portions
  <2>4. IsFiniteSet(L) /\ IsFiniteSet(Q)
    BY <1>1, <2>1, FS_Product, FS_Subset
  <2> QED BY <2>1, <2>2, <2>3, <2>4, FS_Subset
<1>3. ASSUME NEW k \in L
      PROVE  /\ g[k] \in Nat /\ g[k] = Part(share, k[1], k[2])
             /\ k \in K => g[k] = share[k]
             /\ k \notin K => g[k] = 0
  <2>1. g[k] = Part(share, k[1], k[2]) /\ k = <<k[1], k[2]>> /\ k[1] = d
    BY <1>1
  <2> QED BY <1>1, <2>1, PartType DEF Part, Portions
<1>4. IntValued(g, L) /\ IntValued(g, M) /\ IntValued(g, K)
  BY <1>2, <1>3 DEF IntValued
<1>5. SumFunctionOnSet(f, Q) = SumFunctionOnSet(g, M)
  <2>1. IntValued(g, {d} \X Q) /\ \A x \in Q : f[x] = g[<<d, x>>]
    BY <1>1, <1>4 DEF PartsOf
  <2>2. SumFunctionOnSet(f, Q) = SumFunctionOnSet(g, {d} \X Q)
    BY ONLY <1>2, <2>1, SumPairs
  <2> QED BY <1>1, <2>2
<1>6. SumFunctionOnSet(g, L) = Shares(share, d)
  <2>1. SumFunctionOnSet(g, L) = SumFunctionOnSet(g, K)
    <3>1. \A x \in L : x \notin K => g[x] = 0
      BY <1>3
    <3> QED BY ONLY <1>2, <1>4, <3>1, SumSupport
  <2>2. SumFunctionOnSet(g, K) = SumFunctionOnSet(share, K)
    <3>1. (\A x \in K : g[x] = share[x]) /\ IntValued(share, K)
      BY <1>2, <1>3, <1>4 DEF IntValued
    <3> QED BY ONLY <1>2, <3>1, SumCongruence
  <2> QED BY <1>1, <2>1, <2>2, SharesType
<1>7. SumFunctionOnSet(g, M) \in Nat /\ SumFunctionOnSet(g, M) <= SumFunctionOnSet(g, L)
  <2>1. (\A x \in L : g[x] \in Nat) /\ \A x \in M : g[x] \in Nat
    BY <1>2, <1>3
  <2>2. SumFunctionOnSet(g, M) \in Nat
    BY ONLY <1>2, <2>1, SumNonnegative
  <2>3. SumFunctionOnSet(g, M) <= SumFunctionOnSet(g, L)
    BY ONLY <1>2, <2>1, SumSubset
  <2> QED BY <2>2, <2>3
<1>8. ASSUME DOMAIN share \subseteq D \X Q PROVE SumFunctionOnSet(g, M) = SumFunctionOnSet(g, L)
  <2>1. \A x \in L : x \notin M => g[x] = 0
    <3>1. K \subseteq M
      BY <1>1, <1>8 DEF Portions
    <3> QED BY <1>3, <3>1
  <2>2. SumFunctionOnSet(g, L) = SumFunctionOnSet(g, M)
    BY ONLY <1>2, <1>4, <2>1, SumSupport
  <2> QED BY <2>2
<1> QED BY <1>1, <1>5, <1>6, <1>7, <1>8

(* What the shares of some people cost, dish by dish. *)
CostOf(price, share, Q) ==
  [d \in Assigned(price, share) |->
     Weight(price, share, d) * SumFunctionOnSet(PartsOf(share, d, Q), Q)]

RawsOf(price, share, Q) == [p \in Q |-> Raw(price, share, p)]

(* By people or by dishes, it costs the same. *)
LEMMA RawsAreCosts ==
  ASSUME NEW D, NEW P, NEW price, NEW share, NEW list, NEW paid,
         BillRead(D, P, price, share, list, paid), NEW Q, Q \subseteq P
  PROVE  /\ IntValued(RawsOf(price, share, Q), Q)
         /\ IntValued(CostOf(price, share, Q), Assigned(price, share))
         /\ SumFunctionOnSet(RawsOf(price, share, Q), Q)
            = SumFunctionOnSet(CostOf(price, share, Q), Assigned(price, share))
<1>1. PICK A, R, C : /\ A = Assigned(price, share) /\ R = RawsOf(price, share, Q)
                     /\ C = CostOf(price, share, Q)
  OBVIOUS
<1>2. IsFiniteSet(A) /\ IsFiniteSet(Q)
  BY <1>1, FiniteDomains, FS_Subset DEF BillRead
<1>3. PICK m : m = [k \in Q \X A |-> RawOf(price, share, k[1])[k[2]]]
  OBVIOUS
<1>4. \A p \in Q, d \in A : m[<<p, d>>] = RawOf(price, share, p)[d]
  BY <1>3
<1>5. m \in [Q \X A -> Int]
  <2>1. \A p \in Q, d \in A : RawOf(price, share, p)[d] \in Int
    BY <1>1, RawIsSum DEF IntValued
  <2> QED BY <1>3, <2>1
<1>6. PICK rows, columns : rows = RowSums(m, Q, A) /\ columns = ColumnSums(m, Q, A)
  OBVIOUS
<1>7. IntValued(rows, Q) /\ IntValued(columns, A) /\ SumFunctionOnSet(rows, Q) = SumFunctionOnSet(columns, A)
  BY ONLY <1>2, <1>5, <1>6, SumExchange
<1>8. ASSUME NEW p \in Q PROVE rows[p] = R[p]
  <2>1. PICK r : r = [d \in A |-> m[<<p, d>>]]
    OBVIOUS
  <2>2. r = RawOf(price, share, p)
    BY <1>1, <1>4, <2>1 DEF RawOf
  <2>3. rows[p] = SumFunctionOnSet(r, A)
    BY <1>6, <2>1 DEF RowSums
  <2> QED BY <1>1, <2>2, <2>3, RawIsSum DEF RawsOf
<1>9. ASSUME NEW d \in A PROVE columns[d] = C[d]
  <2>0. Weight(price, share, d) \in Int
    BY <1>1, WeightType
  <2>10. PICK w \in Int : w = Weight(price, share, d)
    BY <2>0
  <2>11. PICK c, f : c = [p \in Q |-> m[<<p, d>>]] /\ f = PartsOf(share, d, Q)
    OBVIOUS
  <2>1. c = [p \in Q |-> m[<<p, d>>]] /\ w = Weight(price, share, d) /\ f = PartsOf(share, d, Q)
    BY <2>10, <2>11
  <2>2. columns[d] = SumFunctionOnSet(c, Q)
    BY <1>6, <2>1 DEF ColumnSums
  <2>3. ASSUME NEW p \in Q PROVE f[p] \in Int /\ c[p] = w * f[p] + 0 * f[p]
    <3>1. PICK n \in Nat : n = Part(share, d, p)
      BY PartType
    <3>2. f[p] = n /\ c[p] = n * w
      BY <1>1, <1>4, <2>1, <3>1 DEF PartsOf, RawOf
    <3>3. n * w = w * n + 0 * n
      OBVIOUS
    <3> QED BY <3>1, <3>2, <3>3
  <2>4. /\ IntValued(f, Q) /\ (\A x \in Q : c[x] = w * f[x] + 0 * f[x])
        /\ w \in Int /\ 0 \in Int
    BY <2>3 DEF IntValued
  <2>5. SumFunctionOnSet(c, Q) = w * SumFunctionOnSet(f, Q) + 0 * SumFunctionOnSet(f, Q)
    BY ONLY <1>2, <2>4, SumLinear
  <2>6. PICK s \in Int : s = SumFunctionOnSet(f, Q)
    BY <1>2, <2>4, SumInt
  <2>7. w * s + 0 * s = w * s
    OBVIOUS
  <2>8. C[d] = w * s
    BY <1>1, <2>1, <2>6 DEF CostOf
  <2> QED BY <2>2, <2>5, <2>6, <2>7, <2>8
<1>10. rows = R /\ columns = C
  BY <1>1, <1>6, <1>8, <1>9 DEF RawsOf, CostOf, RowSums, ColumnSums
<1> QED BY <1>1, <1>7, <1>10

(* Without discounts, no people have dishes for more than the subtotal, and  *)
(* all people together have dishes for the subtotal when every dish is       *)
(* assigned to them.                                                         *)
LEMMA RawsAndSubtotal ==
  ASSUME NEW D, NEW P, NEW price, NEW share, NEW list, NEW paid,
         BillRead(D, P, price, share, list, paid), NEW Q, Q \subseteq P
  PROVE  /\ (\A d \in DOMAIN price : price[d] >= 0)
            => SumFunctionOnSet(RawsOf(price, share, Q), Q) <= Unit(price, share) * Subtotal(price)
         /\ (UnassignedDishes(price, share) = {} /\ DOMAIN share \subseteq D \X Q)
            => SumFunctionOnSet(RawsOf(price, share, Q), Q) = Unit(price, share) * Subtotal(price)
<1>0. Unit(price, share) \in Nat \ {0} /\ Subtotal(price) \in Int
  BY UnitDivides, FiniteDomains
<1>10. PICK u \in Nat \ {0}, S \in Int : u = Unit(price, share) /\ S = Subtotal(price)
  BY <1>0
<1>11. PICK A, C, All : A = Assigned(price, share) /\ C = CostOf(price, share, Q) /\ All = DOMAIN price
  OBVIOUS
<1>1. /\ A = Assigned(price, share) /\ C = CostOf(price, share, Q) /\ u = Unit(price, share)
      /\ S = Subtotal(price) /\ All = DOMAIN price
  BY <1>10, <1>11
<1>2. /\ IsFiniteSet(A) /\ IsFiniteSet(All) /\ A \subseteq All /\ S = SumFunctionOnSet(price, All)
      /\ IntValued(price, All) /\ IntValued(price, A) /\ IntValued(C, A)
      /\ SumFunctionOnSet(RawsOf(price, share, Q), Q) = SumFunctionOnSet(C, A)
  <2>1. IsFiniteSet(A) /\ IsFiniteSet(All) /\ A \subseteq All /\ S = SumFunctionOnSet(price, All)
    BY <1>1, FiniteDomains
  <2>2. IntValued(price, All) /\ IntValued(price, A)
    BY <1>1, <2>1 DEF BillRead, IntValued
  <2> QED BY <1>1, <2>1, <2>2, RawsAreCosts
<1>3. PICK f : f = [d \in A |-> u * price[d] + 0 * price[d]]
  OBVIOUS
<1>4. IntValued(f, A) /\ SumFunctionOnSet(f, A) = u * SumFunctionOnSet(price, A) + 0 * SumFunctionOnSet(price, A)
  <2>1. (\A x \in A : f[x] = u * price[x] + 0 * price[x]) /\ u \in Int /\ 0 \in Int
    BY <1>3
  <2>2. IntValued(f, A)
    BY <1>2, <2>1 DEF IntValued
  <2>3. SumFunctionOnSet(f, A) = u * SumFunctionOnSet(price, A) + 0 * SumFunctionOnSet(price, A)
    BY ONLY <1>2, <2>1, SumLinear
  <2> QED BY <2>2, <2>3
<1>5. ASSUME NEW d \in A
      PROVE  /\ price[d] >= 0 => C[d] <= f[d]
             /\ DOMAIN share \subseteq D \X Q => C[d] = f[d]
  <2>0. /\ Weight(price, share, d) \in Int /\ price[d] \in Int
        /\ Weight(price, share, d) * Shares(share, d) = price[d] * u
        /\ price[d] >= 0 => Weight(price, share, d) \in Nat
        /\ Shares(share, d) \in Nat
        /\ SumFunctionOnSet(PartsOf(share, d, Q), Q) \in Nat
        /\ SumFunctionOnSet(PartsOf(share, d, Q), Q) <= Shares(share, d)
        /\ DOMAIN share \subseteq D \X Q => SumFunctionOnSet(PartsOf(share, d, Q), Q) = Shares(share, d)
    BY <1>1, PartsAreShares, WeightType, SharesType
  <2>1. PICK w \in Int, n \in Nat, s \in Nat, c \in Int :
          /\ w = Weight(price, share, d) /\ n = SumFunctionOnSet(PartsOf(share, d, Q), Q)
          /\ s = Shares(share, d) /\ c = price[d]
          /\ n <= s /\ w * s = c * u /\ (c >= 0 => w \in Nat)
          /\ DOMAIN share \subseteq D \X Q => n = s
    BY <2>0
  <2>2. C[d] = w * n
    BY <1>1, <2>1 DEF CostOf
  <2>3. f[d] = w * s
    <3>1. u * c + 0 * c = c * u
      OBVIOUS
    <3> QED BY <1>3, <2>1, <3>1
  <2>4. ASSUME c >= 0 PROVE w * n <= w * s
    <3>1. PICK k \in Nat : s = n + k
      <4>1. s - n \in Nat /\ s = n + (s - n)
        BY <2>1
      <4> QED BY <4>1
    <3>2. w \in Nat
      BY <2>1, <2>4
    <3>3. w * (n + k) = w * n + w * k /\ w * k \in Nat /\ w * n \in Nat
      BY <3>2
    <3> QED BY <3>1, <3>3
  <2> QED BY <2>1, <2>2, <2>3, <2>4
<1>6. PICK a \in Int : a = SumFunctionOnSet(price, A) /\ SumFunctionOnSet(f, A) = u * a
  <2>1. SumFunctionOnSet(price, A) \in Int
    BY <1>2, SumInt
  <2>2. PICK a \in Int : a = SumFunctionOnSet(price, A)
    BY <2>1
  <2>3. u * a + 0 * a = u * a
    OBVIOUS
  <2> QED BY <1>4, <2>2, <2>3
<1>7. ASSUME \A d \in DOMAIN price : price[d] >= 0
      PROVE  SumFunctionOnSet(C, A) <= u * S
  <2>1. SumFunctionOnSet(C, A) <= SumFunctionOnSet(f, A)
    <3>1. \A x \in A : C[x] <= f[x]
      BY <1>1, <1>2, <1>5, <1>7
    <3> QED BY ONLY <1>2, <1>4, <3>1, SumMonotonic
  <2>2. a <= S
    <3>1. \A x \in All : price[x] \in Nat
      BY <1>1, <1>2, <1>7 DEF IntValued
    <3>2. SumFunctionOnSet(price, A) <= SumFunctionOnSet(price, All)
      BY ONLY <1>2, <3>1, SumSubset
    <3> QED BY <1>2, <1>6, <3>2
  <2>3. u * a <= u * S
    <3>1. PICK k \in Nat : S = a + k
      <4>1. S - a \in Nat /\ S = a + (S - a)
        BY <2>2
      <4> QED BY <4>1
    <3>2. u * (a + k) = u * a + u * k /\ u * k \in Nat /\ u * a \in Int
      OBVIOUS
    <3> QED BY <3>1, <3>2
  <2>4. SumFunctionOnSet(C, A) \in Int /\ u * a \in Int /\ u * S \in Int
    BY <1>2, SumInt
  <2> QED BY <1>6, <2>1, <2>3, <2>4
<1>8. ASSUME UnassignedDishes(price, share) = {}, DOMAIN share \subseteq D \X Q
      PROVE  SumFunctionOnSet(C, A) = u * S
  <2>1. A = All
    BY <1>1, <1>8 DEF Assigned
  <2>2. \A x \in A : C[x] = f[x]
    BY <1>5, <1>8
  <2>3. SumFunctionOnSet(C, A) = SumFunctionOnSet(f, A)
    BY ONLY <1>2, <1>4, <2>2, SumCongruence
  <2> QED BY <1>2, <1>6, <2>1, <2>3
<1> QED BY <1>1, <1>2, <1>7, <1>8

-----------------------------------------------------------------------------
(* The exact amounts.                                                        *)

LEMMA ExactAmounts ==
  ASSUME NEW D, NEW P, NEW price, NEW share, NEW list, NEW paid,
         BillRead(D, P, price, share, list, paid)
  PROVE  /\ Den(price, share) \in Nat \ {0}
         /\ Num(price, share, list, paid) \in [Range(list) -> Int]
         /\ IntValued(Num(price, share, list, paid), Range(list))
         /\ SumFunctionOnSet(Num(price, share, list, paid), Range(list)) \in Int
         /\ (\A d \in DOMAIN price : price[d] >= 0)
            => SumFunctionOnSet(Num(price, share, list, paid), Range(list))
               <= paid * Den(price, share)
         /\ (/\ UnassignedDishes(price, share) = {} /\ DOMAIN share \subseteq D \X Range(list)
             /\ Subtotal(price) > 0)
            => SumFunctionOnSet(Num(price, share, list, paid), Range(list))
               = paid * Den(price, share)
<1>0. /\ Unit(price, share) \in Nat \ {0} /\ Subtotal(price) \in Int /\ paid \in Nat
      /\ Range(list) \subseteq P /\ IsFiniteSet(Range(list))
  <2>1. paid \in Nat
    BY DEF BillRead
  <2> QED BY <2>1, UnitDivides, FiniteDomains
<1>10. PICK u \in Nat \ {0}, s \in Int : u = Unit(price, share) /\ s = Subtotal(price)
  BY <1>0
<1>11. PICK Q, R, num : /\ Q = Range(list) /\ R = RawsOf(price, share, Q)
                       /\ num = Num(price, share, list, paid)
  OBVIOUS
<1>1. /\ u = Unit(price, share) /\ s = Subtotal(price) /\ Q = Range(list)
      /\ R = RawsOf(price, share, Q) /\ num = Num(price, share, list, paid)
  BY <1>10, <1>11
<1>2. ASSUME NEW p \in Q
      PROVE  /\ R[p] \in Int
             /\ s > 0 => num[p] = paid * R[p] + 0 * R[p]
             /\ s <= 0 => num[p] = 0
             /\ num[p] \in Int
  <2>1. Raw(price, share, p) \in Int
    BY RawIsSum
  <2>2. PICK r \in Int : r = Raw(price, share, p)
    BY <2>1
  <2>3. R[p] = r /\ num[p] = IF s > 0 THEN r * paid ELSE 0
    BY <1>1, <2>2 DEF RawsOf, Num
  <2>4. r * paid = paid * r + 0 * r /\ r * paid \in Int
    BY <1>0
  <2> QED BY <1>1, <2>3, <2>4
<1>3. num \in [Q -> Int] /\ IntValued(num, Q) /\ IntValued(R, Q) /\ IsFiniteSet(Q) /\ Q \subseteq P
  <2>1. DOMAIN num = Q /\ num = [p \in Q |-> num[p]]
    BY <1>1 DEF Num
  <2> QED BY <1>0, <1>1, <1>2, <2>1 DEF IntValued
<1>4. SumFunctionOnSet(num, Q) \in Int /\ SumFunctionOnSet(R, Q) \in Int
  BY ONLY <1>3, SumInt
<1>5. CASE s > 0
  <2>1. PICK a \in Int, N \in Int : a = SumFunctionOnSet(R, Q) /\ N = SumFunctionOnSet(num, Q)
    BY <1>4
  <2>2. N = paid * a
    <3>1. (\A x \in Q : num[x] = paid * R[x] + 0 * R[x]) /\ paid \in Int /\ 0 \in Int
      BY <1>0, <1>2, <1>5
    <3>2. SumFunctionOnSet(num, Q) = paid * SumFunctionOnSet(R, Q) + 0 * SumFunctionOnSet(R, Q)
      BY ONLY <1>3, <3>1, SumLinear
    <3>3. paid * a + 0 * a = paid * a
      BY <1>0
    <3> QED BY <2>1, <3>2, <3>3
  <2>3. PICK den \in Nat \ {0} : den = Den(price, share) /\ den = u * s
    <3>1. s \in Nat \ {0}
      BY <1>5
    <3>2. u * s \in Nat \ {0}
      BY <3>1
    <3> QED BY <1>1, <1>5, <3>2 DEF Den
  <2>4. (\A d \in DOMAIN price : price[d] >= 0) => a <= den
    BY <1>1, <1>3, <2>1, <2>3, RawsAndSubtotal
  <2>5. (UnassignedDishes(price, share) = {} /\ DOMAIN share \subseteq D \X Q) => a = den
    BY <1>1, <1>3, <2>1, <2>3, RawsAndSubtotal
  <2>6. ASSUME a <= den PROVE paid * a <= paid * den
    <3>1. PICK k \in Nat : den = a + k
      <4>1. den - a \in Nat /\ den = a + (den - a)
        BY <2>6
      <4> QED BY <4>1
    <3>2. paid * (a + k) = paid * a + paid * k /\ paid * k \in Nat /\ paid * a \in Int
      BY <1>0
    <3> QED BY <3>1, <3>2
  <2> QED BY <1>1, <1>3, <1>4, <2>1, <2>2, <2>3, <2>4, <2>5, <2>6
<1>6. CASE s <= 0
  <2>1. \A x \in Q : num[x] = 0
    BY <1>2, <1>6
  <2>2. SumFunctionOnSet(num, Q) = 0
    BY ONLY <1>3, <2>1, SumZero
  <2>3. Den(price, share) = 1 /\ ~(s > 0)
    BY <1>1, <1>6 DEF Den
  <2> QED BY <1>0, <1>1, <1>3, <2>2, <2>3
<1> QED BY <1>5, <1>6

-----------------------------------------------------------------------------
(* What Compute returns.                                                     *)

Floors(price, share, list, paid) ==
  [p \in Range(list) |-> Num(price, share, list, paid)[p] \div Den(price, share)]
Rests(price, share, list, paid) ==
  [p \in Range(list) |-> Num(price, share, list, paid)[p] % Den(price, share)]

(* amounts are the floors, and a cent for the winners S. *)
Allots(price, share, list, paid, amounts, target, S) ==
  LET num == Num(price, share, list, paid)
      den == Den(price, share)
      who == Range(list)
      floors == Floors(price, share, list, paid)
  IN  /\ Rounds(who, num, den, floors, Rests(price, share, list, paid), target, S)
      /\ Cardinality(S) = target - SumFunctionOnSet(floors, who)
      /\ amounts = [p \in who |-> floors[p] + (IF p \in S THEN 1 ELSE 0)]
      /\ \A p \in S, q \in who \ S :
           ~Precedes(price, share, list, Rests(price, share, list, paid), q, p)

LEMMA ListIsLong ==
  ASSUME NEW P, NEW list \in Seq(P)
  PROVE  /\ IsFiniteSet(Range(list)) /\ Len(list) \in Nat
         /\ Cardinality(Range(list)) \in Nat /\ Cardinality(Range(list)) <= Len(list)
<1>1. Len(list) \in Nat /\ DOMAIN list = 1 .. Len(list)
  OBVIOUS
<1>2. IsFiniteSet(1 .. Len(list)) /\ Cardinality(1 .. Len(list)) = Len(list)
  BY <1>1, FS_Interval
<1>3. list \in Surjection(1 .. Len(list), Range(list))
  BY <1>1 DEF Surjection, Range
<1> QED BY <1>1, <1>2, <1>3, FS_Surjection, FS_CardinalityType

LEMMA ComputeAllots ==
  ASSUME NEW D, NEW P, NEW price, NEW share, NEW list, NEW paid,
         BillRead(D, P, price, share, list, paid),
         NEW amounts \in Compute(price, share, list, paid)
  PROVE  \E target, S : Allots(price, share, list, paid, amounts, target, S)
<1>0. PICK num, den, who, floors, rest :
        /\ num = Num(price, share, list, paid) /\ den = Den(price, share) /\ who = Range(list)
        /\ floors = Floors(price, share, list, paid)
        /\ rest = Rests(price, share, list, paid)
  OBVIOUS
<1>1. /\ num = Num(price, share, list, paid) /\ den = Den(price, share) /\ who = Range(list)
      /\ floors = [p \in who |-> num[p] \div den]
      /\ rest = [p \in who |-> num[p] % den]
  BY <1>0 DEF Floors, Rests
<1>2. /\ IsFiniteSet(who) /\ num \in [who -> Int] /\ den \in Nat \ {0}
      /\ SumFunction(num) = SumFunctionOnSet(num, who)
      /\ SumFunction(floors) = SumFunctionOnSet(floors, who)
  <2>1. IsFiniteSet(who) /\ num \in [who -> Int] /\ den \in Nat \ {0}
    BY <1>1, FiniteDomains, ExactAmounts
  <2>2. DOMAIN num = who /\ DOMAIN floors = who
    BY <1>1, <2>1
  <2> QED BY <2>1, <2>2 DEF SumFunction
<1>3. PICK S \in SUBSET who, target \in Rounded(SumFunction(num), den) :
        /\ amounts = [p \in who |-> floors[p] + (IF p \in S THEN 1 ELSE 0)]
        /\ Cardinality(S) = Min({Leftover(target, floors), Len(list)})
        /\ \A p \in S, q \in who \ S : ~Precedes(price, share, list, rest, q, p)
  <2>1. amounts \in
          {[p \in Range(list) |-> Floors(price, share, list, paid)[p] + (IF p \in T THEN 1 ELSE 0)] :
             T \in {U \in SUBSET Range(list) :
                     \E target \in Rounded(SumFunction(Num(price, share, list, paid)), Den(price, share)) :
                       /\ Cardinality(U) = Min({Leftover(target, Floors(price, share, list, paid)), Len(list)})
                       /\ \A p \in U, q \in Range(list) \ U :
                            ~Precedes(price, share, list, Rests(price, share, list, paid), q, p)}}
    BY Zenon DEF Compute, Floors, Rests
  <2>2. PICK S \in SUBSET Range(list), target \in Rounded(SumFunction(Num(price, share, list, paid)), Den(price, share)) :
          /\ amounts = [p \in Range(list) |->
                          Floors(price, share, list, paid)[p] + (IF p \in S THEN 1 ELSE 0)]
          /\ Cardinality(S) = Min({Leftover(target, Floors(price, share, list, paid)), Len(list)})
          /\ \A p \in S, q \in Range(list) \ S :
               ~Precedes(price, share, list, Rests(price, share, list, paid), q, p)
    BY ONLY <2>1, Zenon
  <2>3. amounts = [p \in who |-> floors[p] + (IF p \in S THEN 1 ELSE 0)]
    BY <1>0, <2>2
  <2> QED BY <1>0, <2>2, <2>3
<1>4. \A p \in who : rest[p] \in Int
  BY <1>1, <1>2
<1>5. Rounds(who, num, den, floors, rest, target, S)
  <2>1. \A p \in S, q \in who \ S : rest[q] <= rest[p]
    BY <1>3, <1>4 DEF Precedes
  <2> QED BY <1>1, <1>2, <1>3, <2>1 DEF Rounds
<1>6. Cardinality(S) = target - SumFunctionOnSet(floors, who)
  <2>1. /\ target \in Int /\ SumFunctionOnSet(floors, who) \in Int
        /\ target - SumFunctionOnSet(floors, who) <= Cardinality(who)
    BY ONLY <1>5, EnoughPeople, FloorsAndRests
  <2>2. Cardinality(who) \in Nat /\ Len(list) \in Nat /\ Cardinality(who) <= Len(list)
    <3>1. list \in Seq(P)
      BY DEF BillRead
    <3> QED BY <1>1, <3>1, ListIsLong
  <2>3. PICK left \in Int : left = target - SumFunctionOnSet(floors, who)
    BY <2>1
  <2>4. left <= Len(list) /\ Leftover(target, floors) = left
    BY <1>2, <2>1, <2>2, <2>3 DEF Leftover
  <2>5. Min({left, Len(list)}) = left
    BY <2>2, <2>4 DEF Min
  <2> QED BY <1>3, <2>3, <2>4, <2>5
<1> QED BY <1>0, <1>3, <1>5, <1>6 DEF Allots

(***************************************************************************)
(* Compute is largest-remainder rounding (split.Compute): everybody's      *)
(* amount is less than a cent from the exact one, only those with the      *)
(* largest remainders get a cent more, and the amounts add up to the exact *)
(* total, rounded.                                                         *)
(***************************************************************************)
THEOREM ComputeIsFair ==
  ASSUME NEW D, NEW P, NEW price, NEW share, NEW list, NEW paid,
         BillRead(D, P, price, share, list, paid),
         NEW amounts \in Compute(price, share, list, paid),
         NEW num, num = Num(price, share, list, paid),
         NEW den, den = Den(price, share),
         NEW up, up = {p \in Range(list) : amounts[p] * den > num[p]}
  PROVE  /\ DOMAIN amounts = Range(list)
         /\ \A p \in Range(list) : /\ -den < amounts[p] * den - num[p]
                                   /\ amounts[p] * den - num[p] < den
         /\ \A p \in up, q \in Range(list) \ up : (num[p] % den) >= (num[q] % den)
         /\ den \in Nat \ {0}
         /\ SumFunctionOnSet(num, Range(list)) \in Int
         /\ SumFunctionOnSet(amounts, Range(list)) \in Int
         /\ 2 * (SumFunctionOnSet(amounts, Range(list)) * den - SumFunctionOnSet(num, Range(list)))
            \in -den .. den
<1>1. PICK target, S : Allots(price, share, list, paid, amounts, target, S)
  BY ComputeAllots
<1>2. PICK who, floors, rest :
        /\ who = Range(list)
        /\ floors = Floors(price, share, list, paid) /\ rest = Rests(price, share, list, paid)
  OBVIOUS
<1>3. /\ Rounds(who, num, den, floors, rest, target, S)
      /\ Cardinality(S) = target - SumFunctionOnSet(floors, who)
      /\ amounts = [p \in who |-> floors[p] + (IF p \in S THEN 1 ELSE 0)]
  BY <1>1, <1>2 DEF Allots
<1>4. ASSUME NEW p \in who
      PROVE  /\ -den < amounts[p] * den - num[p] /\ amounts[p] * den - num[p] < den
             /\ amounts[p] * den > num[p] <=> p \in S
  BY <1>3, AmountsAreClose
<1>5. SumFunctionOnSet(amounts, who) = target
  BY ONLY <1>3, AmountsMakeTarget
<1>6. up = S
  BY <1>2, <1>3, <1>4 DEF Rounds
<1>7. \A p \in S, q \in who \ S : (num[p] % den) >= (num[q] % den)
  <2>1. \A p \in who : rest[p] \in Int /\ rest[p] = (num[p] % den)
    <3>1. \A p \in who : rest[p] \in 0 .. den - 1 /\ den \in Int
      BY ONLY <1>3, FloorsAndRests DEF Rounds
    <3> QED BY <1>2, <3>1 DEF Rests
  <2>2. S \subseteq who /\ \A p \in S, q \in who \ S : rest[q] <= rest[p]
    BY <1>3 DEF Rounds
  <2> QED BY <2>1, <2>2
<1>8. /\ den \in Nat \ {0} /\ SumFunctionOnSet(num, who) \in Int /\ target \in Int
      /\ 2 * (target * den - SumFunctionOnSet(num, who)) \in -den .. den
  <2>1. den \in Nat \ {0} /\ target \in Rounded(SumFunctionOnSet(num, who), den)
    BY <1>3 DEF Rounds
  <2>2. SumFunctionOnSet(num, who) \in Int
    BY <1>2, ExactAmounts
  <2>3. SumFunctionOnSet(num, who) \div den \in Int
    BY <2>1, <2>2, Division
  <2> QED BY <2>1, <2>2, <2>3 DEF Rounded
<1> QED BY <1>2, <1>3, <1>4, <1>5, <1>6, <1>7, <1>8

(* Everybody on the list is told an amount, and nobody else. *)
LEMMA ComputeDomain ==
  ASSUME NEW D, NEW P, NEW price, NEW share, NEW list, NEW paid,
         BillRead(D, P, price, share, list, paid),
         NEW amounts \in Compute(price, share, list, paid)
  PROVE  DOMAIN amounts = Range(list)
<1>1. PICK target, S : Allots(price, share, list, paid, amounts, target, S)
  BY ComputeAllots
<1> QED BY <1>1 DEF Allots

(* A rounded total is not above an integer that the exact one is not above.  *)
LEMMA RoundedBelow ==
  ASSUME NEW t \in Int, NEW den \in Nat \ {0}, NEW N \in Int, NEW paid \in Int,
         2 * (t * den - N) <= den, N <= paid * den
  PROVE  t <= paid
<1> SUFFICES ASSUME t > paid PROVE FALSE
  OBVIOUS
<1>1. PICK k \in Nat : t = paid + 1 + k
  <2>1. t - paid - 1 \in Nat /\ t = paid + 1 + (t - paid - 1)
    OBVIOUS
  <2> QED BY <2>1
<1>2. (paid + 1 + k) * den = paid * den + den + k * den /\ k * den \in Nat /\ paid * den \in Int
  OBVIOUS
<1> QED BY <1>1, <1>2

LEMMA RoundedAbove ==
  ASSUME NEW t \in Int, NEW den \in Nat \ {0}, NEW N \in Int, NEW paid \in Int,
         2 * (t * den - N) >= -den, N >= paid * den
  PROVE  t >= paid
<1> SUFFICES ASSUME t < paid PROVE FALSE
  OBVIOUS
<1>1. PICK k \in Nat : paid = t + 1 + k
  <2>1. paid - t - 1 \in Nat /\ paid = t + 1 + (paid - t - 1)
    OBVIOUS
  <2> QED BY <2>1
<1>2. (t + 1 + k) * den = t * den + den + k * den /\ k * den \in Nat /\ t * den \in Int
  OBVIOUS
<1> QED BY <1>1, <1>2

(***************************************************************************)
(* Without discounts the people of a breakdown are never asked for more    *)
(* than was paid, whatever portions were read with them; and when every    *)
(* dish is assigned to people of the breakdown, they pay exactly that      *)
(* (split.Compute; "per-person amounts always sum exactly to the entered   *)
(* total paid", docs/design_decisions.md).                                 *)
(***************************************************************************)
THEOREM ComputeAddsUp ==
  ASSUME NEW D, NEW P, NEW price, NEW share, NEW list, NEW paid,
         BillRead(D, P, price, share, list, paid),
         NEW amounts \in Compute(price, share, list, paid)
  PROVE  /\ (\A d \in DOMAIN price : price[d] >= 0)
            => SumFunctionOnSet(amounts, Range(list)) <= paid
         /\ (/\ UnassignedDishes(price, share) = {} /\ DOMAIN share \subseteq D \X Range(list)
             /\ Subtotal(price) > 0)
            => SumFunctionOnSet(amounts, Range(list)) = paid
<1>0. PICK num, den, up : /\ num = Num(price, share, list, paid) /\ den = Den(price, share)
                          /\ up = {p \in Range(list) : amounts[p] * den > num[p]}
  OBVIOUS
<1>1. /\ den \in Nat \ {0}
      /\ SumFunctionOnSet(num, Range(list)) \in Int
      /\ SumFunctionOnSet(amounts, Range(list)) \in Int
      /\ 2 * (SumFunctionOnSet(amounts, Range(list)) * den - SumFunctionOnSet(num, Range(list)))
         \in -den .. den
  BY <1>0, ComputeIsFair
<1>2. PICK t \in Int, N \in Int : /\ t = SumFunctionOnSet(amounts, Range(list))
                                  /\ N = SumFunctionOnSet(num, Range(list))
  BY <1>1
<1>3. 2 * (t * den - N) <= den /\ 2 * (t * den - N) >= -den /\ paid \in Int
  <2>1. paid \in Nat
    BY DEF BillRead
  <2> QED BY <1>1, <1>2, <2>1
<1>4. ASSUME \A d \in DOMAIN price : price[d] >= 0 PROVE t <= paid
  <2>1. N <= paid * den
    BY <1>0, <1>2, <1>4, ExactAmounts
  <2> QED BY <1>1, <1>3, <2>1, RoundedBelow
<1>5. ASSUME UnassignedDishes(price, share) = {}, DOMAIN share \subseteq D \X Range(list),
             Subtotal(price) > 0
      PROVE  t = paid
  <2>1. N = paid * den
    BY <1>0, <1>2, <1>5, ExactAmounts
  <2>2. paid * den \in Int /\ N <= paid * den /\ N >= paid * den
    BY <1>1, <1>3, <2>1
  <2>3. t <= paid /\ t >= paid
    BY <1>1, <1>3, <2>2, RoundedBelow, RoundedAbove
  <2> QED BY <1>3, <2>3
<1> QED BY <1>2, <1>4, <1>5

-----------------------------------------------------------------------------
(* Two calls of Compute.                                                     *)

(***************************************************************************)
(* Two calls of Compute with the same bill tell nobody amounts that are    *)
(* more than a cent apart: the order in which a Go map gives the shares,   *)
(* and the last bit of a float64 value, decide about single cents only     *)
(* (split.Compute).                                                        *)
(***************************************************************************)
THEOREM ComputeVariesByACent ==
  ASSUME NEW D, NEW P, NEW price, NEW share, NEW list, NEW paid,
         BillRead(D, P, price, share, list, paid),
         NEW a \in Compute(price, share, list, paid),
         NEW b \in Compute(price, share, list, paid),
         NEW p \in Range(list)
  PROVE  a[p] - b[p] \in -1 .. 1
<1>1. PICK who, floors : who = Range(list) /\ floors = Floors(price, share, list, paid)
  OBVIOUS
<1>2. floors[p] \in Int
  <2>1. PICK target, S : Allots(price, share, list, paid, a, target, S)
    BY ComputeAllots
  <2>2. Rounds(who, Num(price, share, list, paid), Den(price, share), floors,
               Rests(price, share, list, paid), target, S)
    BY <1>1, <2>1 DEF Allots
  <2> QED BY ONLY <1>1, <2>2, FloorsAndRests, p \in Range(list)
<1>3. a[p] \in floors[p] .. floors[p] + 1
  <2>1. PICK target, S : Allots(price, share, list, paid, a, target, S)
    BY ComputeAllots
  <2>2. a = [q \in who |-> floors[q] + (IF q \in S THEN 1 ELSE 0)]
    BY <1>1, <2>1 DEF Allots
  <2> QED BY <1>1, <1>2, <2>2
<1>4. b[p] \in floors[p] .. floors[p] + 1
  <2>1. PICK target, S : Allots(price, share, list, paid, b, target, S)
    BY ComputeAllots
  <2>2. b = [q \in who |-> floors[q] + (IF q \in S THEN 1 ELSE 0)]
    BY <1>1, <2>1 DEF Allots
  <2> QED BY <1>1, <1>2, <2>2
<1> QED BY <1>2, <1>3, <1>4

(* Nothing is left open: the total is not half a cent from an integer, and   *)
(* whoever has the same remainder as somebody else has the same portions,    *)
(* and the sum of their prices is not Noisy: at most two of them, or all the *)
(* same, or all of them exact as binary fractions.                           *)
Determined(price, share, list, paid) ==
  LET rest == Rests(price, share, list, paid)
  IN  /\ \A s, t \in Rounded(SumFunctionOnSet(Num(price, share, list, paid), Range(list)),
                             Den(price, share)) : s = t
      /\ \A p, q \in Range(list) : p # q /\ rest[p] = rest[q] =>
           Alike(share, p, q) /\ ~Noisy(price, share, p)

(***************************************************************************)
(* Two calls of Compute agree to the cent when the total is not half a     *)
(* cent from an integer and equal remainders occur only between people     *)
(* with the same portions, whose sums do not depend on the order in which  *)
(* the map yields their terms (split.Compute).  Without the last condition *)
(* it is false: in the run BillDisagrees the three have the same portions, *)
(* and the noise of their sums decides who pays the odd cent.              *)
(***************************************************************************)
THEOREM ComputeIsDetermined ==
  ASSUME NEW D, NEW P, NEW price, NEW share, NEW list, NEW paid,
         BillRead(D, P, price, share, list, paid),
         Determined(price, share, list, paid),
         NEW a \in Compute(price, share, list, paid),
         NEW b \in Compute(price, share, list, paid)
  PROVE  a = b
<1>1. PICK who, floors, rest :
        /\ who = Range(list)
        /\ floors = Floors(price, share, list, paid) /\ rest = Rests(price, share, list, paid)
  OBVIOUS
<1>2. PICK s, S : Allots(price, share, list, paid, a, s, S)
  BY ComputeAllots
<1>3. PICK t, T : Allots(price, share, list, paid, b, t, T)
  BY ComputeAllots
<1>4. s = t
  BY <1>2, <1>3 DEF Allots, Rounds, Determined
<1>5. /\ IsFiniteSet(who) /\ S \subseteq who /\ T \subseteq who
      /\ Cardinality(S) = Cardinality(T)
  BY <1>1, <1>2, <1>3, <1>4 DEF Allots, Rounds
<1>6. IsFiniteSet(S) /\ IsFiniteSet(T)
  BY <1>5, FS_Subset
<1>7. S = T
  <2> SUFFICES ASSUME S # T PROVE FALSE
    OBVIOUS
  <2>1. ~(S \subseteq T) /\ ~(T \subseteq S)
    BY <1>5, <1>6, FS_Subset
  <2>2. PICK p \in S, q \in T : p \notin T /\ q \notin S
    BY <2>1
  <2>3. p \in who /\ q \in who /\ p # q
    BY <1>5, <2>2
  <2>4. /\ ~Precedes(price, share, list, rest, q, p)
        /\ ~Precedes(price, share, list, rest, p, q)
    BY <1>1, <1>2, <1>3, <2>2, <2>3 DEF Allots
  <2>5. rest[p] \in Int /\ rest[q] \in Int
    BY <1>1, <1>2, <2>3, FloorsAndRests DEF Allots
  <2>6. rest[p] = rest[q]
    BY <2>4, <2>5 DEF Precedes
  <2>7. /\ Alike(share, p, q) /\ ~Noisy(price, share, p)
        /\ Alike(share, q, p) /\ ~Noisy(price, share, q)
    BY <1>1, <2>3, <2>6 DEF Determined
  <2>8. ~Before(list, p, q) /\ ~Before(list, q, p)
    BY <2>4, <2>6, <2>7 DEF Precedes
  <2>9. PICK i \in DOMAIN list, j \in DOMAIN list : list[i] = p /\ list[j] = q
    BY <1>1, <2>3 DEF Range
  <2>10. i \in Int /\ j \in Int /\ i # j
    BY <2>3, <2>9 DEF BillRead
  <2> QED BY <2>8, <2>9, <2>10 DEF Before
<1>8. /\ a = [p \in who |-> floors[p] + (IF p \in S THEN 1 ELSE 0)]
      /\ b = [p \in who |-> floors[p] + (IF p \in T THEN 1 ELSE 0)]
  BY <1>1, <1>2, <1>3 DEF Allots
<1> QED BY <1>7, <1>8
=============================================================================
