--------------------------------- MODULE Split ---------------------------------
(***************************************************************************)
(* What each diner owes: split.Compute.  The arguments are what a          *)
(* breakdown reads:                                                        *)
(*   price  line total of every dish, in cents (an item has quantity 1)    *)
(*   share  shares of every portion <<dish, person>>                       *)
(*   list   the people, in their order                                     *)
(*   paid   the total paid, 0 when it is not set                           *)
(*                                                                         *)
(* Amounts before rounding are exact fractions Num(..)[p] / Den(..); the   *)
(* code has float64 values next to them.  The difference shows in two      *)
(* places: when two people have the same remainder (see Precedes), and     *)
(* when the sum of all amounts is half a cent from an integer.             *)
(***************************************************************************)
EXTENDS Integers, Sequences, FiniteSetsExt, Functions

Subtotal(price) == SumFunction(price)

(* dishTotalShares: all portions count, whether or not the person is listed. *)
Shares(share, d) == SumFunctionOnSet(share, {k \in DOMAIN share : k[1] = d})

UnassignedDishes(price, share) == {d \in DOMAIN price : Shares(share, d) <= 0}

Assigned(price, share) == DOMAIN price \ UnassignedDishes(price, share)

(* The dishes a person takes a part of. *)
Taken(price, share, p) ==
  {d \in Assigned(price, share) : <<d, p>> \in DOMAIN share /\ share[<<d, p>>] > 0}

(* A common multiple of the share counts. *)
Unit(price, share) ==
  FoldFunctionOnSet(LAMBDA n, m : n * m, 1,
    [d \in DOMAIN price |-> Shares(share, d)], Assigned(price, share))

(* rawCents, times Unit. *)
Raw(price, share, p) ==
  LET unit == Unit(price, share)
  IN  MapThenSumSet(LAMBDA d : share[<<d, p>>] * price[d] * (unit \div Shares(share, d)),
                    Taken(price, share, p))

(* ideal[p] is Num / Den; without a positive subtotal everybody's scale is 0. *)
Den(price, share) == IF Subtotal(price) > 0 THEN Unit(price, share) * Subtotal(price) ELSE 1

Num(price, share, list, paid) ==
  [p \in Range(list) |->
     IF Subtotal(price) > 0 THEN Raw(price, share, p) * paid ELSE 0]

(* The integers math.Round may give for n / d.  The float64 next to half a   *)
(* cent may be on either side of it.                                         *)
Rounded(n, d) == {t \in {n \div d, n \div d + 1} : 2 * (t * d - n) \in -d .. d}

(* One of the terms rawCents is the sum of, times Shares(share, d).          *)
Term(price, share, d, p) == share[<<d, p>>] * price[d]

(* A term that a binary fraction cannot hold. *)
Inexact(price, share, d, p) ==
  \A k \in 0 .. 6 : (2 ^ k * Term(price, share, d, p)) % Shares(share, d) # 0

(* The terms are added in the order of a Go map, which differs from call to  *)
(* call: when there are three, not all the same, the last bit of the sum may *)
(* differ too.                                                               *)
Noisy(price, share, p) ==
  LET taken == Taken(price, share, p)
  IN  /\ Cardinality(taken) > 2
      /\ \E d \in taken : Inexact(price, share, d, p)
      /\ \E d, e \in taken : Term(price, share, d, p) * Shares(share, e)
                             # Term(price, share, e, p) * Shares(share, d)

(* Two people with the same portions. *)
Alike(share, p, q) ==
  \A k \in DOMAIN share :
    (k[2] = p => <<k[1], q>> \in DOMAIN share /\ share[<<k[1], q>>] = share[k])
    /\ (k[2] = q => <<k[1], p>> \in DOMAIN share /\ share[<<k[1], p>>] = share[k])

Before(list, p, q) == \E i, j \in DOMAIN list : i < j /\ list[i] = p /\ list[j] = q

(* Mutant: the remainders are not sorted. *)
InListOrder(price, share, list, rest, p, q) == Before(list, p, q)

(* The stable sort puts p before q in every call.  Equal remainders of people *)
(* with different portions are not equal as float64 values: either may win.   *)
Precedes(price, share, list, rest, p, q) ==
  \/ rest[p] > rest[q]
  \/ /\ rest[p] = rest[q] /\ Before(list, p, q)
     /\ Alike(share, p, q) /\ ~Noisy(price, share, p)

(* Mutant: one cent too many is handed out. *)
LeftoverAndOne(target, floors) == target - SumFunction(floors) + 1

(* How many cents are handed out after everybody's amount was rounded down. *)
Leftover(target, floors) == target - SumFunction(floors)

(***************************************************************************)
(* The results Compute may return: everybody's floor, and one more cent    *)
(* for those with the largest remainders.                                  *)
(***************************************************************************)
Compute(price, share, list, paid) ==
  LET num == Num(price, share, list, paid)
      den == Den(price, share)
      who == Range(list)
      floors == [p \in who |-> num[p] \div den]
      rest == [p \in who |-> num[p] % den]
      Wins(S, left) ==
        /\ Cardinality(S) = Min({left, Len(list)})
        /\ \A p \in S, q \in who \ S : ~Precedes(price, share, list, rest, q, p)
  IN  {[p \in who |-> floors[p] + (IF p \in S THEN 1 ELSE 0)] :
         S \in {T \in SUBSET who : \E target \in Rounded(SumFunction(num), den) :
                                    Wins(T, Leftover(target, floors))}}
=============================================================================
