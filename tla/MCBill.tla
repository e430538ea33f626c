--------------------------------- MODULE MCBill ---------------------------------
(* Small instances of Bill.                                                       *)
EXTENDS Bill

CONSTANTS d1, d2, d3, p1, p2, p3

(* A discount, and two prices. *)
MCPrice == {-1, 2, 5}

Content(c, list, s, total, link, n) ==
  [price |-> c, people |-> list, share |-> s, paid |-> total, token |-> link, edits |-> n]

(* Every bill of some dishes and people with all its portions; no edits. *)
AllBills(D, list) ==
  {Content(c, list, s, total, NoToken, 0) :
     c \in [D -> Price], s \in [D \X Range(list) -> 0 .. MaxShares], total \in Paid}

(* A bill with one dish, and a bill whose old link cannot be displayed; two edits. *)
Edited ==
  {Content(d1 :> 5, <<p1, p2>>, <<d1, p1>> :> 1, 6, NoToken, 2),
   Content((d1 :> 5) @@ (d2 :> 2), <<p1>>, (<<d1, p1>> :> 2) @@ (<<d2, p1>> :> 1), 8, Legacy, 2)}

MCContents == AllBills({d1, d2}, <<p1, p2>>) \cup AllBills({d1}, <<p1, p2, p3>>) \cup Edited

(* Three friends share three dishes. *)
MCFriends ==
  {Content((d1 :> 1) @@ (d2 :> 2) @@ (d3 :> 3), <<p1, p2, p3>>,
           [k \in {d1, d2, d3} \X {p1, p2, p3} |-> 1], 7, NoToken, 0)}

(* An empty bill, scanned twice at the same time. *)
MCEmpty == {Content(Empty, Empty, Empty, 0, NoToken, 2)}
=============================================================================
