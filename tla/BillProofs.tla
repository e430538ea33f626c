------------------------------ MODULE BillProofs ------------------------------
(***************************************************************************)
(* Proofs about Bill, for any number of editors, readers, dishes, people   *)
(* and tokens: what the tables hold, what breakdowns tell the people of a  *)
(* bill, and when a share link ends.                                       *)
(***************************************************************************)
EXTENDS Bill, SplitProofs, SequenceTheorems, TLAPS

-----------------------------------------------------------------------------
(* The share link.                                                           *)

\* A bill without a link has replaced every link it ever gave out.
LinkIsSound == NoToken \notin links /\ OnlyRotationEndsALink

LEMMA LinkStaysSound == LinkIsSound /\ [Next]_vars => LinkIsSound'
<1> SUFFICES ASSUME LinkIsSound, [Next]_vars PROVE LinkIsSound'  OBVIOUS
<1>1. CASE UNCHANGED linkVars
  BY <1>1 DEF linkVars, LinkIsSound, OnlyRotationEndsALink
<1>2. ASSUME NEW t \in Token, CreateLink(t) \/ RotateLink(t) PROVE LinkIsSound'
  <2>1. t # NoToken  BY BillAssumption
  <2>2. CASE NewLink(t) /\ rotated' = rotated /\ token = NoToken
    BY <2>1, <2>2 DEF NewLink, LinkIsSound, OnlyRotationEndsALink
  <2>3. CASE UNCHANGED <<token, links, rotated>>
    BY <2>3, <1>1 DEF linkVars
  <2>4. CASE RotateLink(t)
    BY <2>1, <2>4 DEF RotateLink, NewLink, LinkIsSound, OnlyRotationEndsALink
  <2> QED  BY <1>2, <2>2, <2>3, <2>4 DEF CreateLink
<1>3. CASE \E e \in Editor : EditorStep(e)
  <2>1. UNCHANGED linkVars
    BY <1>3 DEF EditorStep, AddDish, UpdateDish, Recalculate, WriteSubtotal, BeginReplace,
                CommitReplace, EditorFails
  <2> QED  BY <2>1, <1>1
<1>4. CASE \/ \E d \in Dish : DeleteDish(d)
           \/ \E p \in Person : AddPerson(p) \/ DeletePerson(p)
           \/ \E d \in Dish, p \in Person, n \in 0 .. MaxShares : UpsertPortion(d, p, n)
           \/ \E c \in Paid : UpdateSession(c)
  <2>1. UNCHANGED linkVars
    BY <1>4 DEF DeleteDish, AddPerson, DeletePerson, UpsertPortion, UpdateSession
  <2> QED  BY <2>1, <1>1
<1>5. CASE \E r \in Reader : ReaderStep(r)
  <2>1. UNCHANGED linkVars
    BY <1>5 DEF ReaderStep, ReadBill, ReadDishes, ReadPeople, ReadPortions, Move
  <2> QED  BY <2>1, <1>1
<1>6. CASE UNCHANGED vars  BY <1>6, <1>1 DEF vars
<1> QED  BY <1>2, <1>3, <1>4, <1>5, <1>6 DEF Next

\* A link that was given out opens the bill until the owner rotates it, however many tabs
\* ask for it or rotate it (store.go:574-646).
THEOREM LinksTheorem == Spec => []OnlyRotationEndsALink
<1>1. Init => LinkIsSound  BY DEF Init, LinkIsSound, OnlyRotationEndsALink
<1>2. LinkIsSound => OnlyRotationEndsALink  BY DEF LinkIsSound
<1> QED  BY <1>1, <1>2, LinkStaysSound, PTL DEF Spec

-----------------------------------------------------------------------------
(* The tables, and what editors and readers carry.                           *)

Menus == UNION {[D -> Price] : D \in SUBSET Dish}
PortionTables == UNION {[K -> 0 .. MaxShares] : K \in SUBSET (Dish \X Person)}
Works == [dish : Dish \cup {NoToken}, sum : Int, seen : SUBSET Dish, new : Menus]
Readings == [price : Menus, people : Seq(Person), share : PortionTables, paid : Nat]

RowsOK ==
  /\ price \in Menus
  /\ people \in Seq(Person) /\ IsInjective(people)
  /\ share \in PortionTables /\ DOMAIN share \subseteq (DOMAIN price) \X Listed
  /\ subtotal \in Int /\ paid \in Paid \cup {0}

LinksOK ==
  /\ token \in Token \cup {NoToken, Legacy}
  /\ links \subseteq Token \cup {Legacy} /\ rotated \subseteq links
  /\ token \in links \cup {NoToken}

DrawnOK ==
  /\ drawn \subseteq Dish \cup Person \cup Token
  /\ DOMAIN price \cup Listed \subseteq drawn
  /\ lists \subseteq SUBSET drawn
  /\ \A e \in Editor : DOMAIN work[e].new \subseteq drawn

EditorsOK ==
  /\ pc \in [Editor -> {"idle", "recalculate", "write", "replace"}]
  /\ work \in [Editor -> Works]

(* A reader that is done was told amounts that Compute may return for what   *)
(* it has read.                                                              *)
ReadersOK ==
  /\ rpc \in [Reader -> {"idle", "dishes", "people", "portions", "done"}]
  /\ read \in [Reader -> Readings]
  /\ DOMAIN owed = Reader
  /\ \A r \in Reader :
       rpc[r] = "done" => owed[r] \in Compute(read[r].price, read[r].share, read[r].people, read[r].paid)

Inv == RowsOK /\ LinksOK /\ DrawnOK /\ EditorsOK /\ ReadersOK

-----------------------------------------------------------------------------
(* What the operators on tables and lists return.                            *)

LEMMA MenuMeans ==
  ASSUME NEW c
  PROVE  c \in Menus <=> DOMAIN c \subseteq Dish /\ c \in [DOMAIN c -> Price]
BY DEF Menus

LEMMA PortionsMean ==
  ASSUME NEW s
  PROVE  s \in PortionTables <=> DOMAIN s \subseteq Dish \X Person /\ s \in [DOMAIN s -> 0 .. MaxShares]
BY DEF PortionTables

LEMMA MenuRestrict ==
  ASSUME NEW c \in Menus, NEW S, S \subseteq DOMAIN c
  PROVE  Restrict(c, S) \in Menus /\ DOMAIN Restrict(c, S) = S
<1>1. DOMAIN c \subseteq Dish /\ c \in [DOMAIN c -> Price]
  BY MenuMeans
<1>2. Restrict(c, S) \in [S -> Price] /\ S \in SUBSET Dish
  BY <1>1 DEF Restrict
<1> QED BY <1>2 DEF Menus

LEMMA MenuUnion ==
  ASSUME NEW c \in Menus, NEW new \in Menus, NEW S, S \subseteq DOMAIN c,
         NEW m, m = [d \in S \cup DOMAIN new |-> IF d \in DOMAIN new THEN new[d] ELSE c[d]]
  PROVE  m \in Menus /\ DOMAIN m = S \cup DOMAIN new
<1>1. /\ DOMAIN c \subseteq Dish /\ c \in [DOMAIN c -> Price]
      /\ DOMAIN new \subseteq Dish /\ new \in [DOMAIN new -> Price]
  BY MenuMeans
<1>2. m \in [S \cup DOMAIN new -> Price] /\ S \cup DOMAIN new \in SUBSET Dish
  BY <1>1
<1> QED BY <1>2 DEF Menus

LEMMA MenuWith ==
  ASSUME NEW c \in Menus, NEW d \in Dish, NEW x \in Price
  PROVE  With(c, d, x) \in Menus /\ DOMAIN With(c, d, x) = DOMAIN c \cup {d}
<1>1. DOMAIN c \subseteq Dish /\ c \in [DOMAIN c -> Price]
  BY MenuMeans
<1>2. With(c, d, x) \in [DOMAIN c \cup {d} -> Price] /\ DOMAIN c \cup {d} \in SUBSET Dish
  BY <1>1 DEF With
<1> QED BY <1>2 DEF Menus

LEMMA MenuFinite ==
  ASSUME NEW c \in Menus
  PROVE  IsFiniteSet(DOMAIN c) /\ IntValued(c, DOMAIN c) /\ Subtotal(c) \in Int
<1>1. /\ DOMAIN c \subseteq Dish /\ c \in [DOMAIN c -> Price]
      /\ IsFiniteSet(Dish) /\ Price \subseteq Int
  BY MenuMeans, BillAssumption
<1>2. IsFiniteSet(DOMAIN c) /\ IntValued(c, DOMAIN c)
  BY <1>1, FS_Subset DEF IntValued
<1> QED BY <1>2, SumInt DEF Subtotal, SumFunction

LEMMA EmptyTables ==
  /\ Empty \in Menus /\ Empty \in PortionTables /\ Empty \in Seq(Person)
  /\ DOMAIN Empty = {} /\ NoWork \in Works /\ Unread \in Readings
<1>1. Empty = [x \in {} |-> 0] /\ DOMAIN Empty = {} /\ Empty \in Seq(Person)
  BY DEF Empty
<1>2. Empty \in Menus /\ Empty \in PortionTables
  <2>1. Empty \in [{} -> Price] /\ Empty \in [{} -> 0 .. MaxShares]
    BY <1>1
  <2> QED BY <2>1 DEF Menus, PortionTables
<1> QED BY <1>1, <1>2 DEF NoWork, Works, Unread, Readings

(* Kept keeps the portions of these dishes and people. *)
LEMMA KeptPortions ==
  ASSUME share \in PortionTables, NEW D, NEW P
  PROVE  Kept(D, P) \in PortionTables /\ DOMAIN Kept(D, P) \subseteq D \X P
<1>1. PICK K : K = {k \in DOMAIN share : k[1] \in D /\ k[2] \in P}
  OBVIOUS
<1>2. DOMAIN share \subseteq Dish \X Person /\ share \in [DOMAIN share -> 0 .. MaxShares]
  BY PortionsMean
<1>3. Kept(D, P) = [k \in K |-> share[k]]
  BY <1>1 DEF Kept, Restrict
<1>4. K \in SUBSET (Dish \X Person) /\ K \subseteq D \X P
  BY <1>1, <1>2
<1>5. [k \in K |-> share[k]] \in [K -> 0 .. MaxShares]
  BY <1>1, <1>2
<1> QED BY <1>3, <1>4, <1>5 DEF PortionTables

LEMMA PortionsWith ==
  ASSUME share \in PortionTables, NEW k \in Dish \X Person, NEW n \in 0 .. MaxShares
  PROVE  With(share, k, n) \in PortionTables /\ DOMAIN With(share, k, n) = DOMAIN share \cup {k}
<1>1. DOMAIN share \subseteq Dish \X Person /\ share \in [DOMAIN share -> 0 .. MaxShares]
  BY PortionsMean
<1>2. /\ With(share, k, n) \in [DOMAIN share \cup {k} -> 0 .. MaxShares]
      /\ DOMAIN share \cup {k} \in SUBSET (Dish \X Person)
  BY <1>1 DEF With
<1> QED BY <1>2 DEF PortionTables

LEMMA AppendPerson ==
  ASSUME people \in Seq(Person), IsInjective(people), NEW p \in Person, p \notin Listed
  PROVE  /\ Append(people, p) \in Seq(Person) /\ IsInjective(Append(people, p))
         /\ Range(Append(people, p)) = Listed \cup {p}
<1>0. /\ Len(people) \in Nat /\ Append(people, p) \in Seq(Person)
      /\ Len(Append(people, p)) = Len(people) + 1
      /\ \A i \in 1 .. Len(people) : Append(people, p)[i] = people[i]
      /\ Append(people, p)[Len(people) + 1] = p
  BY AppendProperties, LenProperties
<1>1. PICK n \in Nat, s \in Seq(Person) :
         /\ n = Len(people) /\ s = Append(people, p) /\ Len(s) = n + 1
         /\ \A i \in 1 .. n : s[i] = people[i]
         /\ s[n + 1] = p
  BY <1>0
<1>2. DOMAIN people = 1 .. n /\ DOMAIN s = 1 .. n + 1
  BY <1>1, LenProperties
<1>3. \A i \in 1 .. n : people[i] # p
  BY <1>2 DEF Listed, Range
<1>4. IsInjective(s)
  BY <1>1, <1>2, <1>3 DEF IsInjective
<1>5. Range(s) = Listed \cup {p}
  BY <1>1, <1>2 DEF Listed, Range
<1> QED BY <1>1, <1>4, <1>5

LEMMA RemovePerson ==
  ASSUME people \in Seq(Person), IsInjective(people), NEW i \in DOMAIN people
  PROVE  /\ RemoveAt(people, i) \in Seq(Person) /\ IsInjective(RemoveAt(people, i))
         /\ Range(RemoveAt(people, i)) = Listed \ {people[i]}
<1>1. PICK n \in Nat : n = Len(people) /\ DOMAIN people = 1 .. n /\ i \in 1 .. n
  BY LenProperties
<1>2. \A j \in 1 .. n : people[j] \in Person
  BY <1>1, ElementOfSeq
<1>3. PICK a \in Seq(Person) : /\ a = SubSeq(people, 1, i - 1) /\ Len(a) = i - 1
                               /\ \A j \in 1 .. i - 1 : a[j] = people[j]
  <2>1. /\ 1 \in Int /\ i - 1 \in Int /\ \A j \in 1 .. i - 1 : people[j] \in Person
    BY <1>1, <1>2
  <2>2. /\ SubSeq(people, 1, i - 1) \in Seq(Person)
        /\ Len(SubSeq(people, 1, i - 1)) = IF 1 <= i - 1 THEN (i - 1) - 1 + 1 ELSE 0
        /\ \A j \in 1 .. (i - 1) - 1 + 1 : SubSeq(people, 1, i - 1)[j] = people[1 + j - 1]
    BY ONLY <2>1, SubSeqProperties
  <2>3. PICK a \in Seq(Person) : a = SubSeq(people, 1, i - 1)
    BY <2>2
  <2>4. ASSUME NEW j \in 1 .. i - 1 PROVE a[j] = people[j]
    <3>1. 1 + j - 1 = j /\ j \in 1 .. (i - 1) - 1 + 1
      BY <1>1
    <3>2. a[j] = people[1 + j - 1]
      BY <2>2, <2>3, <3>1
    <3> QED BY <3>1, <3>2
  <2>5. Len(a) = i - 1
    BY <1>1, <2>2, <2>3
  <2> QED BY <2>3, <2>4, <2>5
<1>4. PICK b \in Seq(Person) : /\ b = SubSeq(people, i + 1, n) /\ Len(b) = n - i
                               /\ \A j \in 1 .. n - i : b[j] = people[i + j]
  <2>1. /\ i + 1 \in Int /\ n \in Int /\ \A j \in i + 1 .. n : people[j] \in Person
    BY <1>1, <1>2
  <2>2. /\ SubSeq(people, i + 1, n) \in Seq(Person)
        /\ Len(SubSeq(people, i + 1, n)) = IF i + 1 <= n THEN n - (i + 1) + 1 ELSE 0
        /\ \A j \in 1 .. n - (i + 1) + 1 : SubSeq(people, i + 1, n)[j] = people[(i + 1) + j - 1]
    BY ONLY <2>1, SubSeqProperties
  <2>3. PICK b \in Seq(Person) : b = SubSeq(people, i + 1, n)
    BY <2>2
  <2>4. ASSUME NEW j \in 1 .. n - i PROVE b[j] = people[i + j]
    <3>1. (i + 1) + j - 1 = i + j /\ j \in 1 .. n - (i + 1) + 1
      BY <1>1
    <3>2. b[j] = people[(i + 1) + j - 1]
      BY <2>2, <2>3, <3>1
    <3> QED BY <3>1, <3>2
  <2>5. Len(b) = n - i
    BY <1>1, <2>2, <2>3
  <2> QED BY <2>3, <2>4, <2>5
<1>5. PICK s \in Seq(Person) :
        /\ s = RemoveAt(people, i) /\ Len(s) = n - 1
        /\ \A j \in 1 .. n - 1 : s[j] = IF j < i THEN people[j] ELSE people[j + 1]
  <2>1. PICK s : s = a \o b
    OBVIOUS
  <2>2. /\ s \in Seq(Person) /\ Len(s) = Len(a) + Len(b)
        /\ \A j \in 1 .. Len(a) + Len(b) : s[j] = IF j <= Len(a) THEN a[j] ELSE b[j - Len(a)]
    <3>1. a \in Seq(Person) /\ b \in Seq(Person)
      OBVIOUS
    <3> QED BY ONLY <2>1, <3>1, ConcatProperties
  <2>3. s = RemoveAt(people, i)
    BY <1>1, <1>3, <1>4, <2>1 DEF RemoveAt
  <2>4. Len(a) + Len(b) = n - 1
    BY SMTT(60), <1>1, <1>3, <1>4
  <2>5. ASSUME NEW j \in 1 .. n - 1 PROVE s[j] = IF j < i THEN people[j] ELSE people[j + 1]
    <3>1. s[j] = IF j <= i - 1 THEN a[j] ELSE b[j - (i - 1)]
      BY <1>3, <2>2, <2>4
    <3>2. CASE j < i
      <4>1. j \in 1 .. i - 1
        BY <1>1, <3>2
      <4> QED BY <1>1, <1>3, <3>1, <3>2, <4>1
    <3>3. CASE ~(j < i)
      <4>1. j - (i - 1) \in 1 .. n - i /\ i + (j - (i - 1)) = j + 1 /\ ~(j <= i - 1)
        BY <1>1, <3>3
      <4> QED BY <1>4, <3>1, <3>3, <4>1
    <3> QED BY <3>2, <3>3
  <2> QED BY <2>2, <2>3, <2>4, <2>5
<1>6. DOMAIN s = 1 .. n - 1
  BY <1>5, LenProperties
<1>7. \A j, k \in 1 .. n : people[j] = people[k] => j = k
  BY <1>1 DEF IsInjective
<1>8. IsInjective(s)
  <2> SUFFICES ASSUME NEW j \in 1 .. n - 1, NEW k \in 1 .. n - 1, s[j] = s[k] PROVE j = k
    BY <1>6 DEF IsInjective
  <2>1. j \in 1 .. n /\ k \in 1 .. n /\ j + 1 \in 1 .. n /\ k + 1 \in 1 .. n
    BY <1>1
  <2> QED BY <1>1, <1>5, <1>7, <2>1
<1>9. Range(s) = Listed \ {people[i]}
  <2>1. ASSUME NEW j \in 1 .. n - 1 PROVE s[j] \in Listed \ {people[i]}
    <3>1. PICK k \in 1 .. n : k # i /\ s[j] = people[k]
      <4>1. j \in 1 .. n /\ j + 1 \in 1 .. n
        BY <1>1
      <4>2. CASE j < i
        BY <1>1, <1>5, <4>1, <4>2
      <4>3. CASE ~(j < i)
        <5>1. j + 1 # i /\ s[j] = people[j + 1]
          BY <1>1, <1>5, <4>3
        <5> QED BY <4>1, <5>1
      <4> QED BY <4>2, <4>3
    <3>2. people[k] # people[i]
      BY <1>1, <1>7, <3>1
    <3> QED BY <1>1, <3>1, <3>2 DEF Listed, Range
  <2>2. ASSUME NEW j \in 1 .. n, j # i PROVE \E k \in 1 .. n - 1 : s[k] = people[j]
    <3>1. CASE j < i
      <4>1. j \in 1 .. n - 1
        BY <1>1, <3>1
      <4> QED BY <1>5, <3>1, <4>1
    <3>2. CASE j > i
      <4>1. j - 1 \in 1 .. n - 1 /\ ~(j - 1 < i) /\ (j - 1) + 1 = j
        BY <1>1, <3>2
      <4> QED BY <1>5, <4>1
    <3> QED BY <1>1, <2>2, <3>1, <3>2
  <2>3. Range(s) \subseteq Listed \ {people[i]}
    BY <1>6, <2>1 DEF Range
  <2>4. ASSUME NEW q \in Listed, q # people[i] PROVE q \in Range(s)
    <3>1. PICK j \in 1 .. n : q = people[j]
      BY <1>1 DEF Listed, Range
    <3>2. PICK k \in 1 .. n - 1 : s[k] = people[j]
      BY <2>2, <2>4, <3>1
    <3> QED BY <1>6, <3>1, <3>2 DEF Range
  <2> QED BY <2>3, <2>4
<1> QED BY <1>5, <1>8, <1>9

-----------------------------------------------------------------------------
(* The steps.                                                                *)

LEMMA InvInit == Init => Inv
<1> SUFFICES ASSUME Init PROVE Inv
  OBVIOUS
<1>1. PICK c \in Contents :
        /\ price = c.price /\ people = c.people /\ share = c.share /\ paid = c.paid
        /\ subtotal = Subtotal(c.price) /\ token = c.token /\ lists = {}
        /\ links = {c.token} \ {NoToken} /\ rotated = {}
        /\ drawn = DOMAIN c.price \cup Range(c.people)
  BY DEF Init
<1>2. /\ pc = [e \in Editor |-> "idle"] /\ work = [e \in Editor |-> NoWork]
      /\ rpc = [r \in Reader |-> "idle"] /\ read = [r \in Reader |-> Unread]
      /\ owed = [r \in Reader |-> Empty]
  BY DEF Init
<1>3. /\ DOMAIN price \subseteq Dish /\ price \in [DOMAIN price -> Price]
      /\ people \in Seq(Person) /\ IsInjective(people)
      /\ DOMAIN share \subseteq (DOMAIN price) \X Range(people)
      /\ share \in [DOMAIN share -> 0 .. MaxShares]
      /\ paid \in Paid \cup {0} /\ token \in Token \cup {NoToken, Legacy}
  BY <1>1, BillAssumption DEF WellFormed
<1>4. Range(people) \subseteq Person
  BY <1>3, RangeOfSeq
<1>5. RowsOK
  <2>1. price \in Menus /\ share \in PortionTables
    BY <1>3, <1>4, MenuMeans, PortionsMean
  <2> QED BY <1>1, <1>3, <2>1, MenuFinite DEF RowsOK, Listed
<1>6. LinksOK
  BY <1>1, <1>3 DEF LinksOK
<1>7. DrawnOK
  <2>1. \A e \in Editor : DOMAIN work[e].new = {}
    BY <1>2, EmptyTables DEF NoWork
  <2> QED BY <1>1, <1>3, <1>4, <2>1 DEF DrawnOK, Listed
<1>8. EditorsOK
  BY <1>2, EmptyTables DEF EditorsOK
<1>9. ReadersOK
  BY <1>2, EmptyTables DEF ReadersOK
<1> QED BY <1>5, <1>6, <1>7, <1>8, <1>9 DEF Inv

LEMMA LeaveStep ==
  ASSUME EditorsOK, NEW e \in Editor, Leave(e)
  PROVE  EditorsOK' /\ work'[e] = NoWork /\ \A x \in Editor : x # e => work'[x] = work[x]
<1>1. NoWork \in Works
  BY EmptyTables
<1> QED BY <1>1 DEF EditorsOK, Leave, Goto

(* The dishes that exist, or that an editor is about to insert, were drawn. *)
LEMMA EditorStepInv ==
  ASSUME Inv, NEW e \in Editor, EditorStep(e)
  PROVE  RowsOK' /\ DrawnOK' /\ EditorsOK'
<1> USE DEF Inv
<1>0. Price \subseteq Int
  BY BillAssumption
<1>1. ASSUME NEW d \in Dish, NEW c \in Price, AddDish(e, d, c) PROVE RowsOK' /\ DrawnOK' /\ EditorsOK'
  <2>1. price' \in Menus /\ DOMAIN price' = DOMAIN price \cup {d}
    BY <1>1, MenuWith DEF AddDish, RowsOK
  <2>2. RowsOK'
    BY <1>1, <2>1 DEF AddDish, RowsOK, Listed
  <2>3. EditorsOK' /\ \A x \in Editor : work'[x].new = work[x].new
    BY <1>1 DEF AddDish, EditorsOK, Goto, Works
  <2>4. DrawnOK'
    BY <1>1, <2>1, <2>3 DEF AddDish, DrawnOK, Listed
  <2> QED BY <2>2, <2>3, <2>4
<1>2. ASSUME NEW d \in Dish, NEW c \in Price, UpdateDish(e, d, c) PROVE RowsOK' /\ DrawnOK' /\ EditorsOK'
  <2>1. price' \in Menus /\ DOMAIN price' = DOMAIN price
    <3>1. price' = With(price, d, c) /\ d \in DOMAIN price
      BY <1>2 DEF UpdateDish
    <3>2. DOMAIN price \cup {d} = DOMAIN price
      BY <3>1
    <3> QED BY <3>1, <3>2, MenuWith DEF RowsOK
  <2>2. RowsOK'
    BY <1>2, <2>1 DEF UpdateDish, RowsOK, Listed
  <2>3. EditorsOK' /\ \A x \in Editor : work'[x].new = work[x].new
    BY <1>2 DEF UpdateDish, EditorsOK, Goto, Works
  <2>4. DrawnOK'
    BY <1>2, <2>1, <2>3 DEF UpdateDish, DrawnOK, Listed
  <2> QED BY <2>2, <2>3, <2>4
<1>3. CASE Recalculate(e)
  <2>1. UNCHANGED <<price, people, share, subtotal, paid, lists, drawn>>
    BY <1>3 DEF Recalculate, rowVars
  <2>2. EditorsOK' /\ \A x \in Editor : DOMAIN work'[x].new \subseteq DOMAIN work[x].new
    <3>1. CASE Leave(e)
      BY <3>1, LeaveStep, EmptyTables DEF NoWork
    <3>2. CASE work' = [work EXCEPT ![e].sum = Subtotal(price)] /\ Goto(e, "write")
      <4>1. Subtotal(price) \in Int
        BY MenuFinite DEF RowsOK
      <4> QED BY <3>2, <4>1 DEF EditorsOK, Goto, Works
    <3> QED BY <1>3, <3>1, <3>2 DEF Recalculate
  <2> QED BY <2>1, <2>2 DEF RowsOK, DrawnOK, Listed
<1>4. CASE WriteSubtotal(e)
  <2>1. Leave(e) /\ UNCHANGED <<price, people, share, paid, lists, drawn>> /\ subtotal' = work[e].sum
    BY <1>4 DEF WriteSubtotal
  <2>2. work[e].sum \in Int
    BY DEF EditorsOK, Works
  <2>3. EditorsOK' /\ \A x \in Editor : DOMAIN work'[x].new \subseteq DOMAIN work[x].new
    BY <2>1, LeaveStep, EmptyTables DEF NoWork
  <2> QED BY <2>1, <2>2, <2>3 DEF RowsOK, DrawnOK, Listed
<1>5. ASSUME NEW D \in SUBSET (Dish \ drawn), NEW new \in [D -> Price], BeginReplace(e, new)
      PROVE RowsOK' /\ DrawnOK' /\ EditorsOK'
  <2>1. new \in Menus /\ DOMAIN new = D
    BY MenuMeans
  <2>2. DOMAIN price \subseteq Dish
    BY MenuMeans DEF RowsOK
  <2>3. UNCHANGED <<price, people, share, subtotal, paid, lists>> /\ drawn' = drawn \cup D
    BY <1>5, <2>1 DEF BeginReplace, rowVars
  <2>4. EditorsOK' /\ \A x \in Editor : work'[x].new = IF x = e THEN new ELSE work[x].new
    BY ZenonT(60), <1>5, <2>1, <2>2 DEF BeginReplace, EditorsOK, Goto, Works
  <2>5. RowsOK'
    BY <2>3 DEF RowsOK, Listed
  <2>6. DrawnOK'
    BY <2>1, <2>3, <2>4 DEF DrawnOK, Listed
  <2> QED BY <2>4, <2>5, <2>6
<1>6. CASE CommitReplace(e)
  <2>1. PICK new, kept : new = work[e].new /\ kept = DOMAIN price \ work[e].seen
    OBVIOUS
  <2>2. new \in Menus /\ DOMAIN new \subseteq drawn /\ kept \subseteq DOMAIN price /\ price \in Menus
    BY <2>1 DEF EditorsOK, Works, DrawnOK, RowsOK
  <2>3. /\ price' = [d \in kept \cup DOMAIN new |-> IF d \in DOMAIN new THEN new[d] ELSE price[d]]
        /\ share' = Kept(kept, Listed) /\ subtotal' = Subtotal(new)
        /\ lists' = lists \cup {DOMAIN new} /\ Leave(e)
        /\ UNCHANGED <<people, paid, drawn>>
    BY <1>6, <2>1 DEF CommitReplace
  <2>4. price' \in Menus /\ DOMAIN price' = kept \cup DOMAIN new
    <3>1. PICK m : m = [d \in kept \cup DOMAIN new |-> IF d \in DOMAIN new THEN new[d] ELSE price[d]]
      OBVIOUS
    <3>2. m \in Menus /\ DOMAIN m = kept \cup DOMAIN new
      BY <2>2, <3>1, MenuUnion
    <3> QED BY <2>3, <3>1, <3>2
  <2>5. share' \in PortionTables /\ DOMAIN share' \subseteq kept \X Listed
    BY <2>3, KeptPortions DEF RowsOK
  <2>6. subtotal' \in Int
    BY <2>2, <2>3, MenuFinite
  <2>7. EditorsOK' /\ \A x \in Editor : DOMAIN work'[x].new \subseteq DOMAIN work[x].new
    BY <2>3, LeaveStep, EmptyTables DEF NoWork
  <2>8. RowsOK'
    BY <2>3, <2>4, <2>5, <2>6 DEF RowsOK, Listed
  <2>9. DrawnOK'
    BY <2>2, <2>3, <2>4, <2>7 DEF DrawnOK, Listed
  <2> QED BY <2>7, <2>8, <2>9
<1>7. CASE EditorFails(e)
  <2>1. Leave(e) /\ UNCHANGED <<price, people, share, subtotal, paid, lists, drawn>>
    BY <1>7 DEF EditorFails, rowVars
  <2>2. EditorsOK' /\ \A x \in Editor : DOMAIN work'[x].new \subseteq DOMAIN work[x].new
    BY <2>1, LeaveStep, EmptyTables DEF NoWork
  <2> QED BY <2>1, <2>2 DEF RowsOK, DrawnOK, Listed
<1> QED BY <1>1, <1>2, <1>3, <1>4, <1>5, <1>6, <1>7 DEF EditorStep

LEMMA RouteStepInv ==
  ASSUME Inv,
         \/ \E d \in Dish : DeleteDish(d)
         \/ \E p \in Person : AddPerson(p) \/ DeletePerson(p)
         \/ \E d \in Dish, p \in Person, n \in 0 .. MaxShares : UpsertPortion(d, p, n)
         \/ \E c \in Paid : UpdateSession(c)
  PROVE  RowsOK' /\ DrawnOK' /\ EditorsOK'
<1> USE DEF Inv
<1>0. UNCHANGED <<pc, work>>
  BY DEF DeleteDish, AddPerson, DeletePerson, UpsertPortion, UpdateSession, editorVars
<1>1. EditorsOK'
  BY <1>0 DEF EditorsOK
<1>2. ASSUME NEW d \in Dish, DeleteDish(d) PROVE RowsOK' /\ DrawnOK'
  <2>1. PICK rest : rest = DOMAIN price \ {d}
    OBVIOUS
  <2>2. /\ price' = Restrict(price, rest) /\ share' = Kept(rest, Listed)
        /\ UNCHANGED <<people, subtotal, paid, lists, drawn>>
    BY <1>2, <2>1 DEF DeleteDish
  <2>3. price' \in Menus /\ DOMAIN price' = rest
    BY <2>1, <2>2, MenuRestrict DEF RowsOK
  <2>4. share' \in PortionTables /\ DOMAIN share' \subseteq rest \X Listed
    BY <2>2, KeptPortions DEF RowsOK
  <2> QED BY <1>0, <2>1, <2>2, <2>3, <2>4 DEF RowsOK, DrawnOK, Listed
<1>3. ASSUME NEW p \in Person, AddPerson(p) PROVE RowsOK' /\ DrawnOK'
  <2>1. p \notin Listed
    BY <1>3 DEF AddPerson, DrawnOK
  <2>2. /\ people' = Append(people, p) /\ drawn' = drawn \cup {p}
        /\ UNCHANGED <<price, share, subtotal, paid, lists>>
    BY <1>3 DEF AddPerson
  <2>3. people' \in Seq(Person) /\ IsInjective(people)' /\ Listed' = Listed \cup {p}
    <3>1. PICK s : s = Append(people, p)
      OBVIOUS
    <3>2. s \in Seq(Person) /\ IsInjective(s) /\ Range(s) = Listed \cup {p}
      BY <2>1, <3>1, AppendPerson DEF RowsOK
    <3>3. people' = s
      BY <2>2, <3>1
    <3> QED BY <3>2, <3>3 DEF Listed
  <2>4. RowsOK'
    BY <2>2, <2>3 DEF RowsOK
  <2>5. DrawnOK'
    BY <1>0, <2>2, <2>3 DEF DrawnOK
  <2> QED BY <2>4, <2>5
<1>4. ASSUME NEW p \in Person, DeletePerson(p) PROVE RowsOK' /\ DrawnOK'
  <2>1. PICK i \in DOMAIN people : people[i] = p /\ people' = RemoveAt(people, i)
    BY <1>4 DEF DeletePerson
  <2>2. /\ share' = Kept(DOMAIN price, Listed \ {p})
        /\ UNCHANGED <<price, subtotal, paid, lists, drawn>>
    BY <1>4 DEF DeletePerson
  <2>3. people' \in Seq(Person) /\ IsInjective(people)' /\ Listed' = Listed \ {p}
    <3>1. PICK s : s = RemoveAt(people, i)
      OBVIOUS
    <3>2. s \in Seq(Person) /\ IsInjective(s) /\ Range(s) = Listed \ {p}
      BY <2>1, <3>1, RemovePerson DEF RowsOK
    <3>3. people' = s
      BY <2>1, <3>1
    <3> QED BY <3>2, <3>3 DEF Listed
  <2>4. share' \in PortionTables /\ DOMAIN share' \subseteq (DOMAIN price) \X (Listed \ {p})
    BY <2>2, KeptPortions DEF RowsOK
  <2>5. RowsOK'
    BY <2>2, <2>3, <2>4 DEF RowsOK
  <2>6. DrawnOK'
    BY <1>0, <2>2, <2>3 DEF DrawnOK
  <2> QED BY <2>5, <2>6
<1>5. ASSUME NEW d \in Dish, NEW p \in Person, NEW n \in 0 .. MaxShares, UpsertPortion(d, p, n)
      PROVE  RowsOK' /\ DrawnOK'
  <2>1. /\ share' = With(share, <<d, p>>, n) /\ d \in DOMAIN price /\ p \in Listed
        /\ UNCHANGED <<price, people, subtotal, paid, lists, drawn>>
    BY <1>5 DEF UpsertPortion
  <2>2. share' \in PortionTables /\ DOMAIN share' = DOMAIN share \cup {<<d, p>>}
    <3>1. <<d, p>> \in Dish \X Person
      OBVIOUS
    <3> QED BY <2>1, <3>1, PortionsWith DEF RowsOK
  <2> QED BY <1>0, <2>1, <2>2 DEF RowsOK, DrawnOK, Listed
<1>6. ASSUME NEW c \in Paid, UpdateSession(c) PROVE RowsOK' /\ DrawnOK'
  <2>1. paid' \in Paid /\ UNCHANGED <<price, people, share, subtotal, lists, drawn>>
    BY <1>6 DEF UpdateSession
  <2> QED BY <1>0, <2>1 DEF RowsOK, DrawnOK, Listed
<1> QED BY <1>1, <1>2, <1>3, <1>4, <1>5, <1>6

LEMMA LinkStepInv ==
  ASSUME Inv, NEW t \in Token, CreateLink(t) \/ RotateLink(t)
  PROVE  RowsOK' /\ LinksOK' /\ DrawnOK' /\ EditorsOK'
<1> USE DEF Inv
<1>1. UNCHANGED <<price, people, share, subtotal, paid, lists, pc, work>>
  BY DEF CreateLink, RotateLink, rowVars, editorVars
<1>2. drawn' = drawn \/ drawn' = drawn \cup {t}
  BY DEF CreateLink, RotateLink, NewLink
<1>3. RowsOK' /\ DrawnOK' /\ EditorsOK'
  BY <1>1, <1>2 DEF RowsOK, DrawnOK, EditorsOK, Listed
<1>4. LinksOK'
  BY DEF LinksOK, CreateLink, RotateLink, NewLink
<1> QED BY <1>3, <1>4

(* What a reader has read when it reads the portions. *)
LEMMA ReadIsBill ==
  ASSUME NEW v \in Readings
  PROVE  BillRead(Dish, Person, v.price, v.share, v.people, v.paid)
<1>1. v.price \in Menus /\ v.people \in Seq(Person) /\ v.share \in PortionTables /\ v.paid \in Nat
  BY DEF Readings
<1>2. DOMAIN v.price \subseteq Dish /\ IntValued(v.price, DOMAIN v.price)
  BY <1>1, MenuMeans, MenuFinite
<1>3. DOMAIN v.share \subseteq Dish \X Person /\ \A k \in DOMAIN v.share : v.share[k] \in Nat
  <2>1. PICK s : s = v.share /\ DOMAIN s \subseteq Dish \X Person /\ s \in [DOMAIN s -> 0 .. MaxShares]
    BY <1>1, PortionsMean
  <2> QED BY <2>1, BillAssumption
<1> QED BY <1>1, <1>2, <1>3, BillAssumption DEF BillRead

LEMMA ReaderStepInv ==
  ASSUME Inv, NEW r \in Reader, ReaderStep(r)
  PROVE  Inv'
<1> USE DEF Inv
<1>1. UNCHANGED <<price, people, share, subtotal, paid, lists, token, links, rotated, drawn, pc, work>>
  BY DEF ReaderStep, ReadBill, ReadDishes, ReadPeople, ReadPortions, Move, rowVars, linkVars, editorVars
<1>2. RowsOK' /\ LinksOK' /\ DrawnOK' /\ EditorsOK'
  BY <1>1 DEF RowsOK, LinksOK, DrawnOK, EditorsOK, Listed
<1>3. /\ read[r] \in Readings /\ paid \in Nat /\ price \in Menus /\ people \in Seq(Person)
      /\ share \in PortionTables
  BY BillAssumption DEF RowsOK, ReadersOK
<1>4. CASE ReadBill(r) \/ ReadDishes(r) \/ ReadPeople(r)
  <2>1. PICK v \in Readings, l \in {"dishes", "people", "portions"} :
          read' = [read EXCEPT ![r] = v] /\ rpc' = [rpc EXCEPT ![r] = l] /\ owed' = owed
    <3>1. CASE ReadBill(r)
      <4>1. [read[r] EXCEPT !.paid = paid] \in Readings
        BY <1>3 DEF Readings
      <4> QED BY <3>1, <4>1 DEF ReadBill, Move
    <3>2. CASE ReadDishes(r)
      <4>1. [read[r] EXCEPT !.price = price] \in Readings
        BY <1>3 DEF Readings
      <4> QED BY <3>2, <4>1 DEF ReadDishes, Move
    <3>3. CASE ReadPeople(r)
      <4>1. [read[r] EXCEPT !.people = people] \in Readings
        BY <1>3 DEF Readings
      <4> QED BY <3>3, <4>1 DEF ReadPeople, Move
    <3> QED BY <1>4, <3>1, <3>2, <3>3
  <2>2. ReadersOK'
    BY <2>1 DEF ReadersOK
  <2> QED BY <1>2, <2>2
<1>5. CASE ReadPortions(r)
  <2>1. PICK v \in Readings : v = [read[r] EXCEPT !.share = share]
    BY <1>3 DEF Readings
  <2>2. read' = [read EXCEPT ![r] = v] /\ rpc' = [rpc EXCEPT ![r] = "done"] /\ read'[r] = v
    BY <1>5, <2>1 DEF ReadPortions, Move, ReadersOK
  <2>3. PICK amounts \in Compute(v.price, v.share, v.people, v.paid) :
          owed' = [owed EXCEPT ![r] = amounts]
    BY <1>5, <2>2 DEF ReadPortions, Tell
  <2>4. /\ read' \in [Reader -> Readings] /\ DOMAIN owed' = Reader
        /\ rpc' \in [Reader -> {"idle", "dishes", "people", "portions", "done"}]
    BY <2>2, <2>3 DEF ReadersOK
  <2>5. ASSUME NEW q \in Reader, rpc'[q] = "done"
        PROVE  owed'[q] \in Compute(read'[q].price, read'[q].share, read'[q].people, read'[q].paid)
    <3>1. CASE q = r
      <4>1. owed'[q] = amounts /\ read'[q] = v
        BY <2>2, <2>3, <3>1 DEF ReadersOK
      <4> QED BY <2>3, <4>1
    <3>2. CASE q # r
      <4>1. owed'[q] = owed[q] /\ read'[q] = read[q] /\ rpc[q] = "done"
        BY <2>2, <2>3, <2>5, <3>2 DEF ReadersOK
      <4> QED BY <4>1 DEF ReadersOK
    <3> QED BY <3>1, <3>2
  <2>6. ReadersOK'
    BY <2>4, <2>5 DEF ReadersOK
  <2> QED BY <1>2, <2>6
<1> QED BY <1>4, <1>5 DEF ReaderStep

LEMMA InvStep == Inv /\ [Next]_vars => Inv'
<1> SUFFICES ASSUME Inv, [Next]_vars PROVE Inv'
  OBVIOUS
<1> USE DEF Inv
<1>1. CASE \/ \E e \in Editor : EditorStep(e)
           \/ \E d \in Dish : DeleteDish(d)
           \/ \E p \in Person : AddPerson(p) \/ DeletePerson(p)
           \/ \E d \in Dish, p \in Person, n \in 0 .. MaxShares : UpsertPortion(d, p, n)
           \/ \E c \in Paid : UpdateSession(c)
  <2>1. RowsOK' /\ DrawnOK' /\ EditorsOK'
    BY <1>1, EditorStepInv, RouteStepInv
  <2>2. UNCHANGED <<token, links, rotated, rpc, read, owed>>
    <3>1. CASE \E e \in Editor : EditorStep(e)
      BY <3>1 DEF EditorStep, AddDish, UpdateDish, Recalculate, WriteSubtotal, BeginReplace,
                  CommitReplace, EditorFails, linkVars, readerVars
    <3>2. CASE ~ \E e \in Editor : EditorStep(e)
      BY <1>1, <3>2 DEF DeleteDish, AddPerson, DeletePerson, UpsertPortion, UpdateSession, linkVars, readerVars
    <3> QED BY <3>1, <3>2
  <2>3. LinksOK' /\ ReadersOK'
    BY <2>2 DEF LinksOK, ReadersOK
  <2> QED BY <2>1, <2>3
<1>2. CASE \E t \in Token : CreateLink(t) \/ RotateLink(t)
  <2>1. RowsOK' /\ LinksOK' /\ DrawnOK' /\ EditorsOK'
    BY <1>2, LinkStepInv
  <2>2. UNCHANGED <<rpc, read, owed>>
    BY <1>2 DEF CreateLink, RotateLink, readerVars
  <2>3. ReadersOK'
    BY <2>2 DEF ReadersOK
  <2> QED BY <2>1, <2>3
<1>3. CASE \E r \in Reader : ReaderStep(r)
  BY <1>3, ReaderStepInv
<1>4. CASE UNCHANGED vars
  BY <1>4 DEF vars, rowVars, linkVars, editorVars, readerVars, RowsOK, LinksOK, DrawnOK, EditorsOK,
              ReadersOK, Listed
<1> QED BY <1>1, <1>2, <1>3, <1>4 DEF Next

-----------------------------------------------------------------------------
(* The theorems.                                                             *)

LEMMA InvIsTypeOK == Inv => TypeOK
<1> SUFFICES ASSUME Inv PROVE TypeOK
  OBVIOUS
<1>1. WellFormed([price |-> price, people |-> people, share |-> share, paid |-> paid, token |-> token])
  <2>1. /\ DOMAIN price \subseteq Dish /\ price \in [DOMAIN price -> Price]
        /\ share \in [DOMAIN share -> 0 .. MaxShares]
    BY MenuMeans, PortionsMean DEF Inv, RowsOK
  <2> QED BY <2>1 DEF Inv, RowsOK, LinksOK, WellFormed, Listed
<1> QED BY <1>1 DEF Inv, RowsOK, LinksOK, DrawnOK, EditorsOK, ReadersOK, TypeOK, Listed

LEMMA BillInvariant == Spec => []Inv
BY InvInit, InvStep, PTL DEF Spec

(***************************************************************************)
(* The tables never hold a portion of a dish or a person that the bill     *)
(* does not have, the order of the people never lists one of them twice,   *)
(* and no two dishes or people ever get the same id, whatever routes run   *)
(* concurrently (the foreign keys and statements of store.go).             *)
(***************************************************************************)
THEOREM TypeTheorem == Spec => []TypeOK
BY BillInvariant, InvIsTypeOK, PTL

(***************************************************************************)
(* Every breakdown is largest-remainder rounding of the exact amounts of   *)
(* what it has read, also when edits between its reads have torn it        *)
(* (split.Compute, called by the breakdown and the public share view).     *)
(***************************************************************************)
THEOREM FairTheorem == Spec => []AmountsAreFair
<1>1. Inv => AmountsAreFair
  <2> SUFFICES ASSUME Inv, NEW r \in Reader, Told(r) PROVE FairlyRounded(r)
    BY DEF AmountsAreFair
  <2>1. PICK v, a : v = read[r] /\ a = owed[r]
    OBVIOUS
  <2>2. v \in Readings /\ a \in Compute(v.price, v.share, v.people, v.paid)
    BY <2>1 DEF Inv, ReadersOK, Told
  <2>3. PICK num, den : num = Num(v.price, v.share, v.people, v.paid) /\ den = Den(v.price, v.share)
    OBVIOUS
  <2>4. PICK who, up : who = Range(v.people) /\ up = {p \in who : a[p] * den > num[p]}
    OBVIOUS
  <2>5. DOMAIN num = who
    BY <2>3, <2>4 DEF Num
  <2>6. BillRead(Dish, Person, v.price, v.share, v.people, v.paid)
    BY <2>2, ReadIsBill
  <2>7. /\ DOMAIN a = who
        /\ \A p \in who : -den < a[p] * den - num[p] /\ a[p] * den - num[p] < den
        /\ \A p \in up, q \in who \ up : (num[p] % den) >= (num[q] % den)
        /\ 2 * (SumFunctionOnSet(a, who) * den - SumFunctionOnSet(num, who)) \in -den .. den
    BY <2>2, <2>3, <2>4, <2>6, ComputeIsFair
  <2>8. Total(r) = SumFunctionOnSet(a, who) /\ SumFunction(num) = SumFunctionOnSet(num, who)
    BY <2>1, <2>5, <2>7 DEF Total, SumFunction
  <2> QED BY <2>1, <2>3, <2>4, <2>5, <2>7, <2>8 DEF FairlyRounded, Seen
<1> QED BY <1>1, BillInvariant, PTL

(***************************************************************************)
(* The amounts of a breakdown of the bill as it is add up to the total     *)
(* paid when every dish has its takers and the dishes cost something       *)
(* (split.Compute; docs/design_decisions.md).                              *)
(***************************************************************************)
THEOREM AddsUpTheorem == Spec => []BreakdownAddsUp
<1>1. Inv => BreakdownAddsUp
  <2> SUFFICES ASSUME Inv, NEW r \in Reader, Told(r),
                      Seen(r) = [price |-> price, people |-> people, share |-> share, paid |-> paid],
                      UnassignedDishes(price, share) = {}, Subtotal(price) > 0
               PROVE  Total(r) = paid
    BY DEF BreakdownAddsUp
  <2>1. PICK v, a : v = read[r] /\ a = owed[r]
    OBVIOUS
  <2>2. v \in Readings /\ a \in Compute(v.price, v.share, v.people, v.paid)
    BY <2>1 DEF Inv, ReadersOK, Told
  <2>3. v.price = price /\ v.people = people /\ v.share = share /\ v.paid = paid
    BY <2>1 DEF Seen
  <2>4. BillRead(Dish, Person, price, share, people, paid) /\ a \in Compute(price, share, people, paid)
    BY <2>2, <2>3, ReadIsBill
  <2>5. DOMAIN share \subseteq Dish \X Range(people)
    <3>1. DOMAIN price \subseteq Dish
      BY MenuMeans DEF Inv, RowsOK
    <3> QED BY <3>1 DEF Inv, RowsOK, Listed
  <2>6. SumFunctionOnSet(a, Range(people)) = paid
    BY <2>4, <2>5, ComputeAddsUp
  <2>7. DOMAIN a = Range(people)
    BY <2>4, ComputeDomain
  <2> QED BY <2>1, <2>6, <2>7 DEF Total, SumFunction
<1> QED BY <1>1, BillInvariant, PTL

(***************************************************************************)
(* However edits tear a breakdown, the people are never asked for more     *)
(* than the total paid, as long as no price is negative (split.Compute).   *)
(***************************************************************************)
THEOREM OverchargeTheorem == Spec => []NeverOvercharged
<1>1. Inv => NeverOvercharged
  <2> SUFFICES ASSUME Inv, NEW r \in Reader, Told(r), \A c \in Range(Seen(r).price) : c >= 0
               PROVE  Total(r) <= Seen(r).paid
    BY DEF NeverOvercharged
  <2>1. PICK v, a : v = read[r] /\ a = owed[r]
    OBVIOUS
  <2>2. v \in Readings /\ a \in Compute(v.price, v.share, v.people, v.paid)
    BY <2>1 DEF Inv, ReadersOK, Told
  <2>3. BillRead(Dish, Person, v.price, v.share, v.people, v.paid)
    BY <2>2, ReadIsBill
  <2>4. \A d \in DOMAIN v.price : v.price[d] >= 0
    BY <2>1 DEF Seen, Range
  <2>5. SumFunctionOnSet(a, Range(v.people)) <= v.paid
    BY <2>2, <2>3, <2>4, ComputeAddsUp
  <2>6. DOMAIN a = Range(v.people)
    BY <2>2, <2>3, ComputeDomain
  <2> QED BY <2>1, <2>5, <2>6 DEF Total, Seen, SumFunction
<1> QED BY <1>1, BillInvariant, PTL

-----------------------------------------------------------------------------
(* How far two breakdowns of the same bill can be apart.                     *)

AgreeUpToACent ==
  \A r, q \in Reader :
    Told(r) /\ Told(q) /\ Seen(r) = Seen(q)
    => \A p \in Range(Seen(r).people) : owed[r][p] - owed[q][p] \in -1 .. 1

AgreeWhenDetermined ==
  \A r, q \in Reader :
    /\ Told(r) /\ Told(q) /\ Seen(r) = Seen(q)
    /\ Determined(Seen(r).price, Seen(r).share, Seen(r).people, Seen(r).paid)
    => owed[r] = owed[q]

(***************************************************************************)
(* The owner's breakdown and the one behind the link, read from the same   *)
(* bill, differ by a cent at most, and not at all when the total is not    *)
(* half a cent from an integer and equal remainders occur only between     *)
(* people with the same portions, whose sums do not depend on the order of *)
(* their terms: this is what holds of "the two can never disagree"         *)
(* (split/calculate.go).                                                   *)
(***************************************************************************)
THEOREM AgreementTheorem == Spec => [](AgreeUpToACent /\ AgreeWhenDetermined)
<1>1. Inv => AgreeUpToACent /\ AgreeWhenDetermined
  <2> SUFFICES ASSUME Inv, NEW r \in Reader, NEW q \in Reader, Told(r), Told(q), Seen(r) = Seen(q)
               PROVE  /\ \A p \in Range(Seen(r).people) : owed[r][p] - owed[q][p] \in -1 .. 1
                      /\ Determined(Seen(r).price, Seen(r).share, Seen(r).people, Seen(r).paid)
                         => owed[r] = owed[q]
    BY DEF AgreeUpToACent, AgreeWhenDetermined
  <2>1. PICK v, a, b : v = read[r] /\ v = read[q] /\ a = owed[r] /\ b = owed[q]
    BY DEF Seen
  <2>2. /\ v \in Readings
        /\ a \in Compute(v.price, v.share, v.people, v.paid)
        /\ b \in Compute(v.price, v.share, v.people, v.paid)
    BY <2>1 DEF Inv, ReadersOK, Told
  <2>3. BillRead(Dish, Person, v.price, v.share, v.people, v.paid)
    BY <2>2, ReadIsBill
  <2>4. \A p \in Range(v.people) : a[p] - b[p] \in -1 .. 1
    BY <2>2, <2>3, ComputeVariesByACent
  <2>5. Determined(v.price, v.share, v.people, v.paid) => a = b
    BY <2>2, <2>3, ComputeIsDetermined
  <2> QED BY <2>1, <2>4, <2>5 DEF Seen
<1> QED BY <1>1, BillInvariant, PTL

-----------------------------------------------------------------------------
(* Replacing the dishes.                                                     *)

OneReplacement ==
  \A e, f \in Editor : pc[e] = "replace" /\ pc[f] = "replace" => e = f

(* What a replacement has not deleted yet, and will not, is on no list; and  *)
(* the dishes it is going to insert are new.                                 *)
ListsInv ==
  /\ OneListAtATime
  /\ \A e \in Editor :
       pc[e] = "replace" =>
         \A L \in lists : /\ L \cap DOMAIN price \subseteq work[e].seen
                         /\ L \cap DOMAIN work[e].new = {}

LEMMA ListsStep ==
  ASSUME Inv, OneReplacement, ListsInv, [Next]_vars
  PROVE  ListsInv'
<1> USE DEF Inv
<1>1. ASSUME UNCHANGED lists, DOMAIN price' \subseteq DOMAIN price,
             \A e \in Editor : pc'[e] = "replace" => pc[e] = "replace" /\ work'[e] = work[e]
      PROVE  ListsInv'
  BY <1>1 DEF ListsInv, OneListAtATime
<1>2. CASE UNCHANGED <<price, lists, pc, work>>
  BY <1>2, <1>1
<1>3. ASSUME NEW e \in Editor, EditorStep(e) PROVE ListsInv'
  <2>1. ASSUME NEW d \in Dish, NEW c \in Price, AddDish(e, d, c) PROVE ListsInv'
    <3>1. /\ DOMAIN price' = DOMAIN price \cup {d} /\ UNCHANGED lists
          /\ \A L \in lists : d \notin L
      BY <2>1, MenuWith DEF AddDish, RowsOK, DrawnOK
    <3>2. \A f \in Editor : pc'[f] = "replace" => pc[f] = "replace" /\ work'[f] = work[f]
      BY <2>1 DEF AddDish, Goto, EditorsOK
    <3> QED BY <3>1, <3>2 DEF ListsInv, OneListAtATime
  <2>2. ASSUME NEW d \in Dish, NEW c \in Price, UpdateDish(e, d, c) PROVE ListsInv'
    <3>0. /\ d \in DOMAIN price /\ price' = With(price, d, c) /\ UNCHANGED lists
          /\ price \in Menus
      BY <2>2 DEF UpdateDish, RowsOK
    <3>1. DOMAIN price' = DOMAIN price /\ UNCHANGED lists
      <4>1. DOMAIN With(price, d, c) = DOMAIN price \cup {d}
        BY <3>0, MenuWith
      <4> QED BY <3>0, <4>1
    <3>2. \A f \in Editor : pc'[f] = "replace" => pc[f] = "replace" /\ work'[f] = work[f]
      BY <2>2 DEF UpdateDish, Goto, EditorsOK
    <3> QED BY <3>1, <3>2, <1>1
  <2>3. CASE Recalculate(e) \/ WriteSubtotal(e) \/ EditorFails(e)
    <3>1. UNCHANGED <<price, lists>>
      BY <2>3 DEF Recalculate, WriteSubtotal, EditorFails, rowVars
    <3>2. \A f \in Editor : pc'[f] = "replace" => pc[f] = "replace" /\ work'[f] = work[f]
      BY <2>3 DEF Recalculate, WriteSubtotal, EditorFails, Leave, Goto, EditorsOK
    <3> QED BY <3>1, <3>2, <1>1
  <2>4. ASSUME NEW new, BeginReplace(e, new) PROVE ListsInv'
    <3>1. /\ UNCHANGED <<price, lists>> /\ DOMAIN new \cap drawn = {}
          /\ work'[e].seen = DOMAIN price /\ work'[e].new = new
      BY <2>4 DEF BeginReplace, rowVars, EditorsOK, Works
    <3>2. \A f \in Editor : f # e => pc'[f] = pc[f] /\ work'[f] = work[f]
      BY <2>4 DEF BeginReplace, Goto, EditorsOK
    <3>3. \A L \in lists : L \cap DOMAIN new = {}
      BY <3>1 DEF DrawnOK
    <3> QED BY <3>1, <3>2, <3>3 DEF ListsInv, OneListAtATime
  <2>5. CASE CommitReplace(e)
    <3>1. PICK seen, new : seen = work[e].seen /\ new = work[e].new
      OBVIOUS
    <3>2. /\ DOMAIN price' = (DOMAIN price \ seen) \cup DOMAIN new
          /\ lists' = lists \cup {DOMAIN new}
      BY <2>5, <3>1 DEF CommitReplace
    <3>3. \A L \in lists : L \cap DOMAIN price' = {}
      BY <2>5, <3>1, <3>2 DEF ListsInv, CommitReplace
    <3>4. OneListAtATime'
      BY <3>2, <3>3 DEF OneListAtATime
    <3>5. \A f \in Editor : pc'[f] # "replace"
      BY <2>5 DEF CommitReplace, Leave, Goto, EditorsOK, OneReplacement
    <3> QED BY <3>4, <3>5 DEF ListsInv
  <2> QED BY <1>3, <2>1, <2>2, <2>3, <2>4, <2>5 DEF EditorStep
<1>4. ASSUME NEW d \in Dish, DeleteDish(d) PROVE ListsInv'
  <2>1. DOMAIN price' \subseteq DOMAIN price /\ UNCHANGED <<lists, pc, work>>
    BY <1>4, MenuRestrict DEF DeleteDish, editorVars, RowsOK
  <2> QED BY <2>1, <1>1
<1>5. CASE \/ \E p \in Person : AddPerson(p) \/ DeletePerson(p)
           \/ \E d \in Dish, p \in Person, n \in 0 .. MaxShares : UpsertPortion(d, p, n)
           \/ \E c \in Paid : UpdateSession(c)
  BY <1>2, <1>5 DEF AddPerson, DeletePerson, UpsertPortion, UpdateSession, editorVars
<1>6. CASE \E t \in Token : CreateLink(t) \/ RotateLink(t)
  BY <1>2, <1>6 DEF CreateLink, RotateLink, rowVars, editorVars
<1>7. CASE \E r \in Reader : ReaderStep(r)
  BY <1>2, <1>7 DEF ReaderStep, ReadBill, ReadDishes, ReadPeople, ReadPortions, Move, rowVars, editorVars
<1>8. CASE UNCHANGED vars
  BY <1>2, <1>8 DEF vars, rowVars, editorVars
<1> QED BY <1>3, <1>4, <1>5, <1>6, <1>7, <1>8 DEF Next

(***************************************************************************)
(* When no two replacements of the dishes overlap, the bill never shows    *)
(* the dishes of two lists, whatever single dishes are added, edited and   *)
(* deleted around a replacement: the run BillMixed has no other cause than *)
(* two overlapping ReplaceDishes (store.go:383-437).                       *)
(***************************************************************************)
THEOREM ReplacementTheorem == Spec /\ []OneReplacement => []OneListAtATime
<1>1. Init => ListsInv
  BY DEF Init, ListsInv, OneListAtATime
<1>2. Inv /\ OneReplacement /\ ListsInv /\ [Next]_vars => ListsInv'
  BY ListsStep
<1>3. ListsInv => OneListAtATime
  BY DEF ListsInv
<1> QED BY <1>1, <1>2, <1>3, BillInvariant, PTL DEF Spec
=============================================================================
