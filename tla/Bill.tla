---------------------------------- MODULE Bill ----------------------------------
(***************************************************************************)
(* One bill in Postgres: its dishes, people, portions, totals and share    *)
(* link, the owner's routes that change them, and the breakdowns the owner *)
(* and the holders of the link ask for.                                    *)
(*                                                                         *)
(* The routes run concurrently (two tabs, a finishing scan).  A statement  *)
(* is one step when the rows it decides on are the rows it locks.          *)
(* ReplaceDishes and recalculateSubtotalForDish decide on a snapshot of    *)
(* the dishes, which other statements change before they commit: these     *)
(* take the snapshot in one step and write in a second one.  A breakdown   *)
(* is four reads, each of its own snapshot.                                *)
(*                                                                         *)
(* The owner check of a route and the expiry of a bill are left out: the   *)
(* bill belongs to the caller and stays.  So are names, notes and dates.   *)
(***************************************************************************)
EXTENDS Split, SequencesExt

CONSTANTS
  Dish, Person,   \* ids, never used twice
  Token,          \* share tokens: 128 random bits, never drawn twice
  NoToken,        \* share_token and view_token_hash are NULL
  Legacy,         \* only the hash of a token is stored
  Editor,         \* requests that change the bill in two steps
  Reader,         \* requests for a breakdown; each makes one
  Price,          \* bound: prices users enter
  Paid,           \* bound: totals users enter
  MaxShares,      \* bound: shares users enter
  Contents        \* bound: the bills to start from, and how many edits follow

(* What the tables can hold: portions refer to dishes and people of the bill. *)
WellFormed(c) ==
  /\ DOMAIN c.price \subseteq Dish /\ c.price \in [DOMAIN c.price -> Price]
  /\ c.people \in Seq(Person) /\ IsInjective(c.people)
  /\ DOMAIN c.share \subseteq (DOMAIN c.price) \X Range(c.people)
  /\ c.share \in [DOMAIN c.share -> 0 .. MaxShares]
  /\ c.paid \in Paid \cup {0}
  /\ c.token \in Token \cup {NoToken, Legacy}

ASSUME BillAssumption ==
  /\ IsFiniteSet(Dish) /\ IsFiniteSet(Person)
  /\ Price \subseteq Int /\ Paid \subseteq Nat /\ MaxShares \in Nat
  /\ NoToken \notin Token /\ Legacy \notin Token /\ Legacy # NoToken
  /\ \A c \in Contents : WellFormed(c)

VARIABLES
  price,     \* dishes: unit_price_cents by id
  people,    \* people: ids by sort_order
  share,     \* portions: shares by <<dish, person>>
  subtotal,  \* subtotal_cents
  paid,      \* total_paid_cents, 0 when it is NULL
  token,     \* what view_token_hash is the hash of
  links,     \* tokens whose links were given out
  rotated,   \* those the owner has replaced
  drawn,     \* ids of dishes and people, and tokens, used so far
  lists,     \* the dishes of every list that ReplaceDishes has inserted
  edits,     \* bound: edits that may still begin
  pc,        \* where an editor stands
  work,      \* what it carries from its first step to its second
  rpc,       \* where a reader stands
  read,      \* what it has read
  owed       \* what it was told

rowVars == <<price, people, share, subtotal, paid, lists>>
linkVars == <<token, links, rotated>>
editorVars == <<pc, work>>
readerVars == <<rpc, read, owed>>
vars == <<rowVars, linkVars, drawn, edits, editorVars, readerVars>>

Listed == Range(people)
Empty == <<>>      \* the function without arguments
NoWork == [dish |-> NoToken, sum |-> 0, seen |-> {}, new |-> Empty]
Unread == [price |-> Empty, people |-> Empty, share |-> Empty, paid |-> 0]

TypeOK ==
  /\ WellFormed([price |-> price, people |-> people, share |-> share, paid |-> paid, token |-> token])
  /\ subtotal \in Int
  /\ links \subseteq Token \cup {Legacy} /\ rotated \subseteq links
  /\ drawn \subseteq Dish \cup Person \cup Token
  /\ DOMAIN price \cup Listed \subseteq drawn
  /\ lists \subseteq SUBSET drawn
  /\ pc \in [Editor -> {"idle", "recalculate", "write", "replace"}]
  /\ rpc \in [Reader -> {"idle", "dishes", "people", "portions", "done"}]

Init ==
  \E c \in Contents :
    /\ price = c.price /\ people = c.people /\ share = c.share /\ paid = c.paid
    /\ subtotal = Subtotal(c.price)
    /\ token = c.token
    /\ lists = {}
    /\ links = {c.token} \ {NoToken} /\ rotated = {}
    /\ drawn = DOMAIN c.price \cup Range(c.people)
    /\ edits = c.edits
    /\ pc = [e \in Editor |-> "idle"]
    /\ work = [e \in Editor |-> NoWork]
    /\ rpc = [r \in Reader |-> "idle"]
    /\ read = [r \in Reader |-> Unread]
    /\ owed = [r \in Reader |-> Empty]

Goto(e, l) == pc' = [pc EXCEPT ![e] = l]

(* A row is inserted, or the row with this key is updated. *)
With(f, k, v) == [x \in DOMAIN f \cup {k} |-> IF x = k THEN v ELSE f[x]]

Edit == edits > 0 /\ edits' = edits - 1

-----------------------------------------------------------------------------
(* Dishes.                                                                   *)

(* ON DELETE CASCADE: portions go with their dish and their person. *)
Kept(D, P) == Restrict(share, {k \in DOMAIN share : k[1] \in D /\ k[2] \in P})

AddDish(e, d, c) ==
  /\ pc[e] = "idle" /\ Edit
  /\ d \notin drawn /\ drawn' = drawn \cup {d}
  /\ price' = With(price, d, c)
  /\ work' = [work EXCEPT ![e].dish = d]
  /\ Goto(e, "recalculate")
  /\ UNCHANGED <<people, share, subtotal, paid, lists, linkVars, readerVars>>

UpdateDish(e, d, c) ==
  /\ pc[e] = "idle" /\ Edit
  /\ d \in DOMAIN price
  /\ price' = With(price, d, c)
  /\ work' = [work EXCEPT ![e].dish = d]
  /\ Goto(e, "recalculate")
  /\ UNCHANGED <<people, share, subtotal, paid, drawn, lists, linkVars, readerVars>>

Leave(e) ==
  /\ Goto(e, "idle")
  /\ work' = [work EXCEPT ![e] = NoWork]

(* recalculateSubtotalForDish sums the dishes it sees; a dish that is gone by now has no bill. *)
Recalculate(e) ==
  /\ pc[e] = "recalculate"
  /\ IF work[e].dish \in DOMAIN price
     THEN work' = [work EXCEPT ![e].sum = Subtotal(price)] /\ Goto(e, "write")
     ELSE Leave(e)
  /\ UNCHANGED <<rowVars, linkVars, drawn, edits, readerVars>>

WriteSubtotal(e) ==
  /\ pc[e] = "write"
  /\ subtotal' = work[e].sum
  /\ Leave(e)
  /\ UNCHANGED <<price, people, share, paid, lists, linkVars, drawn, edits, readerVars>>

DeleteDish(d) ==
  /\ Edit
  /\ d \in DOMAIN price
  /\ price' = Restrict(price, DOMAIN price \ {d})
  /\ share' = Kept(DOMAIN price \ {d}, Listed)
  /\ UNCHANGED <<people, subtotal, paid, lists, linkVars, drawn, editorVars, readerVars>>

(* The transaction of ReplaceDishes: its DELETE sees the dishes of this moment. *)
BeginReplace(e, new) ==
  /\ pc[e] = "idle" /\ Edit
  /\ DOMAIN new \cap drawn = {} /\ drawn' = drawn \cup DOMAIN new
  /\ work' = [work EXCEPT ![e].seen = DOMAIN price, ![e].new = new]
  /\ Goto(e, "replace")
  /\ UNCHANGED <<rowVars, linkVars, readerVars>>

CommitReplace(e) ==
  /\ pc[e] = "replace"
  /\ LET kept == DOMAIN price \ work[e].seen
         new == work[e].new
     IN  /\ price' = [d \in kept \cup DOMAIN new |-> IF d \in DOMAIN new THEN new[d] ELSE price[d]]
         /\ share' = Kept(kept, Listed)
  /\ subtotal' = Subtotal(work[e].new)
  /\ lists' = lists \cup {DOMAIN work[e].new}
  /\ Leave(e)
  /\ UNCHANGED <<people, paid, linkVars, drawn, edits, readerVars>>

(* The request ends between its two steps: a transaction is rolled back, an edit stays. *)
EditorFails(e) ==
  /\ pc[e] # "idle"
  /\ Leave(e)
  /\ UNCHANGED <<rowVars, linkVars, drawn, edits, readerVars>>

-----------------------------------------------------------------------------
(* People, portions and the total.                                           *)

AddPerson(p) ==
  /\ Edit
  /\ p \notin drawn /\ drawn' = drawn \cup {p}
  /\ people' = Append(people, p)
  /\ UNCHANGED <<price, share, subtotal, paid, lists, linkVars, editorVars, readerVars>>

DeletePerson(p) ==
  /\ Edit
  /\ \E i \in DOMAIN people : people[i] = p /\ people' = RemoveAt(people, i)
  /\ share' = Kept(DOMAIN price, Listed \ {p})
  /\ UNCHANGED <<price, subtotal, paid, lists, linkVars, drawn, editorVars, readerVars>>

(* Mutant: the statement does not look at the dish and the person. *)
UpsertAnyPortion(d, p, n) ==
  /\ Edit
  /\ share' = With(share, <<d, p>>, n)
  /\ UNCHANGED <<price, people, subtotal, paid, lists, linkVars, drawn, editorVars, readerVars>>

UpsertPortion(d, p, n) ==
  /\ Edit
  /\ d \in DOMAIN price /\ p \in Listed
  /\ share' = With(share, <<d, p>>, n)
  /\ UNCHANGED <<price, people, subtotal, paid, lists, linkVars, drawn, editorVars, readerVars>>

UpdateSession(c) ==
  /\ Edit
  /\ paid' = c
  /\ UNCHANGED <<price, people, share, subtotal, lists, linkVars, drawn, editorVars, readerVars>>

-----------------------------------------------------------------------------
(* The share link.                                                           *)

NewLink(t) ==
  /\ t \in Token \ drawn /\ drawn' = drawn \cup {t}
  /\ token' = t
  /\ links' = links \cup {t}

(* Mutant: a token that cannot be displayed is replaced. *)
CreateDisplayableLink(t) ==
  /\ Edit
  /\ IF token \in Token THEN UNCHANGED <<token, links, drawn>> ELSE NewLink(t)
  /\ UNCHANGED <<rotated, rowVars, editorVars, readerVars>>

(* GetOrCreateShareToken: one transaction under the lock of the row. *)
CreateLink(t) ==
  /\ Edit
  /\ IF token = NoToken THEN NewLink(t) ELSE UNCHANGED <<token, links, drawn>>
  /\ UNCHANGED <<rotated, rowVars, editorVars, readerVars>>

RotateLink(t) ==
  /\ Edit
  /\ NewLink(t)
  /\ rotated' = rotated \cup ({token} \ {NoToken})
  /\ UNCHANGED <<rowVars, editorVars, readerVars>>

-----------------------------------------------------------------------------
(* Breakdowns.                                                               *)

Move(r, from, to) ==
  /\ rpc[r] = from
  /\ rpc' = [rpc EXCEPT ![r] = to]
  /\ UNCHANGED <<rowVars, linkVars, drawn, edits, editorVars>>

(* GetSession, or GetByViewToken with a link somebody was given. *)
ReadBill(r) ==
  /\ Move(r, "idle", "dishes")
  /\ read' = [read EXCEPT ![r].paid = paid]
  /\ UNCHANGED owed

ReadDishes(r) ==
  /\ Move(r, "dishes", "people")
  /\ read' = [read EXCEPT ![r].price = price]
  /\ UNCHANGED owed

ReadPeople(r) ==
  /\ Move(r, "people", "portions")
  /\ read' = [read EXCEPT ![r].people = people]
  /\ UNCHANGED owed

(* Mutant: the scale is taken from the stored subtotal. *)
TellStored(r, seen) ==
  LET stored == IF subtotal > 0 THEN subtotal ELSE 1
  IN  \E amounts \in Compute(seen.price, seen.share, seen.people,
                             (seen.paid * Subtotal(seen.price)) \div stored) :
        owed' = [owed EXCEPT ![r] = amounts]

Tell(r, seen) ==
  \E amounts \in Compute(seen.price, seen.share, seen.people, seen.paid) :
    owed' = [owed EXCEPT ![r] = amounts]

ReadPortions(r) ==
  /\ Move(r, "portions", "done")
  /\ read' = [read EXCEPT ![r].share = share]
  /\ Tell(r, read'[r])

-----------------------------------------------------------------------------
EditorStep(e) ==
  \/ \E d \in Dish, c \in Price : AddDish(e, d, c) \/ UpdateDish(e, d, c)
  \/ Recalculate(e) \/ WriteSubtotal(e)
  \/ \E D \in SUBSET (Dish \ drawn) : \E new \in [D -> Price] : BeginReplace(e, new)
  \/ CommitReplace(e)
  \/ EditorFails(e)

ReaderStep(r) == ReadBill(r) \/ ReadDishes(r) \/ ReadPeople(r) \/ ReadPortions(r)

Next ==
  \/ \E e \in Editor : EditorStep(e)
  \/ \E d \in Dish : DeleteDish(d)
  \/ \E p \in Person : AddPerson(p) \/ DeletePerson(p)
  \/ \E d \in Dish, p \in Person, n \in 0 .. MaxShares : UpsertPortion(d, p, n)
  \/ \E c \in Paid : UpdateSession(c)
  \/ \E t \in Token : CreateLink(t) \/ RotateLink(t)
  \/ \E r \in Reader : ReaderStep(r)

Spec == Init /\ [][Next]_vars

-----------------------------------------------------------------------------
(* Properties.                                                               *)

Told(r) == rpc[r] = "done"
Total(r) == SumFunction(owed[r])
Seen(r) == read[r]

(***************************************************************************)
(* Everybody is told an amount less than a cent from the exact one, nobody *)
(* gets the extra cent before somebody with a larger remainder, and the    *)
(* amounts add up to the exact total, rounded (the reference definition of *)
(* largest-remainder rounding).                                            *)
(***************************************************************************)
FairlyRounded(r) ==
  LET num == Num(Seen(r).price, Seen(r).share, Seen(r).people, Seen(r).paid)
      den == Den(Seen(r).price, Seen(r).share)
      all == SumFunction(num)
      up == {p \in DOMAIN num : owed[r][p] * den > num[p]}
  IN  /\ \A p \in DOMAIN num : -den < owed[r][p] * den - num[p] /\ owed[r][p] * den - num[p] < den
      /\ \A p \in up, q \in DOMAIN num \ up : num[p] % den >= num[q] % den
      /\ 2 * (Total(r) * den - all) \in -den .. den

AmountsAreFair == \A r \in Reader : Told(r) => FairlyRounded(r)

(***************************************************************************)
(* When what a breakdown read is what the bill holds, every dish has its   *)
(* takers and the dishes cost something, the amounts add up to the total   *)
(* paid ("so per-person amounts always sum exactly to the entered total    *)
(* paid", docs/design_decisions.md:54, which mentions neither condition:   *)
(* the part of a dish that nobody takes is asked of nobody).               *)
(***************************************************************************)
BreakdownAddsUp ==
  \A r \in Reader :
    /\ Told(r)
    /\ Seen(r) = [price |-> price, people |-> people, share |-> share, paid |-> paid]
    /\ UnassignedDishes(price, share) = {}
    /\ Subtotal(price) > 0
    => Total(r) = paid

(***************************************************************************)
(* However a breakdown is torn by edits between its four reads, people are *)
(* never asked for more than the total paid, as long as no price is        *)
(* negative.                                                               *)
(***************************************************************************)
NeverOvercharged ==
  \A r \in Reader :
    Told(r) /\ (\A c \in Range(Seen(r).price) : c >= 0) => Total(r) <= Seen(r).paid

(***************************************************************************)
(* Two breakdowns of the same bill agree ("the owner-facing breakdown      *)
(* endpoint and the public share view call Compute directly, so the two    *)
(* can never disagree", split/calculate.go).                               *)
(***************************************************************************)
BreakdownsAgree ==
  \A r, q \in Reader : Told(r) /\ Told(q) /\ Seen(r) = Seen(q) => owed[r] = owed[q]

(***************************************************************************)
(* A link that was given out opens the bill until the owner rotates it,    *)
(* however often the owner asks for the link, and also a link that can no  *)
(* longer be displayed.                                                    *)
(***************************************************************************)
OnlyRotationEndsALink == links \ rotated \subseteq {token}

(***************************************************************************)
(* The bill never shows the dishes of two lists at once (ReplaceDishes     *)
(* "deletes all existing dishes ... and inserts the given list", store.go).*)
(***************************************************************************)
OneListAtATime ==
  \A L, M \in lists : L # M => L \cap DOMAIN price = {} \/ M \cap DOMAIN price = {}
=============================================================================
