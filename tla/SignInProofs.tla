---------------------------- MODULE SignInProofs ----------------------------
(* Proofs about SignIn for any number of browsers, requests, users, sessions, *)
(* bills, passkeys and addresses.  The inductive invariant says what each     *)
(* statement of a handler may rely on (Local, about one request and the       *)
(* database) and which locks exclude each other (Apart, about two requests).  *)
EXTENDS SignIn, TLAPS

-----------------------------------------------------------------------------
(* The inductive invariant *)

Rotating == {"rotate", "issue", "signed in"}

\* Where a request can stand, and what it then knows.
Placed(e) ==
  /\ e.token \in used \cup {None}
  /\ e.set \in used \cup {None, Keep}
  /\ e.user \in known \cup {None}
  /\ e.at \in Working \ {"identify"} => e.user \in known
  /\ e.at \in Jobs => e.job = e.at
  /\ e.at \in {"compare", "attach", "claim", "fold keys"} => e.job = "verify"
  /\ e.at \in {"assert", "source"} => e.job = "login"
  /\ e.at \in {"invalidate", "insert"} => e.job = "ask"
  /\ e.at \in Merging \cup Rotating => e.job \in {"verify", "login"}
  /\ e.at \in Working /\ e.job \in {"ask", "verify"} => e.to \in Email
  /\ e.at \in Working /\ e.job \in {"register", "login"} => e.ceremony \in Ceremony
  /\ e.at \in Working /\ e.job = "login" => e.passkey \in Passkey

\* The code a transaction has locked, and the newest code when a request invalidated.
HoldsCode(e) ==
  /\ e.at = "compare" => /\ e.code \in 1..issued
                         /\ codes[e.code].live
                         /\ codes[e.code].tries = e.tries
  /\ e.at = "insert" => /\ e.code \in 0..issued
                        /\ \A c \in Live(e.to) : c > e.code

FindsFree(e) == e.at = "claim" => {u \in users : email[u] = e.to} = {}

\* A merge keeps its two users apart; the rows it has moved stay where they were, and
\* their new user exists, until it commits.  Unless the user is gone already, everything
\* it had is still its own or held by the merge.
Merges(e) ==
  /\ e.at \in Merging \cup {"source"} => e.target # e.user /\ e.target \in User
  /\ e.bills # {} => e.at \in {"fold keys", "delete"} /\ e.target \in users
  /\ e.keys # {} => e.at = "delete" /\ e.target \in users
  /\ \A b \in e.bills : owner[b] = e.user
  /\ \A k \in e.keys : keyOf[k] = e.user
  /\ (e.at = "fold bills" /\ e.user \in users) => \A b \in e.had.bills : owner[b] = e.user
  /\ (e.at \in {"fold keys", "delete"} /\ e.user \in users) => e.had.bills \subseteq e.bills
  /\ (e.at \in {"fold bills", "fold keys"} /\ e.user \in users) =>
       \A k \in e.had.keys : keyOf[k] = e.user
  /\ (e.at = "delete" /\ e.user \in users) => e.had.keys \subseteq e.keys
  /\ (e.at \in Merging /\ e.job = "login") => ~e.had.upgraded /\ e.had.keys = {}

\* What signing in has left behind, and why a response sets a cookie.
Leaves(e) ==
  /\ (e.at \in Rotating /\ e.job = "verify" /\ e.user # e.target) => e.user \notin users
  /\ e.at \in {"issue", "signed in"} =>
       e.token = None \/ session[e.token] = None \/ "drop" \in e.faults
  /\ (e.set # Keep /\ "verify" \notin e.faults /\ e.job \notin {"verify", "login", "logout"})
       => e.token = None \/ session[e.token] = None

Local(e) == Placed(e) /\ HoldsCode(e) /\ FindsFree(e) /\ Merges(e) /\ Leaves(e)

Verifying(e) == e.job = "verify" /\ e.at \in Merging \cup {"claim"}
\* Two requests hold neither the same code nor the same spelling.
Apart(e, f) ==
  /\ e.at = "compare" /\ f.at = "compare" => e.code # f.code
  /\ Verifying(e) /\ Verifying(f) => e.to # f.to

CodesAreSound == \A c \in Code :
  codes[c].tries <= MaxAttempts /\ (codes[c].live => c <= issued)
RowsAreSound ==
  /\ \A t \in Token : session[t] # None => t \in used
  /\ \A k \in Passkey : keyOf[k] # None => handle[k] # None
  /\ \A b \in Bill : owner[b] # None => b \in bills

IInv ==
  /\ TypeOK /\ CodesAreSound /\ RowsAreSound /\ PasskeysNameTheirUser
  /\ \A r \in Request : Local(req[r])
  /\ \A r, q \in Request : r # q => Apart(req[r], req[q])

-----------------------------------------------------------------------------
(* General facts *)

LEMMA FreshIsNew ==
  ASSUME NEW S, NEW T, T \subseteq S, T # S
  PROVE  Fresh(S, T) \in S \ T
BY DEF Fresh

\* The database part of the type invariant.
Database ==
  /\ codes \in [Code -> Row] /\ issued \in 0..MaxCodes /\ cooling \subseteq Address
  /\ users \subseteq known /\ known \subseteq User
  /\ email \in [User -> Email \cup {None}] /\ \A u \in User : email[u] # None => u \in users
  /\ bills \subseteq Bill /\ owner \in [Bill -> users \cup {None}]
  /\ keyOf \in [Passkey -> users \cup {None}] /\ handle \in [Passkey -> known \cup {None}]
  /\ session \in [Token -> users \cup {None}] /\ used \subseteq Token
  /\ cookie \in [Browser -> used \cup {None}]
  /\ ceremony \in [Ceremony -> [kind: {"unborn", "registration", "login", "used"},
                                user: users \cup {None}]]
  /\ CodesAreSound /\ RowsAreSound /\ PasskeysNameTheirUser

\* What holds of a record after a step holds of the request that has it then.
LEMMA Transfer ==
  ASSUME NEW q, NEW f, f = req'[q], Local(f)'
  PROVE  Local(req[q])'
<1>1. Placed(req[q])'  BY ZenonT(30) DEF Local, Placed
<1>2. HoldsCode(req[q])'  BY DEF Local, HoldsCode, Live
<1>3. FindsFree(req[q])'  BY DEF Local, FindsFree
<1>4. Merges(req[q])'  BY DEF Local, Merges
<1>5. Leaves(req[q])'  BY DEF Local, Leaves
<1> QED  BY <1>1, <1>2, <1>3, <1>4, <1>5 DEF Local

\* One request takes a step to the record e: what has to be shown.
LEMMA OneStep ==
  ASSUME IInv, NEW r \in Request, NEW e \in Entry, req' = [req EXCEPT ![r] = e],
         Database', Local(e)',
         \A q \in Request \ {r}, f \in Entry : f = req[q] => Local(f)',
         \A q \in Request \ {r} : Apart(e, req[q]) /\ Apart(req[q], e)
  PROVE  IInv'
<1>0. req \in [Request -> Entry] /\ req' \in [Request -> Entry]
  BY DEF IInv, TypeOK
<1>1. TypeOK' /\ CodesAreSound' /\ RowsAreSound' /\ PasskeysNameTheirUser'
  BY <1>0 DEF Database, TypeOK
<1>2. ASSUME NEW q \in Request PROVE Local(req[q])'
  <2>1. PICK f \in Entry : f = req'[q]  BY <1>0
  <2>2. Local(f)'  BY <1>0, <2>1
  <2> QED  BY <2>1, <2>2, Transfer
<1>3. ASSUME NEW p \in Request, NEW q \in Request, p # q PROVE Apart(req[p], req[q])'
  BY <1>0, <1>3 DEF IInv, Apart, Verifying
<1> QED  BY <1>1, <1>2, <1>3 DEF IInv

\* A step that changes no table.
LEMMA SameTables ==
  ASSUME NEW f, Local(f), UNCHANGED <<codeVars, identity>>
  PROVE  Local(f)'
<1> USE DEF codeVars, identity
<1>1. Placed(f)'  BY DEF Local, Placed
<1>2. HoldsCode(f)'  BY DEF Local, HoldsCode, Live
<1>3. FindsFree(f)'  BY DEF Local, FindsFree
<1>4. Merges(f)'  BY DEF Local, Merges
<1>5. Leaves(f)'  BY DEF Local, Leaves
<1> QED  BY <1>1, <1>2, <1>3, <1>4, <1>5 DEF Local

LEMMA QuietStep ==
  ASSUME IInv, NEW r \in Request, NEW e \in Entry, req' = [req EXCEPT ![r] = e],
         UNCHANGED <<codeVars, identity, cookie>>, Local(e),
         \A q \in Request \ {r} : Apart(e, req[q]) /\ Apart(req[q], e)
  PROVE  IInv'
<1>1. Database'
  BY DEF Database, IInv, TypeOK, CodesAreSound, RowsAreSound, PasskeysNameTheirUser,
         codeVars, identity
<1>2. UNCHANGED <<codeVars, identity>>  OBVIOUS
<1>3. Local(e)'  BY <1>2, SameTables
<1>4. ASSUME NEW q \in Request \ {r}, NEW f \in Entry, f = req[q] PROVE Local(f)'
  <2>1. Local(f)  BY <1>4 DEF IInv
  <2> QED  BY <1>2, <2>1, SameTables
<1> QED  BY <1>1, <1>3, <1>4, OneStep

-----------------------------------------------------------------------------
(* Steps that change no table and set no cookie *)

\* Where the proofs of the steps start.
LEMMA Here ==
  ASSUME IInv, NEW r \in Request
  PROVE  req[r] \in Entry /\ Local(req[r]) /\ Database
BY DEF IInv, TypeOK, Database

\* What a request keeps from the moment it is sent.
Fixed(e, d) == /\ e.job = d.job /\ e.token = d.token /\ e.to = d.to
               /\ e.ceremony = d.ceremony /\ e.passkey = d.passkey

LEMMA TooSoonStep ==
  ASSUME IInv, NEW r \in Request, TooSoon(r)
  PROVE  IInv'
<1>0. req[r] \in Entry /\ Local(req[r]) /\ Database  BY Here
<1>a. req[r].at = "ask"
  BY <1>0 DEF TooSoon, At
<1> DEFINE e == [req[r] EXCEPT !.at = "respond"]
<1>w. "respond" \in Working \cup {"idle", "respond", "signed in", "done"}  BY <1>a DEF Working, Jobs
<1>1. e \in Entry  BY <1>0, <1>a, <1>w DEF Entry
<1>2. req' = [req EXCEPT ![r] = e] /\ UNCHANGED <<codeVars, identity, cookie>>
  BY <1>a DEF TooSoon, Goto, IInv, TypeOK
<1>e.
  /\ Fixed(e, req[r])
  /\ e.at = "respond" /\ e.user = req[r].user /\ e.set = req[r].set
  /\ e.code = req[r].code /\ e.tries = req[r].tries /\ e.target = req[r].target
  /\ e.bills = req[r].bills /\ e.keys = req[r].keys /\ e.had = req[r].had
  /\ e.faults = req[r].faults
  BY <1>0 DEF Entry, Fixed
<1> HIDE DEF e
<1>3. Local(e)
  <2>1. Placed(e)  BY <1>0, <1>a, <1>e DEF Local, Placed, Fixed, Merging, Rotating, Working, Jobs
  <2>2. HoldsCode(e)  BY <1>0, <1>a, <1>e DEF Local, HoldsCode, Fixed
  <2>3. FindsFree(e)  BY <1>0, <1>a, <1>e DEF Local, FindsFree, Fixed
  <2>4. Merges(e)  BY <1>0, <1>a, <1>e DEF Local, Merges, Fixed, Merging
  <2>5. Leaves(e)  BY <1>0, <1>a, <1>e DEF Local, Leaves, Fixed, Rotating
  <2> QED  BY <2>1, <2>2, <2>3, <2>4, <2>5 DEF Local
<1>4. \A q \in Request \ {r} : Apart(e, req[q]) /\ Apart(req[q], e)
  BY <1>0, <1>a, <1>e DEF Apart, Verifying, Merging, Fixed
<1> QED  BY <1>1, <1>2, <1>3, <1>4, QuietStep

LEMMA CheckCooldownStep ==
  ASSUME IInv, NEW r \in Request, CheckCooldown(r)
  PROVE  IInv'
<1>0. req[r] \in Entry /\ Local(req[r]) /\ Database  BY Here
<1>a. req[r].at = "ask"
  BY <1>0 DEF CheckCooldown, At
<1> DEFINE e == [req[r] EXCEPT !.at = "invalidate"]
<1>w. "invalidate" \in Working \cup {"idle", "respond", "signed in", "done"}  BY <1>a DEF Working, Jobs
<1>1. e \in Entry  BY <1>0, <1>a, <1>w DEF Entry
<1>2. req' = [req EXCEPT ![r] = e] /\ UNCHANGED <<codeVars, identity, cookie>>
  BY <1>a DEF CheckCooldown, Goto, IInv, TypeOK
<1>e.
  /\ Fixed(e, req[r])
  /\ e.at = "invalidate" /\ e.user = req[r].user /\ e.set = req[r].set
  /\ e.code = req[r].code /\ e.tries = req[r].tries /\ e.target = req[r].target
  /\ e.bills = req[r].bills /\ e.keys = req[r].keys /\ e.had = req[r].had
  /\ e.faults = req[r].faults
  BY <1>0 DEF Entry, Fixed
<1> HIDE DEF e
<1>3. Local(e)
  <2>1. Placed(e)  BY <1>0, <1>a, <1>e DEF Local, Placed, Fixed, Merging, Rotating, Working, Jobs
  <2>2. HoldsCode(e)  BY <1>0, <1>a, <1>e DEF Local, HoldsCode, Fixed
  <2>3. FindsFree(e)  BY <1>0, <1>a, <1>e DEF Local, FindsFree, Fixed
  <2>4. Merges(e)  BY <1>0, <1>a, <1>e DEF Local, Merges, Fixed, Merging
  <2>5. Leaves(e)  BY <1>0, <1>a, <1>e DEF Local, Leaves, Fixed, Rotating
  <2> QED  BY <2>1, <2>2, <2>3, <2>4, <2>5 DEF Local
<1>4. \A q \in Request \ {r} : Apart(e, req[q]) /\ Apart(req[q], e)
  BY <1>0, <1>a, <1>e DEF Apart, Verifying, Merging, Fixed
<1> QED  BY <1>1, <1>2, <1>3, <1>4, QuietStep

LEMMA NoCodeStep ==
  ASSUME IInv, NEW r \in Request, NoCode(r)
  PROVE  IInv'
<1>0. req[r] \in Entry /\ Local(req[r]) /\ Database  BY Here
<1>a. req[r].at = "verify"
  BY <1>0 DEF NoCode, At
<1> DEFINE e == [req[r] EXCEPT !.at = "respond"]
<1>w. "respond" \in Working \cup {"idle", "respond", "signed in", "done"}  BY <1>a DEF Working, Jobs
<1>1. e \in Entry  BY <1>0, <1>a, <1>w DEF Entry
<1>2. req' = [req EXCEPT ![r] = e] /\ UNCHANGED <<codeVars, identity, cookie>>
  BY <1>a DEF NoCode, Goto, IInv, TypeOK
<1>e.
  /\ Fixed(e, req[r])
  /\ e.at = "respond" /\ e.user = req[r].user /\ e.set = req[r].set
  /\ e.code = req[r].code /\ e.tries = req[r].tries /\ e.target = req[r].target
  /\ e.bills = req[r].bills /\ e.keys = req[r].keys /\ e.had = req[r].had
  /\ e.faults = req[r].faults
  BY <1>0 DEF Entry, Fixed
<1> HIDE DEF e
<1>3. Local(e)
  <2>1. Placed(e)  BY <1>0, <1>a, <1>e DEF Local, Placed, Fixed, Merging, Rotating, Working, Jobs
  <2>2. HoldsCode(e)  BY <1>0, <1>a, <1>e DEF Local, HoldsCode, Fixed
  <2>3. FindsFree(e)  BY <1>0, <1>a, <1>e DEF Local, FindsFree, Fixed
  <2>4. Merges(e)  BY <1>0, <1>a, <1>e DEF Local, Merges, Fixed, Merging
  <2>5. Leaves(e)  BY <1>0, <1>a, <1>e DEF Local, Leaves, Fixed, Rotating
  <2> QED  BY <2>1, <2>2, <2>3, <2>4, <2>5 DEF Local
<1>4. \A q \in Request \ {r} : Apart(e, req[q]) /\ Apart(req[q], e)
  BY <1>0, <1>a, <1>e DEF Apart, Verifying, Merging, Fixed
<1> QED  BY <1>1, <1>2, <1>3, <1>4, QuietStep

LEMMA FailStep ==
  ASSUME IInv, NEW r \in Request, Fail(r)
  PROVE  IInv'
<1>0. req[r] \in Entry /\ Local(req[r]) /\ Database  BY Here
<1>a. req[r].at \in Working
  BY <1>0 DEF Fail, At
<1> DEFINE e == [req[r] EXCEPT !.at = "respond", !.bills = {}, !.keys = {}]
<1>w. "respond" \in Working \cup {"idle", "respond", "signed in", "done"}  BY <1>a DEF Working, Jobs
<1>1. e \in Entry  BY <1>0, <1>a, <1>w, ZenonT(60) DEF Entry
<1>2. req' = [req EXCEPT ![r] = e] /\ UNCHANGED <<codeVars, identity, cookie>>
  BY <1>a DEF Fail, Goto, IInv, TypeOK
<1>e.
  /\ Fixed(e, req[r])
  /\ e.at = "respond" /\ e.user = req[r].user /\ e.set = req[r].set
  /\ e.code = req[r].code /\ e.tries = req[r].tries /\ e.target = req[r].target
  /\ e.bills = {} /\ e.keys = {} /\ e.had = req[r].had /\ e.faults = req[r].faults
  BY <1>0 DEF Entry, Fixed
<1> HIDE DEF e
<1>3. Local(e)
  <2>1. Placed(e)  BY <1>0, <1>a, <1>e DEF Local, Placed, Fixed, Merging, Rotating, Working, Jobs
  <2>2. HoldsCode(e)  BY <1>0, <1>a, <1>e DEF Local, HoldsCode, Fixed
  <2>3. FindsFree(e)  BY <1>0, <1>a, <1>e DEF Local, FindsFree, Fixed
  <2>4. Merges(e)  BY <1>0, <1>a, <1>e DEF Local, Merges, Fixed, Merging
  <2>5. Leaves(e)  BY <1>0, <1>a, <1>e DEF Local, Leaves, Fixed, Rotating
  <2> QED  BY <2>1, <2>2, <2>3, <2>4, <2>5 DEF Local
<1>4. \A q \in Request \ {r} : Apart(e, req[q]) /\ Apart(req[q], e)
  BY <1>0, <1>a, <1>e DEF Apart, Verifying, Merging, Fixed
<1> QED  BY <1>1, <1>2, <1>3, <1>4, QuietStep

LEMMA LogoutFailsStep ==
  ASSUME IInv, NEW r \in Request, LogoutFails(r)
  PROVE  IInv'
<1>0. req[r] \in Entry /\ Local(req[r]) /\ Database  BY Here
<1>a. req[r].at = "logout"
  BY <1>0 DEF LogoutFails, At
<1> DEFINE e == [req[r] EXCEPT !.at = "respond", !.set = None]
<1>w. "respond" \in Working \cup {"idle", "respond", "signed in", "done"}  BY <1>a DEF Working, Jobs
<1>1. e \in Entry  BY <1>0, <1>a, <1>w, ZenonT(60) DEF Entry
<1>2. req' = [req EXCEPT ![r] = e] /\ UNCHANGED <<codeVars, identity, cookie>>
  BY <1>a DEF LogoutFails, Goto, IInv, TypeOK
<1>e.
  /\ Fixed(e, req[r])
  /\ e.at = "respond" /\ e.user = req[r].user /\ e.set = None /\ e.code = req[r].code
  /\ e.tries = req[r].tries /\ e.target = req[r].target /\ e.bills = req[r].bills
  /\ e.keys = req[r].keys /\ e.had = req[r].had /\ e.faults = req[r].faults
  BY <1>0 DEF Entry, Fixed
<1> HIDE DEF e
<1>3. Local(e)
  <2>1. Placed(e)  BY <1>0, <1>a, <1>e DEF Local, Placed, Fixed, Merging, Rotating, Working, Jobs
  <2>2. HoldsCode(e)  BY <1>0, <1>a, <1>e DEF Local, HoldsCode, Fixed
  <2>3. FindsFree(e)  BY <1>0, <1>a, <1>e DEF Local, FindsFree, Fixed
  <2>4. Merges(e)  BY <1>0, <1>a, <1>e DEF Local, Merges, Fixed, Merging
  <2>5. Leaves(e)  BY <1>0, <1>a, <1>e DEF Local, Leaves, Fixed, Rotating, Placed, Jobs
  <2> QED  BY <2>1, <2>2, <2>3, <2>4, <2>5 DEF Local
<1>4. \A q \in Request \ {r} : Apart(e, req[q]) /\ Apart(req[q], e)
  BY <1>0, <1>a, <1>e DEF Apart, Verifying, Merging, Fixed
<1> QED  BY <1>1, <1>2, <1>3, <1>4, QuietStep

LEMMA DropFailsStep ==
  ASSUME IInv, NEW r \in Request, DropFails(r)
  PROVE  IInv'
<1>0. req[r] \in Entry /\ Local(req[r]) /\ Database  BY Here
<1>a. req[r].at = "rotate"
  BY <1>0 DEF DropFails, At
<1> DEFINE e == [req[r] EXCEPT !.at = "issue", !.faults = req[r].faults \cup {"drop"}]
<1>w. "issue" \in Working \cup {"idle", "respond", "signed in", "done"}  BY <1>a DEF Working, Jobs
<1>1. e \in Entry  BY <1>0, <1>a, <1>w, ZenonT(60) DEF Entry
<1>2. req' = [req EXCEPT ![r] = e] /\ UNCHANGED <<codeVars, identity, cookie>>
  BY <1>a DEF DropFails, Goto, IInv, TypeOK
<1>e.
  /\ Fixed(e, req[r])
  /\ e.at = "issue" /\ e.user = req[r].user /\ e.set = req[r].set /\ e.code = req[r].code
  /\ e.tries = req[r].tries /\ e.target = req[r].target /\ e.bills = req[r].bills
  /\ e.keys = req[r].keys /\ e.had = req[r].had /\ e.faults = req[r].faults \cup {"drop"}
  BY <1>0 DEF Entry, Fixed
<1> HIDE DEF e
<1>3. Local(e)
  <2>1. Placed(e)  BY <1>0, <1>a, <1>e DEF Local, Placed, Fixed, Merging, Rotating, Working, Jobs
  <2>2. HoldsCode(e)  BY <1>0, <1>a, <1>e DEF Local, HoldsCode, Fixed
  <2>3. FindsFree(e)  BY <1>0, <1>a, <1>e DEF Local, FindsFree, Fixed
  <2>4. Merges(e)  BY <1>0, <1>a, <1>e DEF Local, Merges, Fixed, Merging
  <2>5. Leaves(e)  BY <1>0, <1>a, <1>e DEF Local, Leaves, Fixed, Rotating
  <2> QED  BY <2>1, <2>2, <2>3, <2>4, <2>5 DEF Local
<1>4. \A q \in Request \ {r} : Apart(e, req[q]) /\ Apart(req[q], e)
  BY <1>0, <1>a, <1>e DEF Apart, Verifying, Merging, Fixed
<1> QED  BY <1>1, <1>2, <1>3, <1>4, QuietStep

LEMMA RecogniseStep ==
  ASSUME IInv, NEW r \in Request, Recognise(r)
  PROVE  IInv'
<1>0. req[r] \in Entry /\ Local(req[r]) /\ Database  BY Here
<1>a. req[r].at = "identify" /\ req[r].token \in Token /\ session[req[r].token] \in users
      /\ session[req[r].token] \in known /\ session[req[r].token] \in User
      /\ req[r].job \in Jobs
  BY <1>0, SignInAssumption DEF Recognise, At, Unknown, Database, Entry
<1> DEFINE e == [req[r] EXCEPT !.at = req[r].job, !.user = session[req[r].token]]
<1>w. req[r].job \in Working \cup {"idle", "respond", "signed in", "done"}  BY <1>a DEF Working, Jobs
<1>1. e \in Entry  BY <1>0, <1>a, <1>w, ZenonT(60) DEF Entry
<1>2. req' = [req EXCEPT ![r] = e] /\ UNCHANGED <<codeVars, identity, cookie>>
  BY <1>a DEF Recognise, Goto, IInv, TypeOK
<1>e.
  /\ Fixed(e, req[r])
  /\ e.at = req[r].job /\ e.user = session[req[r].token] /\ e.set = req[r].set
  /\ e.code = req[r].code /\ e.tries = req[r].tries /\ e.target = req[r].target
  /\ e.bills = req[r].bills /\ e.keys = req[r].keys /\ e.had = req[r].had
  /\ e.faults = req[r].faults
  BY <1>0 DEF Entry, Fixed
<1> HIDE DEF e
<1>3. Local(e)
  <2>1. Placed(e)  BY <1>0, <1>a, <1>e DEF Local, Placed, Fixed, Merging, Rotating, Working, Jobs
  <2>2. HoldsCode(e)  BY <1>0, <1>a, <1>e DEF Local, HoldsCode, Fixed, Jobs
  <2>3. FindsFree(e)  BY <1>0, <1>a, <1>e DEF Local, FindsFree, Fixed, Jobs
  <2>4. Merges(e)  BY <1>0, <1>a, <1>e DEF Local, Merges, Fixed, Merging, Placed, Jobs
  <2>5. Leaves(e)  BY <1>0, <1>a, <1>e DEF Local, Leaves, Fixed, Rotating, Placed, Jobs
  <2> QED  BY <2>1, <2>2, <2>3, <2>4, <2>5 DEF Local
<1>4. \A q \in Request \ {r} : Apart(e, req[q]) /\ Apart(req[q], e)
  BY <1>0, <1>a, <1>e DEF Apart, Verifying, Merging, Fixed, Jobs
<1> QED  BY <1>1, <1>2, <1>3, <1>4, QuietStep

LEMMA AddressIsFreeStep ==
  ASSUME IInv, NEW r \in Request, AddressIsFree(r)
  PROVE  IInv'
<1>0. req[r] \in Entry /\ Local(req[r]) /\ Database  BY Here
<1>a. req[r].at = "attach" /\ Holders(req[r].to) = {}
      /\ \A q \in Request \ {r} : ~(Verifying(req[q]) /\ req[q].to = req[r].to)
  BY <1>0 DEF AddressIsFree, At, AddressHeld, Verifying
<1>f. {u \in users : email[u] = req[r].to} = {}
  <2>1. Same(req[r].to, req[r].to)  BY <1>0, <1>a DEF Local, Placed, Working, Same, Email
  <2> QED  BY <1>a, <2>1 DEF Holders
<1> DEFINE e == [req[r] EXCEPT !.at = "claim"]
<1>w. "claim" \in Working \cup {"idle", "respond", "signed in", "done"}  BY <1>a DEF Working, Jobs
<1>1. e \in Entry  BY <1>0, <1>a, <1>w DEF Entry
<1>2. req' = [req EXCEPT ![r] = e] /\ UNCHANGED <<codeVars, identity, cookie>>
  BY <1>a DEF AddressIsFree, Goto, IInv, TypeOK
<1>e.
  /\ Fixed(e, req[r])
  /\ e.at = "claim" /\ e.user = req[r].user /\ e.set = req[r].set /\ e.code = req[r].code
  /\ e.tries = req[r].tries /\ e.target = req[r].target /\ e.bills = req[r].bills
  /\ e.keys = req[r].keys /\ e.had = req[r].had /\ e.faults = req[r].faults
  BY <1>0 DEF Entry, Fixed
<1> HIDE DEF e
<1>3. Local(e)
  <2>1. Placed(e)  BY <1>0, <1>a, <1>e DEF Local, Placed, Fixed, Merging, Rotating, Working, Jobs
  <2>2. HoldsCode(e)  BY <1>0, <1>a, <1>e DEF Local, HoldsCode, Fixed
  <2>3. FindsFree(e)  BY <1>0, <1>f, <1>e DEF FindsFree, Fixed
  <2>4. Merges(e)  BY <1>0, <1>a, <1>e DEF Local, Merges, Fixed, Merging
  <2>5. Leaves(e)  BY <1>0, <1>a, <1>e DEF Local, Leaves, Fixed, Rotating
  <2> QED  BY <2>1, <2>2, <2>3, <2>4, <2>5 DEF Local
<1>4. \A q \in Request \ {r} : Apart(e, req[q]) /\ Apart(req[q], e)
  BY <1>0, <1>a, <1>e DEF Apart, Verifying, Merging, Fixed
<1> QED  BY <1>1, <1>2, <1>3, <1>4, QuietStep

LEMMA AddressIsOwnStep ==
  ASSUME IInv, NEW r \in Request, AddressIsOwn(r)
  PROVE  IInv'
<1>0. req[r] \in Entry /\ Local(req[r]) /\ Database  BY Here
<1>a. req[r].at = "attach"
  BY <1>0 DEF AddressIsOwn, At
<1> DEFINE e == [req[r] EXCEPT !.at = "rotate", !.target = req[r].user]
<1>w. "rotate" \in Working \cup {"idle", "respond", "signed in", "done"}  BY <1>a DEF Working, Jobs
<1>1. e \in Entry  BY <1>0, <1>a, <1>w, ZenonT(60) DEF Entry
<1>2. req' = [req EXCEPT ![r] = e] /\ UNCHANGED <<codeVars, identity, cookie>>
  BY <1>a DEF AddressIsOwn, Goto, IInv, TypeOK
<1>e.
  /\ Fixed(e, req[r])
  /\ e.at = "rotate" /\ e.user = req[r].user /\ e.set = req[r].set /\ e.code = req[r].code
  /\ e.tries = req[r].tries /\ e.target = req[r].user /\ e.bills = req[r].bills
  /\ e.keys = req[r].keys /\ e.had = req[r].had /\ e.faults = req[r].faults
  BY <1>0 DEF Entry, Fixed
<1> HIDE DEF e
<1>3. Local(e)
  <2>1. Placed(e)  BY <1>0, <1>a, <1>e DEF Local, Placed, Fixed, Merging, Rotating, Working, Jobs
  <2>2. HoldsCode(e)  BY <1>0, <1>a, <1>e DEF Local, HoldsCode, Fixed
  <2>3. FindsFree(e)  BY <1>0, <1>a, <1>e DEF Local, FindsFree, Fixed
  <2>4. Merges(e)  BY <1>0, <1>a, <1>e DEF Local, Merges, Fixed, Merging
  <2>5. Leaves(e)  BY <1>0, <1>a, <1>e DEF Local, Leaves, Fixed, Rotating
  <2> QED  BY <2>1, <2>2, <2>3, <2>4, <2>5 DEF Local
<1>4. \A q \in Request \ {r} : Apart(e, req[q]) /\ Apart(req[q], e)
  BY <1>0, <1>a, <1>e DEF Apart, Verifying, Merging, Fixed
<1> QED  BY <1>1, <1>2, <1>3, <1>4, QuietStep

LEMMA SourceStaysStep ==
  ASSUME IInv, NEW r \in Request, SourceStays(r)
  PROVE  IInv'
<1>0. req[r] \in Entry /\ Local(req[r]) /\ Database  BY Here
<1>a. req[r].at = "source"
  BY <1>0 DEF SourceStays, At
<1> DEFINE e == [req[r] EXCEPT !.at = "rotate"]
<1>w. "rotate" \in Working \cup {"idle", "respond", "signed in", "done"}  BY <1>a DEF Working, Jobs
<1>1. e \in Entry  BY <1>0, <1>a, <1>w DEF Entry
<1>2. req' = [req EXCEPT ![r] = e] /\ UNCHANGED <<codeVars, identity, cookie>>
  BY <1>a DEF SourceStays, Goto, IInv, TypeOK
<1>e.
  /\ Fixed(e, req[r])
  /\ e.at = "rotate" /\ e.user = req[r].user /\ e.set = req[r].set /\ e.code = req[r].code
  /\ e.tries = req[r].tries /\ e.target = req[r].target /\ e.bills = req[r].bills
  /\ e.keys = req[r].keys /\ e.had = req[r].had /\ e.faults = req[r].faults
  BY <1>0 DEF Entry, Fixed
<1> HIDE DEF e
<1>3. Local(e)
  <2>1. Placed(e)  BY <1>0, <1>a, <1>e DEF Local, Placed, Fixed, Merging, Rotating, Working, Jobs
  <2>2. HoldsCode(e)  BY <1>0, <1>a, <1>e DEF Local, HoldsCode, Fixed
  <2>3. FindsFree(e)  BY <1>0, <1>a, <1>e DEF Local, FindsFree, Fixed
  <2>4. Merges(e)  BY <1>0, <1>a, <1>e DEF Local, Merges, Fixed, Merging
  <2>5. Leaves(e)  BY <1>0, <1>a, <1>e DEF Local, Leaves, Fixed, Rotating, Placed
  <2> QED  BY <2>1, <2>2, <2>3, <2>4, <2>5 DEF Local
<1>4. \A q \in Request \ {r} : Apart(e, req[q]) /\ Apart(req[q], e)
  BY <1>0, <1>a, <1>e DEF Apart, Verifying, Merging, Fixed
<1> QED  BY <1>1, <1>2, <1>3, <1>4, QuietStep

LEMMA AssertOwnStep ==
  ASSUME IInv, NEW r \in Request, AssertOwn(r)
  PROVE  IInv'
<1>0. req[r] \in Entry /\ Local(req[r]) /\ Database  BY Here
<1>a. req[r].at = "assert"
  BY <1>0 DEF AssertOwn, At
<1> DEFINE e == [req[r] EXCEPT !.at = "rotate", !.target = req[r].user]
<1>w. "rotate" \in Working \cup {"idle", "respond", "signed in", "done"}  BY <1>a DEF Working, Jobs
<1>1. e \in Entry  BY <1>0, <1>a, <1>w, ZenonT(60) DEF Entry
<1>2. req' = [req EXCEPT ![r] = e] /\ UNCHANGED <<codeVars, identity, cookie>>
  BY <1>a DEF AssertOwn, Goto, IInv, TypeOK
<1>e.
  /\ Fixed(e, req[r])
  /\ e.at = "rotate" /\ e.user = req[r].user /\ e.set = req[r].set /\ e.code = req[r].code
  /\ e.tries = req[r].tries /\ e.target = req[r].user /\ e.bills = req[r].bills
  /\ e.keys = req[r].keys /\ e.had = req[r].had /\ e.faults = req[r].faults
  BY <1>0 DEF Entry, Fixed
<1> HIDE DEF e
<1>3. Local(e)
  <2>1. Placed(e)  BY <1>0, <1>a, <1>e DEF Local, Placed, Fixed, Merging, Rotating, Working, Jobs
  <2>2. HoldsCode(e)  BY <1>0, <1>a, <1>e DEF Local, HoldsCode, Fixed
  <2>3. FindsFree(e)  BY <1>0, <1>a, <1>e DEF Local, FindsFree, Fixed
  <2>4. Merges(e)  BY <1>0, <1>a, <1>e DEF Local, Merges, Fixed, Merging
  <2>5. Leaves(e)  BY <1>0, <1>a, <1>e DEF Local, Leaves, Fixed, Rotating
  <2> QED  BY <2>1, <2>2, <2>3, <2>4, <2>5 DEF Local
<1>4. \A q \in Request \ {r} : Apart(e, req[q]) /\ Apart(req[q], e)
  BY <1>0, <1>a, <1>e DEF Apart, Verifying, Merging, Fixed
<1> QED  BY <1>1, <1>2, <1>3, <1>4, QuietStep

LEMMA AssertOtherStep ==
  ASSUME IInv, NEW r \in Request, AssertOther(r)
  PROVE  IInv'
<1>0. req[r] \in Entry /\ Local(req[r]) /\ Database  BY Here
<1>a. req[r].at = "assert" /\ handle[req[r].passkey] \in users
      /\ handle[req[r].passkey] \in User
      /\ handle[req[r].passkey] # req[r].user
  BY <1>0 DEF AssertOther, At, Database
<1> DEFINE e == [req[r] EXCEPT !.at = "source", !.target = handle[req[r].passkey]]
<1>w. "source" \in Working \cup {"idle", "respond", "signed in", "done"}  BY <1>a DEF Working, Jobs
<1>1. e \in Entry  BY <1>0, <1>a, <1>w, ZenonT(60) DEF Entry
<1>2. req' = [req EXCEPT ![r] = e] /\ UNCHANGED <<codeVars, identity, cookie>>
  BY <1>a DEF AssertOther, Goto, IInv, TypeOK
<1>e.
  /\ Fixed(e, req[r])
  /\ e.at = "source" /\ e.user = req[r].user /\ e.set = req[r].set /\ e.code = req[r].code
  /\ e.tries = req[r].tries /\ e.target = handle[req[r].passkey] /\ e.bills = req[r].bills
  /\ e.keys = req[r].keys /\ e.had = req[r].had /\ e.faults = req[r].faults
  BY <1>0 DEF Entry, Fixed
<1> HIDE DEF e
<1>3. Local(e)
  <2>1. Placed(e)  BY <1>0, <1>a, <1>e DEF Local, Placed, Fixed, Merging, Rotating, Working, Jobs
  <2>2. HoldsCode(e)  BY <1>0, <1>a, <1>e DEF Local, HoldsCode, Fixed
  <2>3. FindsFree(e)  BY <1>0, <1>a, <1>e DEF Local, FindsFree, Fixed
  <2>4. Merges(e)  BY <1>0, <1>a, <1>e DEF Local, Merges, Fixed, Merging
  <2>5. Leaves(e)  BY <1>0, <1>a, <1>e DEF Local, Leaves, Fixed, Rotating
  <2> QED  BY <2>1, <2>2, <2>3, <2>4, <2>5 DEF Local
<1>4. \A q \in Request \ {r} : Apart(e, req[q]) /\ Apart(req[q], e)
  BY <1>0, <1>a, <1>e DEF Apart, Verifying, Merging, Fixed
<1> QED  BY <1>1, <1>2, <1>3, <1>4, QuietStep

LEMMA ReadCodeStep ==
  ASSUME IInv, NEW r \in Request, ReadCode(r)
  PROVE  IInv'
<1>0. req[r] \in Entry /\ Local(req[r]) /\ Database  BY Here
<1>a. req[r].at = "verify"
  BY <1>0 DEF ReadCode, At
<1>p. PICK c \in Newest(req[r].to) :
        ~CodeHeld(c, r) /\ req' = [req EXCEPT ![r] = [req[r] EXCEPT !.at = "compare", !.code = c,
                                                         !.tries = codes[c].tries]]
  BY DEF ReadCode, IInv, TypeOK
<1>u. c \in 1..issued /\ c \in 0..MaxCodes /\ codes[c].live /\ codes[c].tries \in Nat
      /\ \A q \in Request \ {r} : ~(req[q].at = "compare" /\ req[q].code = c)
  BY <1>0, <1>p, CodesAssumption DEF Newest, Live, Code, Row, Database, CodesAreSound, CodeHeld
<1> DEFINE e == [req[r] EXCEPT !.at = "compare", !.code = c, !.tries = codes[c].tries]
<1>w. "compare" \in Working \cup {"idle", "respond", "signed in", "done"}  BY <1>a DEF Working, Jobs
<1>1. e \in Entry  BY <1>0, <1>a, <1>w, <1>p, <1>u, ZenonT(60) DEF Entry
<1>2. req' = [req EXCEPT ![r] = e] /\ UNCHANGED <<codeVars, identity, cookie>>
  BY <1>a, <1>p, <1>u DEF ReadCode, Goto, IInv, TypeOK
<1>e.
  /\ Fixed(e, req[r])
  /\ e.at = "compare" /\ e.user = req[r].user /\ e.set = req[r].set /\ e.code = c
  /\ e.tries = codes[c].tries /\ e.target = req[r].target /\ e.bills = req[r].bills
  /\ e.keys = req[r].keys /\ e.had = req[r].had /\ e.faults = req[r].faults
  BY <1>0 DEF Entry, Fixed
<1> HIDE DEF e
<1>3. Local(e)
  <2>1. Placed(e)  BY <1>0, <1>a, <1>e, <1>p, <1>u DEF Local, Placed, Fixed, Merging, Rotating, Working, Jobs
  <2>2. HoldsCode(e)  BY <1>0, <1>a, <1>e, <1>p, <1>u DEF Local, HoldsCode, Fixed
  <2>3. FindsFree(e)  BY <1>0, <1>a, <1>e, <1>p, <1>u DEF Local, FindsFree, Fixed
  <2>4. Merges(e)  BY <1>0, <1>a, <1>e, <1>p, <1>u DEF Local, Merges, Fixed, Merging
  <2>5. Leaves(e)  BY <1>0, <1>a, <1>e, <1>p, <1>u DEF Local, Leaves, Fixed, Rotating
  <2> QED  BY <2>1, <2>2, <2>3, <2>4, <2>5 DEF Local
<1>4. \A q \in Request \ {r} : Apart(e, req[q]) /\ Apart(req[q], e)
  BY <1>0, <1>a, <1>e, <1>p, <1>u DEF Apart, Verifying, Merging, Fixed
<1> QED  BY <1>1, <1>2, <1>3, <1>4, QuietStep

LEMMA AddressIsTakenStep ==
  ASSUME IInv, NEW r \in Request, AddressIsTaken(r)
  PROVE  IInv'
<1>0. req[r] \in Entry /\ Local(req[r]) /\ Database  BY Here
<1>a. req[r].at = "attach"
      /\ \A q \in Request \ {r} : ~(Verifying(req[q]) /\ req[q].to = req[r].to)
  BY <1>0 DEF AddressIsTaken, At, AddressHeld, Verifying
<1>p. PICK h \in Holders(req[r].to) \ {req[r].user} :
        req' = [req EXCEPT ![r] = [req[r] EXCEPT !.at = "fold bills", !.target = h,
                                                 !.had = Had(req[r].user)]]
  BY DEF AddressIsTaken, IInv, TypeOK
<1>u. /\ h \in User /\ h # req[r].user
      /\ Had(req[r].user) \in [bills: SUBSET Bill, keys: SUBSET Passkey, upgraded: BOOLEAN]
      /\ \A b \in Had(req[r].user).bills : owner[b] = req[r].user
      /\ \A k \in Had(req[r].user).keys : keyOf[k] = req[r].user
  BY <1>0, <1>p DEF Holders, Database, Had, BillsOf, KeysOf
<1> DEFINE e == [req[r] EXCEPT !.at = "fold bills", !.target = h, !.had = Had(req[r].user)]
<1>w. "fold bills" \in Working \cup {"idle", "respond", "signed in", "done"}  BY <1>a DEF Working, Jobs
<1>1. e \in Entry  BY <1>0, <1>a, <1>w, <1>p, <1>u, ZenonT(60) DEF Entry
<1>2. req' = [req EXCEPT ![r] = e] /\ UNCHANGED <<codeVars, identity, cookie>>
  BY <1>a, <1>p, <1>u DEF AddressIsTaken, Goto, IInv, TypeOK
<1>e.
  /\ Fixed(e, req[r])
  /\ e.at = "fold bills" /\ e.user = req[r].user /\ e.set = req[r].set
  /\ e.code = req[r].code /\ e.tries = req[r].tries /\ e.target = h
  /\ e.bills = req[r].bills /\ e.keys = req[r].keys /\ e.had = Had(req[r].user)
  /\ e.faults = req[r].faults
  BY <1>0 DEF Entry, Fixed
<1> HIDE DEF e
<1>3. Local(e)
  <2>1. Placed(e)  BY <1>0, <1>a, <1>e, <1>p, <1>u DEF Local, Placed, Fixed, Merging, Rotating, Working, Jobs
  <2>2. HoldsCode(e)  BY <1>0, <1>a, <1>e, <1>p, <1>u DEF Local, HoldsCode, Fixed
  <2>3. FindsFree(e)  BY <1>0, <1>a, <1>e, <1>p, <1>u DEF Local, FindsFree, Fixed
  <2>4. Merges(e)  BY <1>0, <1>a, <1>e, <1>p, <1>u DEF Local, Merges, Fixed, Merging, Placed
  <2>5. Leaves(e)  BY <1>0, <1>a, <1>e, <1>p, <1>u DEF Local, Leaves, Fixed, Rotating
  <2> QED  BY <2>1, <2>2, <2>3, <2>4, <2>5 DEF Local
<1>4. \A q \in Request \ {r} : Apart(e, req[q]) /\ Apart(req[q], e)
  BY <1>0, <1>a, <1>e, <1>p, <1>u, ZenonT(90) DEF Apart, Verifying, Merging, Fixed
<1> QED  BY <1>1, <1>2, <1>3, <1>4, QuietStep

LEMMA SourceIsAnonymousStep ==
  ASSUME IInv, NEW r \in Request, SourceIsAnonymous(r)
  PROVE  IInv'
<1>0. req[r] \in Entry /\ Local(req[r]) /\ Database  BY Here
<1>a. req[r].at = "source"
  BY <1>0 DEF SourceIsAnonymous, At
<1>u. /\ Had(req[r].user) \in [bills: SUBSET Bill, keys: SUBSET Passkey, upgraded: BOOLEAN]
      /\ \A b \in Had(req[r].user).bills : owner[b] = req[r].user
      /\ Had(req[r].user).keys = {} /\ ~Had(req[r].user).upgraded
  BY <1>0 DEF SourceIsAnonymous, Anonymous, Database, Had, BillsOf, KeysOf
<1> DEFINE e == [req[r] EXCEPT !.at = "fold bills", !.had = Had(req[r].user)]
<1>w. "fold bills" \in Working \cup {"idle", "respond", "signed in", "done"}  BY <1>a DEF Working, Jobs
<1>1. e \in Entry  BY <1>0, <1>a, <1>w, <1>u, ZenonT(60) DEF Entry
<1>2. req' = [req EXCEPT ![r] = e] /\ UNCHANGED <<codeVars, identity, cookie>>
  BY <1>a, <1>u DEF SourceIsAnonymous, Goto, IInv, TypeOK
<1>e.
  /\ Fixed(e, req[r])
  /\ e.at = "fold bills" /\ e.user = req[r].user /\ e.set = req[r].set
  /\ e.code = req[r].code /\ e.tries = req[r].tries /\ e.target = req[r].target
  /\ e.bills = req[r].bills /\ e.keys = req[r].keys /\ e.had = Had(req[r].user)
  /\ e.faults = req[r].faults
  BY <1>0 DEF Entry, Fixed
<1> HIDE DEF e
<1>3. Local(e)
  <2>1. Placed(e)  BY <1>0, <1>a, <1>e, <1>u DEF Local, Placed, Fixed, Merging, Rotating, Working, Jobs
  <2>2. HoldsCode(e)  BY <1>0, <1>a, <1>e, <1>u DEF Local, HoldsCode, Fixed
  <2>3. FindsFree(e)  BY <1>0, <1>a, <1>e, <1>u DEF Local, FindsFree, Fixed
  <2>4. Merges(e)  BY <1>0, <1>a, <1>e, <1>u DEF Local, Merges, Fixed, Merging, Placed
  <2>5. Leaves(e)  BY <1>0, <1>a, <1>e, <1>u DEF Local, Leaves, Fixed, Rotating
  <2> QED  BY <2>1, <2>2, <2>3, <2>4, <2>5 DEF Local
<1>4. \A q \in Request \ {r} : Apart(e, req[q]) /\ Apart(req[q], e)
  BY <1>0, <1>a, <1>e, <1>u DEF Apart, Verifying, Merging, Fixed, Local, Placed
<1> QED  BY <1>1, <1>2, <1>3, <1>4, QuietStep

LEMMA FoldKeysStep ==
  ASSUME IInv, NEW r \in Request, FoldKeys(r)
  PROVE  IInv'
<1>0. req[r] \in Entry /\ Local(req[r]) /\ Database  BY Here
<1>a. req[r].at = "fold keys"
  BY <1>0 DEF FoldKeys, At
<1>u. /\ KeysOf(req[r].user) \subseteq Passkey
      /\ KeysOf(req[r].user) # {} => req[r].target \in users
      /\ \A k \in Passkey : k \in KeysOf(req[r].user) <=> keyOf[k] = req[r].user
  BY DEF FoldKeys, KeysOf
<1> DEFINE e == [req[r] EXCEPT !.at = "delete", !.keys = KeysOf(req[r].user)]
<1>w. "delete" \in Working \cup {"idle", "respond", "signed in", "done"}  BY <1>a DEF Working, Jobs
<1>1. e \in Entry  BY <1>0, <1>a, <1>w, <1>u, ZenonT(60) DEF Entry
<1>2. req' = [req EXCEPT ![r] = e] /\ UNCHANGED <<codeVars, identity, cookie>>
  BY <1>a, <1>u DEF FoldKeys, Goto, IInv, TypeOK
<1>e.
  /\ Fixed(e, req[r])
  /\ e.at = "delete" /\ e.user = req[r].user /\ e.set = req[r].set /\ e.code = req[r].code
  /\ e.tries = req[r].tries /\ e.target = req[r].target /\ e.bills = req[r].bills
  /\ e.keys = KeysOf(req[r].user) /\ e.had = req[r].had /\ e.faults = req[r].faults
  BY <1>0 DEF Entry, Fixed
<1> HIDE DEF e
<1>3. Local(e)
  <2>1. Placed(e)  BY <1>0, <1>a, <1>e, <1>u DEF Local, Placed, Fixed, Merging, Rotating, Working, Jobs
  <2>2. HoldsCode(e)  BY <1>0, <1>a, <1>e, <1>u DEF Local, HoldsCode, Fixed
  <2>3. FindsFree(e)  BY <1>0, <1>a, <1>e, <1>u DEF Local, FindsFree, Fixed
  <2>4. Merges(e)
    <3>1. req[r].job = "verify" /\ req[r].had \in [bills: SUBSET Bill, keys: SUBSET Passkey,
                                                   upgraded: BOOLEAN]
      BY <1>0, <1>a DEF Local, Placed, Entry
    <3>2. /\ req[r].target # req[r].user /\ req[r].target \in User
          /\ req[r].bills # {} => req[r].target \in users
          /\ \A b \in req[r].bills : owner[b] = req[r].user
          /\ req[r].user \in users => /\ req[r].had.bills \subseteq req[r].bills
                                     /\ \A k \in req[r].had.keys : keyOf[k] = req[r].user
      BY <1>0, <1>a DEF Local, Merges, Merging
    <3>3. req[r].user \in users => req[r].had.keys \subseteq KeysOf(req[r].user)
      BY <3>1, <3>2, <1>u
    <3> QED  BY <1>a, <1>e, <1>u, <3>1, <3>2, <3>3 DEF Merges, Fixed, Merging
  <2>5. Leaves(e)  BY <1>0, <1>a, <1>e, <1>u DEF Local, Leaves, Fixed, Rotating
  <2> QED  BY <2>1, <2>2, <2>3, <2>4, <2>5 DEF Local
<1>4. \A q \in Request \ {r} : Apart(e, req[q]) /\ Apart(req[q], e)
  BY <1>0, <1>a, <1>e, <1>u, ZenonT(90) DEF Apart, Verifying, Merging, Fixed, IInv, Local, Placed
<1> QED  BY <1>1, <1>2, <1>3, <1>4, QuietStep

LEMMA FoldBillsStep ==
  ASSUME IInv, NEW r \in Request, FoldBills(r)
  PROVE  IInv'
<1>0. req[r] \in Entry /\ Local(req[r]) /\ Database  BY Here
<1>a. req[r].at = "fold bills"
  BY <1>0 DEF FoldBills, At
<1>p. PICK s \in {"fold keys", "delete"} :
        /\ s = (IF req[r].job = "verify" THEN "fold keys" ELSE "delete")
        /\ req' = [req EXCEPT ![r] = [req[r] EXCEPT !.at = s, !.bills = BillsOf(req[r].user)]]
  BY DEF FoldBills, IInv, TypeOK
<1>u. /\ BillsOf(req[r].user) \subseteq Bill
      /\ BillsOf(req[r].user) # {} => req[r].target \in users
      /\ \A b \in Bill : b \in BillsOf(req[r].user) <=> owner[b] = req[r].user
  BY <1>0, <1>a, SignInAssumption DEF FoldBills, BillsOf, Database, RowsAreSound, Local, Placed,
                                 Working
<1> DEFINE e == [req[r] EXCEPT !.at = s, !.bills = BillsOf(req[r].user)]
<1>w. s \in Working \cup {"idle", "respond", "signed in", "done"}  BY <1>a DEF Working, Jobs
<1>1. e \in Entry  BY <1>0, <1>a, <1>w, <1>u, ZenonT(60) DEF Entry
<1>2. req' = [req EXCEPT ![r] = e] /\ UNCHANGED <<codeVars, identity, cookie>>
  BY <1>a, <1>p, <1>u DEF FoldBills, Goto, IInv, TypeOK
<1>e.
  /\ Fixed(e, req[r])
  /\ e.at = s /\ e.user = req[r].user /\ e.set = req[r].set /\ e.code = req[r].code
  /\ e.tries = req[r].tries /\ e.target = req[r].target /\ e.bills = BillsOf(req[r].user)
  /\ e.keys = req[r].keys /\ e.had = req[r].had /\ e.faults = req[r].faults
  BY <1>0 DEF Entry, Fixed
<1> HIDE DEF e
<1>3. Local(e)
  <2>1. Placed(e)  BY <1>0, <1>a, <1>e, <1>p, <1>u DEF Local, Placed, Fixed, Merging, Rotating, Working, Jobs
  <2>2. HoldsCode(e)  BY <1>0, <1>a, <1>e, <1>p, <1>u DEF Local, HoldsCode, Fixed
  <2>3. FindsFree(e)  BY <1>0, <1>a, <1>e, <1>p, <1>u DEF Local, FindsFree, Fixed
  <2>4. Merges(e)
    <3>1. req[r].had \in [bills: SUBSET Bill, keys: SUBSET Passkey, upgraded: BOOLEAN]
          /\ req[r].job \in {"verify", "login"} /\ req[r].user \in User
      BY <1>0, <1>a DEF Local, Placed, Entry, Merging, Database
    <3>2. /\ req[r].target # req[r].user /\ req[r].target \in User /\ req[r].keys = {}
          /\ req[r].user \in users => /\ \A b \in req[r].had.bills : owner[b] = req[r].user
                                     /\ \A k \in req[r].had.keys : keyOf[k] = req[r].user
          /\ req[r].job = "login" => ~req[r].had.upgraded /\ req[r].had.keys = {}
      BY <1>0, <1>a DEF Local, Merges, Merging
    <3>3. req[r].user \in users => req[r].had.bills \subseteq BillsOf(req[r].user)
      BY <3>1, <3>2, <1>u
    <3> QED  BY <1>a, <1>e, <1>p, <1>u, <3>1, <3>2, <3>3 DEF Merges, Fixed, Merging
  <2>5. Leaves(e)  BY <1>0, <1>a, <1>e, <1>p, <1>u DEF Local, Leaves, Fixed, Rotating
  <2> QED  BY <2>1, <2>2, <2>3, <2>4, <2>5 DEF Local
<1>4. \A q \in Request \ {r} : Apart(e, req[q]) /\ Apart(req[q], e)
  BY <1>0, <1>a, <1>e, <1>p, <1>u, ZenonT(90) DEF Apart, Verifying, Merging, Fixed, IInv, Local, Placed
<1> QED  BY <1>1, <1>2, <1>3, <1>4, QuietStep

LEMMA IdleIsAnEntry ==
  /\ Idle \in Entry
  /\ Idle.user = None /\ Idle.set = Keep /\ Idle.bills = {} /\ Idle.keys = {}
<1>1. "bill" \in Jobs  BY DEF Jobs
<1>2. 0 \in 0..MaxCodes /\ Nothing \in [bills: SUBSET Bill, keys: SUBSET Passkey, upgraded: BOOLEAN]
  BY CodesAssumption DEF Nothing
<1> QED  BY <1>1, <1>2 DEF Idle, Entry

\* The entry of a request the moment it is sent.
Sent(d, s, b, j, t, m, g, n, k) ==
  [d EXCEPT !.at = s, !.job = j, !.browser = b, !.token = t, !.to = m,
            !.guess = g, !.ceremony = n, !.passkey = k]
LEMMA SentIsAnEntry ==
  ASSUME NEW d \in Entry, NEW b \in Browser, NEW j \in Jobs, NEW t \in Token \cup {None},
         NEW m \in Email \cup {None}, NEW g \in 0..MaxCodes,
         NEW n \in Ceremony \cup {None}, NEW k \in Passkey \cup {None}, NEW s \in Working
  PROVE  Sent(d, s, b, j, t, m, g, n, k) \in Entry
BY ZenonT(120) DEF Entry, Sent

\* A new request knows nothing but what it was sent with.
LEMMA SendStep ==
  ASSUME IInv, NEW r \in Request, Send(r)
  PROVE  IInv'
<1>0. req[r] \in Entry /\ Local(req[r]) /\ Database  BY Here
<1>1. PICK b \in Browser, j \in Jobs :
        \E m \in Addressed(j), n \in Ceremonies(j), k \in Passkeys(j) :
          \E g \in IF j = "verify" THEN Guesses(m) ELSE {0} :
            req' = [req EXCEPT ![r] = [Idle EXCEPT !.at = "identify", !.job = j, !.browser = b,
              !.token = cookie[b], !.to = m, !.guess = g, !.ceremony = n, !.passkey = k]]
  BY DEF Send
<1>2. PICK m \in Addressed(j), n \in Ceremonies(j), k \in Passkeys(j) :
        \E g \in IF j = "verify" THEN Guesses(m) ELSE {0} :
          req' = [req EXCEPT ![r] = [Idle EXCEPT !.at = "identify", !.job = j, !.browser = b,
            !.token = cookie[b], !.to = m, !.guess = g, !.ceremony = n, !.passkey = k]]
  BY <1>1
<1>3. PICK g \in IF j = "verify" THEN Guesses(m) ELSE {0} :
        req' = [req EXCEPT ![r] = [Idle EXCEPT !.at = "identify", !.job = j, !.browser = b,
          !.token = cookie[b], !.to = m, !.guess = g, !.ceremony = n, !.passkey = k]]
  BY <1>2
<1> DEFINE e == Sent(Idle, "identify", b, j, cookie[b], m, g, n, k)
<1>4. /\ m \in Email \cup {None}
      /\ j \in {"ask", "verify"} => m \in Email
      /\ n \in Ceremony \cup {None}
      /\ j \in {"register", "login"} => n \in Ceremony
      /\ k \in Passkey \cup {None}
      /\ j = "login" => k \in Passkey
      /\ g \in 0..MaxCodes
      /\ cookie[b] \in used \cup {None} /\ used \subseteq Token
  BY <1>0, CodesAssumption DEF Addressed, Ceremonies, Passkeys, Guesses, Database
<1>w. "identify" \in Working  BY DEF Working
<1>b. b \in Browser /\ j \in Jobs  BY <1>1
<1>n. "identify" \notin Jobs /\ "identify" \notin Merging /\ "identify" \notin Rotating
  BY DEF Jobs, Merging, Rotating
<1>5. e \in Entry
  <2>1. cookie[b] \in Token \cup {None}  BY <1>4
  <2> QED  BY <1>4, <1>b, <1>w, <2>1, IdleIsAnEntry, SentIsAnEntry
<1>6. req' = [req EXCEPT ![r] = e] /\ UNCHANGED <<codeVars, identity, cookie>>
  BY <1>3 DEF Send, Sent
<1>e. /\ e.at = "identify" /\ e.job = j /\ e.token = cookie[b] /\ e.user = None /\ e.set = Keep
      /\ e.to = m /\ e.ceremony = n /\ e.passkey = k
      /\ e.bills = {} /\ e.keys = {}
  BY IdleIsAnEntry, ZenonT(90) DEF Entry, Sent
<1> HIDE DEF e
<1>7. Local(e)
  <2>1. Placed(e)  BY <1>e, <1>4, <1>n DEF Placed
  <2>2. HoldsCode(e) /\ FindsFree(e)  BY <1>e DEF HoldsCode, FindsFree
  <2>3. Merges(e)  BY <1>e, <1>n DEF Merges, Merging
  <2>4. Leaves(e)  BY <1>e, <1>n DEF Leaves, Rotating
  <2> QED  BY <2>1, <2>2, <2>3, <2>4 DEF Local
<1>8. \A q \in Request \ {r} : Apart(e, req[q]) /\ Apart(req[q], e)
  BY <1>e, <1>n DEF Apart, Verifying
<1> QED  BY <1>5, <1>6, <1>7, <1>8, QuietStep

\* The record of a request that has answered.
LEMMA Finished ==
  ASSUME NEW r \in Request, IInv
  PROVE  /\ Done \in Entry /\ Local(Done)
         /\ \A q \in Request : Apart(Done, req[q]) /\ Apart(req[q], Done)
<1>e. Done = [at |-> "done", job |-> "bill", browser |-> None, token |-> None, user |-> None,
              set |-> Keep, to |-> None, guess |-> 0, code |-> 0, tries |-> 0, ceremony |-> None,
              passkey |-> None, target |-> None, bills |-> {}, keys |-> {}, had |-> Nothing,
              faults |-> {}]
  BY DEF Done, Idle
<1>n. /\ "done" \notin Working /\ "done" \notin Jobs /\ "done" \notin Merging
      /\ "done" \notin Rotating /\ "bill" \in Jobs
  BY DEF Working, Jobs, Merging, Rotating
<1>t. 0 \in 0..MaxCodes /\ Nothing \in [bills: SUBSET Bill, keys: SUBSET Passkey, upgraded: BOOLEAN]
  BY CodesAssumption DEF Nothing
<1>1. Done \in Entry  BY <1>e, <1>n, <1>t DEF Entry
<1>2. Placed(Done)  BY <1>e, <1>n DEF Placed
<1>3. HoldsCode(Done) /\ FindsFree(Done)  BY <1>e DEF HoldsCode, FindsFree
<1>4. Merges(Done)  BY <1>e, <1>n DEF Merges, Merging
<1>5. Leaves(Done)  BY <1>e, <1>n DEF Leaves, Rotating
<1>6. \A q \in Request : Apart(Done, req[q]) /\ Apart(req[q], Done)
  BY <1>e, <1>n DEF Apart, Verifying
<1> QED  BY <1>1, <1>2, <1>3, <1>4, <1>5, <1>6 DEF Local

LEMMA ResponseLostStep ==
  ASSUME IInv, NEW r \in Request, ResponseLost(r)
  PROVE  IInv'
<1>1. req' = [req EXCEPT ![r] = Done] /\ UNCHANGED <<codeVars, identity, cookie>>
  BY DEF ResponseLost
<1> QED  BY <1>1, Finished, QuietStep

LEMMA RespondStep ==
  ASSUME IInv, NEW r \in Request, Respond(r)
  PROVE  IInv'
<1>0. req[r] \in Entry /\ Local(req[r]) /\ Database  BY Here
<1>1. req' = [req EXCEPT ![r] = Done] /\ UNCHANGED <<codeVars, identity>>
  BY DEF Respond
<1>2. req[r].set \in used \cup {None, Keep}
  BY <1>0 DEF Local, Placed
<1>3. cookie' = [cookie EXCEPT ![req[r].browser] =
                   IF req[r].set = Keep THEN cookie[req[r].browser] ELSE req[r].set]
  BY DEF Respond
<1>4. cookie' \in [Browser -> used \cup {None}]
  BY <1>0, <1>2, <1>3 DEF Database
<1>5. Database'
  BY <1>0, <1>1, <1>4 DEF Database, CodesAreSound, RowsAreSound, PasskeysNameTheirUser,
                          codeVars, identity
<1>6. Local(Done)'  BY <1>1, Finished, SameTables
<1>7. ASSUME NEW q \in Request \ {r}, NEW f \in Entry, f = req[q] PROVE Local(f)'
  BY <1>1, <1>7, SameTables DEF IInv
<1> QED  BY <1>1, <1>5, <1>6, <1>7, Finished, OneStep

-----------------------------------------------------------------------------
(* Steps that change the tables of identities *)

\* What every step does to the tables of identities: nobody who is gone comes back, a dead
\* session stays dead, and whoever stays keeps bills and passkeys.
Grown ==
  /\ UNCHANGED codeVars
  /\ used \subseteq used' /\ known \subseteq known'
  /\ \A u \in known \cup {None} : u \in users' => u \in users
  /\ \A t \in used : session[t] = None => session'[t] = None
  /\ \A b \in Bill : owner[b] \in users' => owner'[b] = owner[b]
  /\ \A k \in Passkey : keyOf[k] \in users' => keyOf'[k] = keyOf[k]

\* What a step may not take from a request that is under way.
Spares(f) ==
  /\ \A b \in f.bills : owner'[b] = owner[b]
  /\ \A k \in f.keys : keyOf'[k] = keyOf[k]
  /\ f.bills # {} \/ f.keys # {} => f.target \in users'
  /\ f.at = "claim" => {u \in users' : email'[u] = f.to} = {}

LEMMA StaysTrue ==
  ASSUME Database, Grown, NEW f \in Entry, Local(f), Spares(f)
  PROVE  Local(f)'
<1>1. Placed(f)'
  BY DEF Local, Placed, Grown
<1>2. HoldsCode(f)'
  BY DEF Local, HoldsCode, Grown, codeVars, Live
<1>3. FindsFree(f)'
  BY DEF FindsFree, Spares
<1>4. Merges(f)'
  <2>1. f.user \in known \cup {None} /\ (f.at \in Merging => f.user \in known)
    BY DEF Local, Placed, Merging, Working
  <2>2. f.user \in known \cup {None} => (f.user \in users' => f.user \in users)
    BY DEF Grown
  <2>3. /\ f.had \in [bills: SUBSET Bill, keys: SUBSET Passkey, upgraded: BOOLEAN]
        /\ f.had.bills \subseteq Bill /\ f.had.keys \subseteq Passkey
    BY DEF Entry
  <2>4. \A b \in f.bills : owner'[b] = f.user
    BY DEF Local, Merges, Spares
  <2>5. \A k \in f.keys : keyOf'[k] = f.user
    BY DEF Local, Merges, Spares
  <2>6. (f.at = "fold bills" /\ f.user \in users') => \A b \in f.had.bills : owner'[b] = f.user
    BY <2>1, <2>2, <2>3 DEF Local, Merges, Grown
  <2>7. (f.at \in {"fold bills", "fold keys"} /\ f.user \in users') =>
          \A k \in f.had.keys : keyOf'[k] = f.user
    BY <2>1, <2>2, <2>3 DEF Local, Merges, Grown
  <2> QED  BY <2>1, <2>2, <2>4, <2>5, <2>6, <2>7 DEF Local, Merges, Spares
<1>5. Leaves(f)'
  <2>1. /\ f.user \in known \cup {None} /\ f.token \in used \cup {None}
    BY DEF Local, Placed
  <2>2. (f.user \in users' => f.user \in users)
        /\ (f.token = None \/ (session[f.token] = None => session'[f.token] = None))
    BY <2>1 DEF Grown
  <2> QED  BY <2>2 DEF Local, Leaves
<1> QED  BY <1>1, <1>2, <1>3, <1>4, <1>5 DEF Local

LEMMA TableStep ==
  ASSUME IInv, NEW r \in Request, NEW e \in Entry, req' = [req EXCEPT ![r] = e],
         Database', Grown, Local(e)',
         \A q \in Request \ {r}, f \in Entry : f = req[q] /\ Local(f) => Spares(f),
         \A q \in Request \ {r} : Apart(e, req[q]) /\ Apart(req[q], e)
  PROVE  IInv'
<1>1. Database  BY DEF IInv, TypeOK, Database
<1>2. ASSUME NEW q \in Request \ {r}, NEW f \in Entry, f = req[q] PROVE Local(f)'
  <2>1. Local(f)  BY <1>2 DEF IInv
  <2>2. Spares(f)  BY <1>2, <2>1
  <2> QED  BY <1>1, <2>1, <2>2, StaysTrue
<1> QED  BY <1>2, OneStep

\* A step that leaves users, addresses, bills and passkeys alone spares everybody.
LEMMA SparesAll ==
  ASSUME UNCHANGED <<users, email, owner, keyOf>>, NEW f \in Entry, Local(f)
  PROVE  Spares(f)
BY DEF Spares, Local, Merges, FindsFree

LEMMA LogoutStep ==
  ASSUME IInv, NEW r \in Request, Logout(r)
  PROVE  IInv'
<1>0. req[r] \in Entry /\ Local(req[r]) /\ Database  BY Here
<1>a. req[r].at = "logout"
  BY <1>0 DEF Logout, At
<1> DEFINE d == [req[r] EXCEPT !.at = "respond", !.set = None]
<1>w. "respond" \in Working \cup {"idle", "respond", "signed in", "done"}  BY <1>a DEF Working, Jobs
<1>d. d \in Entry  BY <1>0, <1>a, <1>w, ZenonT(60) DEF Entry
<1>c. req' = [req EXCEPT ![r] = d]
  BY <1>a DEF Logout, Goto, IInv, TypeOK
<1>1. PICK e \in Entry : e = d  BY <1>d
<1>2. req' = [req EXCEPT ![r] = e] /\ e = d  BY <1>1, <1>c
<1>e.
  /\ Fixed(e, req[r])
  /\ e.at = "respond" /\ e.user = req[r].user /\ e.set = None /\ e.code = req[r].code
  /\ e.tries = req[r].tries /\ e.target = req[r].target /\ e.bills = req[r].bills
  /\ e.keys = req[r].keys /\ e.had = req[r].had /\ e.faults = req[r].faults
  BY <1>0, <1>2, ZenonT(120) DEF Entry, Fixed
<1> HIDE DEF d
<1>g. UNCHANGED <<codeVars, users, known, email, bills, owner, keyOf, handle, used, ceremony, cookie>>
  BY DEF Logout
<1>h. session' = [t \in Token |-> IF t = req[r].token THEN None ELSE session[t]]
  BY DEF Logout
<1>3. Database'
  BY <1>0, <1>g, <1>h DEF Database, CodesAreSound, RowsAreSound, PasskeysNameTheirUser, codeVars
<1>4. Grown
  BY <1>0, <1>g, <1>h DEF Grown, Database
<1>5. Local(e)
  <2>1. Placed(e)  BY <1>0, <1>a, <1>e DEF Local, Placed, Fixed, Merging, Rotating, Working, Jobs
  <2>2. HoldsCode(e)  BY <1>0, <1>a, <1>e DEF Local, HoldsCode, Fixed
  <2>3. FindsFree(e)  BY <1>0, <1>a, <1>e DEF Local, FindsFree, Fixed
  <2>4. Merges(e)  BY <1>0, <1>a, <1>e DEF Local, Merges, Fixed, Merging
  <2>5. Leaves(e)  BY <1>0, <1>a, <1>e DEF Local, Leaves, Fixed, Rotating, Placed, Jobs
  <2> QED  BY <2>1, <2>2, <2>3, <2>4, <2>5 DEF Local
<1>6. \A f \in Entry : (f = e \/ \E q \in Request \ {r} : f = req[q]) /\ Local(f) => Spares(f)
  BY <1>g, SparesAll
<1>7. Local(e)'
  <2>1. Spares(e)  BY <1>1, <1>5, <1>6
  <2> QED  BY <1>0, <1>1, <1>4, <1>5, <2>1, StaysTrue
<1>8. \A q \in Request \ {r} : Apart(e, req[q]) /\ Apart(req[q], e)
  BY <1>0, <1>a, <1>e DEF Apart, Verifying, Merging, Fixed
<1> QED  BY <1>1, <1>2, <1>3, <1>4, <1>6, <1>7, <1>8, TableStep

LEMMA CreateBillStep ==
  ASSUME IInv, NEW r \in Request, CreateBill(r)
  PROVE  IInv'
<1>0. req[r] \in Entry /\ Local(req[r]) /\ Database  BY Here
<1>a. req[r].at = "bill" /\ req[r].user \in users
  BY <1>0 DEF CreateBill, At
<1> DEFINE d == [req[r] EXCEPT !.at = "respond"]
<1>w. "respond" \in Working \cup {"idle", "respond", "signed in", "done"}  BY <1>a DEF Working, Jobs
<1>d. d \in Entry  BY <1>0, <1>a, <1>w DEF Entry
<1>c. req' = [req EXCEPT ![r] = d]
  BY <1>a DEF CreateBill, Goto, IInv, TypeOK
<1>1. PICK e \in Entry : e = d  BY <1>d
<1>2. req' = [req EXCEPT ![r] = e] /\ e = d  BY <1>1, <1>c
<1>e.
  /\ Fixed(e, req[r])
  /\ e.at = "respond" /\ e.user = req[r].user /\ e.set = req[r].set
  /\ e.code = req[r].code /\ e.tries = req[r].tries /\ e.target = req[r].target
  /\ e.bills = req[r].bills /\ e.keys = req[r].keys /\ e.had = req[r].had
  /\ e.faults = req[r].faults
  BY <1>0, <1>2, ZenonT(30) DEF Entry, Fixed
<1> HIDE DEF d
<1>g. UNCHANGED <<codeVars, users, known, email, keyOf, handle, session, used, ceremony, cookie>>
  BY DEF CreateBill
<1>b. PICK b \in Bill \ bills : /\ bills' = bills \cup {b}
                               /\ owner' = [owner EXCEPT ![b] = req[r].user]
  BY <1>0, FreshIsNew DEF CreateBill, Database
<1>h. owner[b] = None /\ None \notin users /\ req[r].user \in User
  BY <1>0, <1>a, <1>b, SignInAssumption DEF Database, RowsAreSound
<1>3. Database'
  BY <1>0, <1>g, <1>h, <1>a, <1>b DEF Database, CodesAreSound, RowsAreSound, PasskeysNameTheirUser, codeVars
<1>4. Grown
  BY <1>0, <1>g, <1>h, <1>b DEF Grown, Database
<1>5. Local(e)
  <2>1. Placed(e)  BY <1>0, <1>a, <1>e DEF Local, Placed, Fixed, Merging, Rotating, Working, Jobs
  <2>2. HoldsCode(e)  BY <1>0, <1>a, <1>e DEF Local, HoldsCode, Fixed
  <2>3. FindsFree(e)  BY <1>0, <1>a, <1>e DEF Local, FindsFree, Fixed
  <2>4. Merges(e)  BY <1>0, <1>a, <1>e DEF Local, Merges, Fixed, Merging
  <2>5. Leaves(e)  BY <1>0, <1>a, <1>e DEF Local, Leaves, Fixed, Rotating
  <2> QED  BY <2>1, <2>2, <2>3, <2>4, <2>5 DEF Local
<1>6. \A f \in Entry : (f = e \/ \E q \in Request \ {r} : f = req[q]) /\ Local(f) => Spares(f)
  <2> SUFFICES ASSUME NEW f \in Entry, Local(f) PROVE Spares(f)
    OBVIOUS
  <2>1. f.bills # {} => f.user \in known
    BY DEF Local, Placed, Merges, Merging, Working
  <2>2. \A x \in f.bills : owner[x] = f.user /\ x \in Bill
    BY DEF Local, Merges, Entry
  <2>3. None \notin known  BY <1>0, SignInAssumption DEF Database
  <2>4. \A x \in f.bills : owner'[x] = owner[x]
    BY <1>0, <1>b, <1>h, <2>1, <2>2, <2>3 DEF Database
  <2> QED  BY <1>g, <2>4 DEF Spares, Local, Merges, FindsFree
<1>7. Local(e)'
  <2>1. Spares(e)  BY <1>1, <1>5, <1>6
  <2> QED  BY <1>0, <1>1, <1>4, <1>5, <2>1, StaysTrue
<1>8. \A q \in Request \ {r} : Apart(e, req[q]) /\ Apart(req[q], e)
  BY <1>0, <1>a, <1>e DEF Apart, Verifying, Merging, Fixed
<1> QED  BY <1>1, <1>2, <1>3, <1>4, <1>6, <1>7, <1>8, TableStep

LEMMA ClaimAddressStep ==
  ASSUME IInv, NEW r \in Request, ClaimAddress(r)
  PROVE  IInv'
<1>0. req[r] \in Entry /\ Local(req[r]) /\ Database  BY Here
<1>a. req[r].at = "claim" /\ req[r].job = "verify" /\ req[r].to \in Email
  BY <1>0 DEF ClaimAddress, At, Local, Placed, Working, Entry
<1> DEFINE d == [req[r] EXCEPT !.at = "rotate", !.target = req[r].user]
<1>w. "rotate" \in Working \cup {"idle", "respond", "signed in", "done"}  BY <1>a DEF Working, Jobs
<1>d. d \in Entry  BY <1>0, <1>a, <1>w, ZenonT(60) DEF Entry
<1>c. req' = [req EXCEPT ![r] = d]
  BY <1>a DEF ClaimAddress, Goto, IInv, TypeOK
<1>1. PICK e \in Entry : e = d  BY <1>d
<1>2. req' = [req EXCEPT ![r] = e] /\ e = d  BY <1>1, <1>c
<1>e.
  /\ Fixed(e, req[r])
  /\ e.at = "rotate" /\ e.user = req[r].user /\ e.set = req[r].set /\ e.code = req[r].code
  /\ e.tries = req[r].tries /\ e.target = req[r].user /\ e.bills = req[r].bills
  /\ e.keys = req[r].keys /\ e.had = req[r].had /\ e.faults = req[r].faults
  BY <1>0, <1>2, ZenonT(120) DEF Entry, Fixed
<1> HIDE DEF d
<1>g. UNCHANGED <<codeVars, users, known, bills, owner, keyOf, handle, session, used, ceremony, cookie>>
  BY DEF ClaimAddress
<1>h. /\ email' = IF req[r].user \in users THEN [email EXCEPT ![req[r].user] = req[r].to] ELSE email
      /\ req[r].to \in Email
  BY <1>a DEF ClaimAddress
<1>3. Database'
  BY <1>0, <1>g, <1>h DEF Database, CodesAreSound, RowsAreSound, PasskeysNameTheirUser, codeVars
<1>4. Grown
  BY <1>0, <1>g, <1>h DEF Grown, Database
<1>5. Local(e)
  <2>1. Placed(e)  BY <1>0, <1>a, <1>e DEF Local, Placed, Fixed, Merging, Rotating, Working, Jobs
  <2>2. HoldsCode(e)  BY <1>0, <1>a, <1>e DEF Local, HoldsCode, Fixed
  <2>3. FindsFree(e)  BY <1>0, <1>a, <1>e DEF Local, FindsFree, Fixed
  <2>4. Merges(e)  BY <1>0, <1>a, <1>e DEF Local, Merges, Fixed, Merging
  <2>5. Leaves(e)  BY <1>0, <1>a, <1>e DEF Local, Leaves, Fixed, Rotating
  <2> QED  BY <2>1, <2>2, <2>3, <2>4, <2>5 DEF Local
<1>6. \A f \in Entry : (f = e \/ \E q \in Request \ {r} : f = req[q]) /\ Local(f) => Spares(f)
  <2> SUFFICES ASSUME NEW f \in Entry, Local(f), f = e \/ \E q \in Request \ {r} : f = req[q]
               PROVE  Spares(f)
    OBVIOUS
  <2>1. f.at = "claim" => f.to # req[r].to
    <3> SUFFICES ASSUME f.at = "claim", f.to = req[r].to, NEW q \in Request \ {r}, f = req[q] PROVE FALSE
      BY <1>e
    <3>1. Verifying(req[r]) /\ Verifying(req[q])
      BY <1>0, <1>a DEF Verifying, Local, Placed
    <3> QED  BY <3>1 DEF IInv, Apart
  <2>2. f.at = "claim" => {u \in users : email[u] = f.to} = {}
    BY DEF Local, FindsFree
  <2>3. f.at = "claim" => {u \in users' : email'[u] = f.to} = {}
    BY <1>0, <1>g, <1>h, <2>1, <2>2 DEF Database
  <2> QED  BY <1>g, <2>3 DEF Spares, Local, Merges
<1>7. Local(e)'
  <2>1. Spares(e)  BY <1>1, <1>5, <1>6
  <2> QED  BY <1>0, <1>1, <1>4, <1>5, <2>1, StaysTrue
<1>8. \A q \in Request \ {r} : Apart(e, req[q]) /\ Apart(req[q], e)
  BY <1>0, <1>a, <1>e DEF Apart, Verifying, Merging, Fixed
<1> QED  BY <1>1, <1>2, <1>3, <1>4, <1>6, <1>7, <1>8, TableStep

LEMMA BeginPasskeyRegistrationStep ==
  ASSUME IInv, NEW r \in Request, BeginPasskeyRegistration(r)
  PROVE  IInv'
<1>0. req[r] \in Entry /\ Local(req[r]) /\ Database  BY Here
<1>a. req[r].at = "begin registration" /\ req[r].user \in users
  BY <1>0 DEF BeginPasskeyRegistration, At
<1> DEFINE d == [req[r] EXCEPT !.at = "respond"]
<1>w. "respond" \in Working \cup {"idle", "respond", "signed in", "done"}  BY <1>a DEF Working, Jobs
<1>d. d \in Entry  BY <1>0, <1>a, <1>w DEF Entry
<1>c. req' = [req EXCEPT ![r] = d]
  BY <1>a DEF BeginPasskeyRegistration, Goto, IInv, TypeOK, Begin
<1>1. PICK e \in Entry : e = d  BY <1>d
<1>2. req' = [req EXCEPT ![r] = e] /\ e = d  BY <1>1, <1>c
<1>e.
  /\ Fixed(e, req[r])
  /\ e.at = "respond" /\ e.user = req[r].user /\ e.set = req[r].set
  /\ e.code = req[r].code /\ e.tries = req[r].tries /\ e.target = req[r].target
  /\ e.bills = req[r].bills /\ e.keys = req[r].keys /\ e.had = req[r].had
  /\ e.faults = req[r].faults
  BY <1>0, <1>2, ZenonT(30) DEF Entry, Fixed
<1> HIDE DEF d
<1>g. UNCHANGED <<codeVars, users, known, email, bills, owner, keyOf, handle, session, used, cookie>>
  BY DEF BeginPasskeyRegistration, Begin
<1>h. PICK n \in Ceremony : ceremony' = [ceremony EXCEPT ![n] = [kind |-> "registration", user |-> req[r].user]]
  BY DEF BeginPasskeyRegistration, Begin
<1>3. Database'
  BY <1>0, <1>g, <1>a, <1>h DEF Database, CodesAreSound, RowsAreSound, PasskeysNameTheirUser, codeVars
<1>4. Grown
  BY <1>0, <1>g, <1>h DEF Grown, Database
<1>5. Local(e)
  <2>1. Placed(e)  BY <1>0, <1>a, <1>e DEF Local, Placed, Fixed, Merging, Rotating, Working, Jobs
  <2>2. HoldsCode(e)  BY <1>0, <1>a, <1>e DEF Local, HoldsCode, Fixed
  <2>3. FindsFree(e)  BY <1>0, <1>a, <1>e DEF Local, FindsFree, Fixed
  <2>4. Merges(e)  BY <1>0, <1>a, <1>e DEF Local, Merges, Fixed, Merging
  <2>5. Leaves(e)  BY <1>0, <1>a, <1>e DEF Local, Leaves, Fixed, Rotating
  <2> QED  BY <2>1, <2>2, <2>3, <2>4, <2>5 DEF Local
<1>6. \A f \in Entry : (f = e \/ \E q \in Request \ {r} : f = req[q]) /\ Local(f) => Spares(f)
  BY <1>g, SparesAll
<1>7. Local(e)'
  <2>1. Spares(e)  BY <1>1, <1>5, <1>6
  <2> QED  BY <1>0, <1>1, <1>4, <1>5, <2>1, StaysTrue
<1>8. \A q \in Request \ {r} : Apart(e, req[q]) /\ Apart(req[q], e)
  BY <1>0, <1>a, <1>e DEF Apart, Verifying, Merging, Fixed
<1> QED  BY <1>1, <1>2, <1>3, <1>4, <1>6, <1>7, <1>8, TableStep

LEMMA BeginPasskeyLoginStep ==
  ASSUME IInv, NEW r \in Request, BeginPasskeyLogin(r)
  PROVE  IInv'
<1>0. req[r] \in Entry /\ Local(req[r]) /\ Database  BY Here
<1>a. req[r].at = "begin login"
  BY <1>0 DEF BeginPasskeyLogin, At
<1> DEFINE d == [req[r] EXCEPT !.at = "respond"]
<1>w. "respond" \in Working \cup {"idle", "respond", "signed in", "done"}  BY <1>a DEF Working, Jobs
<1>d. d \in Entry  BY <1>0, <1>a, <1>w DEF Entry
<1>c. req' = [req EXCEPT ![r] = d]
  BY <1>a DEF BeginPasskeyLogin, Goto, IInv, TypeOK, Begin
<1>1. PICK e \in Entry : e = d  BY <1>d
<1>2. req' = [req EXCEPT ![r] = e] /\ e = d  BY <1>1, <1>c
<1>e.
  /\ Fixed(e, req[r])
  /\ e.at = "respond" /\ e.user = req[r].user /\ e.set = req[r].set
  /\ e.code = req[r].code /\ e.tries = req[r].tries /\ e.target = req[r].target
  /\ e.bills = req[r].bills /\ e.keys = req[r].keys /\ e.had = req[r].had
  /\ e.faults = req[r].faults
  BY <1>0, <1>2, ZenonT(30) DEF Entry, Fixed
<1> HIDE DEF d
<1>g. UNCHANGED <<codeVars, users, known, email, bills, owner, keyOf, handle, session, used, cookie>>
  BY DEF BeginPasskeyLogin, Begin
<1>h. PICK n \in Ceremony : ceremony' = [ceremony EXCEPT ![n] = [kind |-> "login", user |-> None]]
  BY DEF BeginPasskeyLogin, Begin
<1>3. Database'
  BY <1>0, <1>g, <1>a, <1>h DEF Database, CodesAreSound, RowsAreSound, PasskeysNameTheirUser, codeVars
<1>4. Grown
  BY <1>0, <1>g, <1>h DEF Grown, Database
<1>5. Local(e)
  <2>1. Placed(e)  BY <1>0, <1>a, <1>e DEF Local, Placed, Fixed, Merging, Rotating, Working, Jobs
  <2>2. HoldsCode(e)  BY <1>0, <1>a, <1>e DEF Local, HoldsCode, Fixed
  <2>3. FindsFree(e)  BY <1>0, <1>a, <1>e DEF Local, FindsFree, Fixed
  <2>4. Merges(e)  BY <1>0, <1>a, <1>e DEF Local, Merges, Fixed, Merging
  <2>5. Leaves(e)  BY <1>0, <1>a, <1>e DEF Local, Leaves, Fixed, Rotating
  <2> QED  BY <2>1, <2>2, <2>3, <2>4, <2>5 DEF Local
<1>6. \A f \in Entry : (f = e \/ \E q \in Request \ {r} : f = req[q]) /\ Local(f) => Spares(f)
  BY <1>g, SparesAll
<1>7. Local(e)'
  <2>1. Spares(e)  BY <1>1, <1>5, <1>6
  <2> QED  BY <1>0, <1>1, <1>4, <1>5, <2>1, StaysTrue
<1>8. \A q \in Request \ {r} : Apart(e, req[q]) /\ Apart(req[q], e)
  BY <1>0, <1>a, <1>e DEF Apart, Verifying, Merging, Fixed
<1> QED  BY <1>1, <1>2, <1>3, <1>4, <1>6, <1>7, <1>8, TableStep

LEMMA ConsumeRegistrationStep ==
  ASSUME IInv, NEW r \in Request, ConsumeRegistration(r)
  PROVE  IInv'
<1>0. req[r] \in Entry /\ Local(req[r]) /\ Database  BY Here
<1>a. req[r].at = "register" /\ req[r].job = "register" /\ req[r].ceremony \in Ceremony
  BY <1>0 DEF ConsumeRegistration, At, Local, Placed, Working, Jobs
<1>p. PICK s \in {"store", "respond"} :
        req' = [req EXCEPT ![r] = [req[r] EXCEPT !.target = ceremony[req[r].ceremony].user, !.at = s]]
  BY DEF ConsumeRegistration, Consumed, IInv, TypeOK
<1>u. ceremony[req[r].ceremony].user \in User \cup {None}
  BY <1>0, <1>a DEF Database
<1> DEFINE d == [req[r] EXCEPT !.target = ceremony[req[r].ceremony].user, !.at = s]
<1>w. s \in Working \cup {"idle", "respond", "signed in", "done"}  BY <1>a, <1>p, <1>u DEF Working, Jobs
<1>d. d \in Entry  BY <1>0, <1>a, <1>w, <1>p, <1>u, ZenonT(60) DEF Entry
<1>c. req' = [req EXCEPT ![r] = d]
  BY <1>a, <1>p, <1>u DEF ConsumeRegistration, Goto, IInv, TypeOK
<1>1. PICK e \in Entry : e = d  BY <1>d
<1>2. req' = [req EXCEPT ![r] = e] /\ e = d  BY <1>1, <1>c
<1>e.
  /\ Fixed(e, req[r])
  /\ e.at = s /\ e.user = req[r].user /\ e.set = req[r].set /\ e.code = req[r].code
  /\ e.tries = req[r].tries /\ e.target = ceremony[req[r].ceremony].user
  /\ e.bills = req[r].bills /\ e.keys = req[r].keys /\ e.had = req[r].had
  /\ e.faults = req[r].faults
  BY <1>0, <1>2, ZenonT(30) DEF Entry, Fixed
<1> HIDE DEF d
<1>g. UNCHANGED <<codeVars, users, known, email, bills, owner, keyOf, handle, session, used, cookie>>
  BY DEF ConsumeRegistration, Consumed
<1>h. ceremony' = [ceremony EXCEPT ![req[r].ceremony] = [kind |-> "used", user |-> None]]
  BY DEF ConsumeRegistration, Consumed, Consume
<1>3. Database'
  BY <1>0, <1>g, <1>a, <1>h DEF Database, CodesAreSound, RowsAreSound, PasskeysNameTheirUser, codeVars
<1>4. Grown
  BY <1>0, <1>g, <1>h DEF Grown, Database
<1>5. Local(e)
  <2>1. Placed(e)  BY <1>0, <1>a, <1>e, <1>p, <1>u DEF Local, Placed, Fixed, Merging, Rotating, Working, Jobs
  <2>2. HoldsCode(e)  BY <1>0, <1>a, <1>e, <1>p, <1>u DEF Local, HoldsCode, Fixed
  <2>3. FindsFree(e)  BY <1>0, <1>a, <1>e, <1>p, <1>u DEF Local, FindsFree, Fixed
  <2>4. Merges(e)  BY <1>0, <1>a, <1>e, <1>p, <1>u DEF Local, Merges, Fixed, Merging
  <2>5. Leaves(e)  BY <1>0, <1>a, <1>e, <1>p, <1>u DEF Local, Leaves, Fixed, Rotating
  <2> QED  BY <2>1, <2>2, <2>3, <2>4, <2>5 DEF Local
<1>6. \A f \in Entry : (f = e \/ \E q \in Request \ {r} : f = req[q]) /\ Local(f) => Spares(f)
  BY <1>g, SparesAll
<1>7. Local(e)'
  <2>1. Spares(e)  BY <1>1, <1>5, <1>6
  <2> QED  BY <1>0, <1>1, <1>4, <1>5, <2>1, StaysTrue
<1>8. \A q \in Request \ {r} : Apart(e, req[q]) /\ Apart(req[q], e)
  BY <1>0, <1>a, <1>e, <1>p, <1>u DEF Apart, Verifying, Merging, Fixed
<1> QED  BY <1>1, <1>2, <1>3, <1>4, <1>6, <1>7, <1>8, TableStep

LEMMA ConsumeLoginStep ==
  ASSUME IInv, NEW r \in Request, ConsumeLogin(r)
  PROVE  IInv'
<1>0. req[r] \in Entry /\ Local(req[r]) /\ Database  BY Here
<1>a. req[r].at = "login" /\ req[r].job = "login" /\ req[r].ceremony \in Ceremony
  BY <1>0 DEF ConsumeLogin, At, Local, Placed, Working, Jobs
<1>p. PICK s \in {"assert", "respond"} :
        req' = [req EXCEPT ![r] = [req[r] EXCEPT !.target = ceremony[req[r].ceremony].user, !.at = s]]
  BY DEF ConsumeLogin, Consumed, IInv, TypeOK
<1>u. ceremony[req[r].ceremony].user \in User \cup {None}
  BY <1>0, <1>a DEF Database
<1> DEFINE d == [req[r] EXCEPT !.target = ceremony[req[r].ceremony].user, !.at = s]
<1>w. s \in Working \cup {"idle", "respond", "signed in", "done"}  BY <1>a, <1>p, <1>u DEF Working, Jobs
<1>d. d \in Entry  BY <1>0, <1>a, <1>w, <1>p, <1>u, ZenonT(60) DEF Entry
<1>c. req' = [req EXCEPT ![r] = d]
  BY <1>a, <1>p, <1>u DEF ConsumeLogin, Goto, IInv, TypeOK
<1>1. PICK e \in Entry : e = d  BY <1>d
<1>2. req' = [req EXCEPT ![r] = e] /\ e = d  BY <1>1, <1>c
<1>e.
  /\ Fixed(e, req[r])
  /\ e.at = s /\ e.user = req[r].user /\ e.set = req[r].set /\ e.code = req[r].code
  /\ e.tries = req[r].tries /\ e.target = ceremony[req[r].ceremony].user
  /\ e.bills = req[r].bills /\ e.keys = req[r].keys /\ e.had = req[r].had
  /\ e.faults = req[r].faults
  BY <1>0, <1>2, ZenonT(30) DEF Entry, Fixed
<1> HIDE DEF d
<1>g. UNCHANGED <<codeVars, users, known, email, bills, owner, keyOf, handle, session, used, cookie>>
  BY DEF ConsumeLogin, Consumed
<1>h. ceremony' = [ceremony EXCEPT ![req[r].ceremony] = [kind |-> "used", user |-> None]]
  BY DEF ConsumeLogin, Consumed, Consume
<1>3. Database'
  BY <1>0, <1>g, <1>a, <1>h DEF Database, CodesAreSound, RowsAreSound, PasskeysNameTheirUser, codeVars
<1>4. Grown
  BY <1>0, <1>g, <1>h DEF Grown, Database
<1>5. Local(e)
  <2>1. Placed(e)  BY <1>0, <1>a, <1>e, <1>p, <1>u DEF Local, Placed, Fixed, Merging, Rotating, Working, Jobs
  <2>2. HoldsCode(e)  BY <1>0, <1>a, <1>e, <1>p, <1>u DEF Local, HoldsCode, Fixed
  <2>3. FindsFree(e)  BY <1>0, <1>a, <1>e, <1>p, <1>u DEF Local, FindsFree, Fixed
  <2>4. Merges(e)  BY <1>0, <1>a, <1>e, <1>p, <1>u DEF Local, Merges, Fixed, Merging
  <2>5. Leaves(e)  BY <1>0, <1>a, <1>e, <1>p, <1>u DEF Local, Leaves, Fixed, Rotating
  <2> QED  BY <2>1, <2>2, <2>3, <2>4, <2>5 DEF Local
<1>6. \A f \in Entry : (f = e \/ \E q \in Request \ {r} : f = req[q]) /\ Local(f) => Spares(f)
  BY <1>g, SparesAll
<1>7. Local(e)'
  <2>1. Spares(e)  BY <1>1, <1>5, <1>6
  <2> QED  BY <1>0, <1>1, <1>4, <1>5, <2>1, StaysTrue
<1>8. \A q \in Request \ {r} : Apart(e, req[q]) /\ Apart(req[q], e)
  BY <1>0, <1>a, <1>e, <1>p, <1>u DEF Apart, Verifying, Merging, Fixed
<1> QED  BY <1>1, <1>2, <1>3, <1>4, <1>6, <1>7, <1>8, TableStep

LEMMA StorePasskeyStep ==
  ASSUME IInv, NEW r \in Request, StorePasskey(r)
  PROVE  IInv'
<1>0. req[r] \in Entry /\ Local(req[r]) /\ Database  BY Here
<1>a. req[r].at = "store" /\ req[r].user \in users /\ req[r].target = req[r].user
  BY <1>0 DEF StorePasskey, At, OwnCeremony
<1> DEFINE d == [req[r] EXCEPT !.at = "respond"]
<1>w. "respond" \in Working \cup {"idle", "respond", "signed in", "done"}  BY <1>a DEF Working, Jobs
<1>d. d \in Entry  BY <1>0, <1>a, <1>w DEF Entry
<1>c. req' = [req EXCEPT ![r] = d]
  BY <1>a DEF StorePasskey, Goto, IInv, TypeOK
<1>1. PICK e \in Entry : e = d  BY <1>d
<1>2. req' = [req EXCEPT ![r] = e] /\ e = d  BY <1>1, <1>c
<1>e.
  /\ Fixed(e, req[r])
  /\ e.at = "respond" /\ e.user = req[r].user /\ e.set = req[r].set
  /\ e.code = req[r].code /\ e.tries = req[r].tries /\ e.target = req[r].target
  /\ e.bills = req[r].bills /\ e.keys = req[r].keys /\ e.had = req[r].had
  /\ e.faults = req[r].faults
  BY <1>0, <1>2, ZenonT(30) DEF Entry, Fixed
<1> HIDE DEF d
<1>g. UNCHANGED <<codeVars, users, known, email, bills, owner, session, used, ceremony, cookie>>
  BY DEF StorePasskey
<1>b. PICK k \in Passkey : /\ handle[k] = None
                          /\ handle' = [handle EXCEPT ![k] = req[r].user]
                          /\ keyOf' = [keyOf EXCEPT ![k] = req[r].user]
  BY <1>a DEF StorePasskey
<1>h. keyOf[k] = None /\ None \notin users /\ req[r].user \in User /\ req[r].user \in known
  BY <1>0, <1>a, <1>b, SignInAssumption DEF Database, RowsAreSound
<1>3. Database'
  BY <1>0, <1>g, <1>h, <1>a, <1>b DEF Database, CodesAreSound, RowsAreSound, PasskeysNameTheirUser, codeVars
<1>4. Grown
  BY <1>0, <1>g, <1>h, <1>b DEF Grown, Database
<1>5. Local(e)
  <2>1. Placed(e)  BY <1>0, <1>a, <1>e DEF Local, Placed, Fixed, Merging, Rotating, Working, Jobs
  <2>2. HoldsCode(e)  BY <1>0, <1>a, <1>e DEF Local, HoldsCode, Fixed
  <2>3. FindsFree(e)  BY <1>0, <1>a, <1>e DEF Local, FindsFree, Fixed
  <2>4. Merges(e)  BY <1>0, <1>a, <1>e DEF Local, Merges, Fixed, Merging
  <2>5. Leaves(e)  BY <1>0, <1>a, <1>e DEF Local, Leaves, Fixed, Rotating
  <2> QED  BY <2>1, <2>2, <2>3, <2>4, <2>5 DEF Local
<1>6. \A f \in Entry : (f = e \/ \E q \in Request \ {r} : f = req[q]) /\ Local(f) => Spares(f)
  <2> SUFFICES ASSUME NEW f \in Entry, Local(f) PROVE Spares(f)
    OBVIOUS
  <2>1. f.keys # {} => f.user \in known
    BY DEF Local, Placed, Merges, Merging, Working
  <2>2. \A x \in f.keys : keyOf[x] = f.user /\ x \in Passkey
    BY DEF Local, Merges, Entry
  <2>3. None \notin known  BY <1>0, SignInAssumption DEF Database
  <2>4. \A x \in f.keys : keyOf'[x] = keyOf[x]
    BY <1>0, <1>b, <1>h, <2>1, <2>2, <2>3 DEF Database
  <2> QED  BY <1>g, <2>4 DEF Spares, Local, Merges, FindsFree
<1>7. Local(e)'
  <2>1. Spares(e)  BY <1>1, <1>5, <1>6
  <2> QED  BY <1>0, <1>1, <1>4, <1>5, <2>1, StaysTrue
<1>8. \A q \in Request \ {r} : Apart(e, req[q]) /\ Apart(req[q], e)
  BY <1>0, <1>a, <1>e DEF Apart, Verifying, Merging, Fixed
<1> QED  BY <1>1, <1>2, <1>3, <1>4, <1>6, <1>7, <1>8, TableStep

LEMMA NewStrangerStep ==
  ASSUME IInv, NEW r \in Request, NEW faults \in SUBSET {"verify", "drop"}, req[r].at = "identify",
         Unknown(req[r].token) \/ "verify" \in faults, NewStranger(r, faults)
  PROVE  IInv'
<1>0. req[r] \in Entry /\ Local(req[r]) /\ Database  BY Here
<1>a. req[r].at = "identify" /\ req[r].job \in Jobs
  BY <1>0 DEF Entry, At
<1>p. PICK u \in User \ known, t \in Token \ used :
        /\ users' = users \cup {u} /\ known' = known \cup {u}
        /\ session' = [session EXCEPT ![t] = u] /\ used' = used \cup {t}
        /\ req' = [req EXCEPT ![r].at = req[r].job, ![r].user = u, ![r].set = t,
                              ![r].faults = faults]
  BY <1>0, FreshIsNew DEF NewStranger, Database
<1>u. u \in User /\ t \in Token /\ faults \subseteq {"verify", "drop"}  BY <1>p
<1> DEFINE d == [req[r] EXCEPT !.at = req[r].job, !.user = u, !.set = t, !.faults = faults]
<1>w. req[r].job \in Working \cup {"idle", "respond", "signed in", "done"}  BY <1>a, <1>p, <1>u DEF Working, Jobs
<1>d. d \in Entry  BY <1>0, <1>a, <1>w, <1>p, <1>u, ZenonT(60) DEF Entry
<1>c. req' = [req EXCEPT ![r] = d]
  BY <1>a, <1>p, <1>u DEF NewStranger, Goto, IInv, TypeOK
<1>1. PICK e \in Entry : e = d  BY <1>d
<1>2. req' = [req EXCEPT ![r] = e] /\ e = d  BY <1>1, <1>c
<1>e.
  /\ Fixed(e, req[r])
  /\ e.at = req[r].job /\ e.user = u /\ e.set = t /\ e.code = req[r].code
  /\ e.tries = req[r].tries /\ e.target = req[r].target /\ e.bills = req[r].bills
  /\ e.keys = req[r].keys /\ e.had = req[r].had /\ e.faults = faults
  BY <1>0, <1>2, ZenonT(30) DEF Entry, Fixed
<1> HIDE DEF d
<1>g. UNCHANGED <<codeVars, email, bills, owner, keyOf, handle, ceremony, cookie>>
  BY DEF NewStranger
<1>h. /\ u \in User \ known /\ t \in Token \ used
      /\ users' = users \cup {u} /\ known' = known \cup {u}
      /\ session' = [session EXCEPT ![t] = u] /\ used' = used \cup {t}
      /\ u # None /\ t # None /\ email[u] = None /\ None \notin known
      /\ req[r].token = None \/ session[req[r].token] = None \/ "verify" \in faults
  <2>1. req[r].token = None \/ session[req[r].token] = None \/ "verify" \in faults
    BY <1>0, SignInAssumption DEF Unknown, Entry
  <2> QED  BY <1>0, <1>p, <2>1, SignInAssumption DEF Database
<1>3. Database'
  BY <1>0, <1>g, <1>h DEF Database, CodesAreSound, RowsAreSound, PasskeysNameTheirUser, codeVars
<1>4. Grown
  BY <1>0, <1>g, <1>h DEF Grown, Database
<1>6. \A f \in Entry : Local(f) => Spares(f)
  <2> SUFFICES ASSUME NEW f \in Entry, Local(f) PROVE Spares(f)
    OBVIOUS
  <2>1. f.at = "claim" => f.to # None
    BY CodesAssumption DEF Local, Placed, Working, Jobs, Email
  <2>2. f.at = "claim" => {v \in users : email[v] = f.to} = {}
    BY DEF Local, FindsFree
  <2>3. f.at = "claim" => {v \in users' : email'[v] = f.to} = {}
    BY <1>0, <1>g, <1>h, <2>1, <2>2
  <2> QED  BY <1>g, <1>h, <2>3 DEF Spares, Local, Merges
<1>7. Local(e)'
  <2>1. Placed(e)'  BY <1>0, <1>a, <1>e, <1>g, <1>h, ZenonT(90) DEF Local, Placed, Fixed, Merging, Rotating, Working, Jobs
  <2>2. HoldsCode(e)'  BY <1>0, <1>a, <1>e DEF HoldsCode, Jobs
  <2>3. FindsFree(e)'  BY <1>0, <1>a, <1>e DEF FindsFree, Jobs
  <2>4. Merges(e)'  BY <1>0, <1>a, <1>e DEF Local, Merges, Merging, Jobs
  <2>5. Leaves(e)'  BY <1>0, <1>a, <1>e, <1>g, <1>h DEF Local, Leaves, Placed, Fixed, Rotating, Jobs, Database
  <2> QED  BY <2>1, <2>2, <2>3, <2>4, <2>5 DEF Local
<1>8. \A q \in Request \ {r} : Apart(e, req[q]) /\ Apart(req[q], e)
  BY <1>0, <1>a, <1>e, <1>p, <1>u DEF Apart, Verifying, Merging, Fixed, Jobs
<1> QED  BY <1>1, <1>2, <1>3, <1>4, <1>6, <1>7, <1>8, TableStep

LEMMA ProvisionStep ==
  ASSUME IInv, NEW r \in Request, Provision(r)
  PROVE  IInv'
BY NewStrangerStep DEF Provision, At

LEMMA ProvisionBlindlyStep ==
  ASSUME IInv, NEW r \in Request, ProvisionBlindly(r)
  PROVE  IInv'
BY NewStrangerStep DEF ProvisionBlindly, At

LEMMA DropOldSessionStep ==
  ASSUME IInv, NEW r \in Request, DropOldSession(r)
  PROVE  IInv'
<1>0. req[r] \in Entry /\ Local(req[r]) /\ Database  BY Here
<1>a. req[r].at = "rotate"
  BY <1>0 DEF DropOldSession, At
<1> DEFINE d == [req[r] EXCEPT !.at = "issue"]
<1>w. "issue" \in Working \cup {"idle", "respond", "signed in", "done"}  BY <1>a DEF Working, Jobs
<1>d. d \in Entry  BY <1>0, <1>a, <1>w DEF Entry
<1>c. req' = [req EXCEPT ![r] = d]
  BY <1>a DEF DropOldSession, Goto, IInv, TypeOK
<1>1. PICK e \in Entry : e = d  BY <1>d
<1>2. req' = [req EXCEPT ![r] = e] /\ e = d  BY <1>1, <1>c
<1>e.
  /\ Fixed(e, req[r])
  /\ e.at = "issue" /\ e.user = req[r].user /\ e.set = req[r].set /\ e.code = req[r].code
  /\ e.tries = req[r].tries /\ e.target = req[r].target /\ e.bills = req[r].bills
  /\ e.keys = req[r].keys /\ e.had = req[r].had /\ e.faults = req[r].faults
  BY <1>0, <1>2, ZenonT(30) DEF Entry, Fixed
<1> HIDE DEF d
<1>g. UNCHANGED <<codeVars, users, known, email, bills, owner, keyOf, handle, used, ceremony, cookie>>
  BY DEF DropOldSession
<1>h. session' = [t \in Token |-> IF t = req[r].token THEN None ELSE session[t]]
  BY DEF DropOldSession, OldToken
<1>3. Database'
  BY <1>0, <1>g, <1>h DEF Database, CodesAreSound, RowsAreSound, PasskeysNameTheirUser, codeVars
<1>4. Grown
  BY <1>0, <1>g, <1>h DEF Grown, Database
<1>6. \A f \in Entry : Local(f) => Spares(f)  BY <1>g, SparesAll
<1>7. Local(e)'
  <2>1. Placed(e)'  BY <1>0, <1>a, <1>e, <1>g, <1>h DEF Local, Placed, Fixed, Merging, Rotating, Working, Jobs
  <2>2. HoldsCode(e)'  BY <1>0, <1>a, <1>e DEF HoldsCode, Jobs
  <2>3. FindsFree(e)'  BY <1>0, <1>a, <1>e DEF FindsFree, Jobs
  <2>4. Merges(e)'  BY <1>0, <1>a, <1>e DEF Local, Merges, Merging, Jobs
  <2>5. Leaves(e)'  BY <1>0, <1>a, <1>e, <1>g, <1>h DEF Local, Leaves, Placed, Fixed, Rotating, Jobs, Database
  <2> QED  BY <2>1, <2>2, <2>3, <2>4, <2>5 DEF Local
<1>8. \A q \in Request \ {r} : Apart(e, req[q]) /\ Apart(req[q], e)
  BY <1>0, <1>a, <1>e DEF Apart, Verifying, Merging, Fixed
<1> QED  BY <1>1, <1>2, <1>3, <1>4, <1>6, <1>7, <1>8, TableStep

LEMMA IssueSessionStep ==
  ASSUME IInv, NEW r \in Request, IssueSession(r)
  PROVE  IInv'
<1>0. req[r] \in Entry /\ Local(req[r]) /\ Database  BY Here
<1>a. req[r].at = "issue" /\ req[r].target \in users
  BY <1>0 DEF IssueSession, At
<1>p. PICK t \in Token \ used :
        /\ session' = [session EXCEPT ![t] = req[r].target] /\ used' = used \cup {t}
        /\ req' = [req EXCEPT ![r].at = "signed in", ![r].set = t]
  BY <1>0, FreshIsNew DEF IssueSession, Database
<1>u. t \in Token  BY <1>p
<1> DEFINE d == [req[r] EXCEPT !.at = "signed in", !.set = t]
<1>w. "signed in" \in Working \cup {"idle", "respond", "signed in", "done"}  BY <1>a, <1>p, <1>u DEF Working, Jobs
<1>d. d \in Entry  BY <1>0, <1>a, <1>w, <1>p, <1>u, ZenonT(60) DEF Entry
<1>c. req' = [req EXCEPT ![r] = d]
  BY <1>a, <1>p, <1>u DEF IssueSession, Goto, IInv, TypeOK
<1>1. PICK e \in Entry : e = d  BY <1>d
<1>2. req' = [req EXCEPT ![r] = e] /\ e = d  BY <1>1, <1>c
<1>e.
  /\ Fixed(e, req[r])
  /\ e.at = "signed in" /\ e.user = req[r].user /\ e.set = t /\ e.code = req[r].code
  /\ e.tries = req[r].tries /\ e.target = req[r].target /\ e.bills = req[r].bills
  /\ e.keys = req[r].keys /\ e.had = req[r].had /\ e.faults = req[r].faults
  BY <1>0, <1>2, ZenonT(120) DEF Entry, Fixed
<1> HIDE DEF d
<1>g. UNCHANGED <<codeVars, users, known, email, bills, owner, keyOf, handle, ceremony, cookie>>
  BY DEF IssueSession
<1>h. /\ session' = [session EXCEPT ![t] = req[r].target] /\ used' = used \cup {t}
      /\ t \in Token \ used /\ req[r].target \in users
  BY <1>a, <1>p
<1>3. Database'
  BY <1>0, <1>g, <1>h DEF Database, CodesAreSound, RowsAreSound, PasskeysNameTheirUser, codeVars
<1>4. Grown
  BY <1>0, <1>g, <1>h DEF Grown, Database
<1>6. \A f \in Entry : Local(f) => Spares(f)  BY <1>g, SparesAll
<1>7. Local(e)'
  <2>1. Placed(e)'  BY <1>0, <1>a, <1>e, <1>g, <1>h DEF Local, Placed, Fixed, Merging, Rotating, Working, Jobs
  <2>2. HoldsCode(e)'  BY <1>0, <1>a, <1>e DEF HoldsCode, Jobs
  <2>3. FindsFree(e)'  BY <1>0, <1>a, <1>e DEF FindsFree, Jobs
  <2>4. Merges(e)'  BY <1>0, <1>a, <1>e DEF Local, Merges, Merging, Jobs
  <2>5. Leaves(e)'  BY <1>0, <1>a, <1>e, <1>g, <1>h DEF Local, Leaves, Placed, Fixed, Rotating, Jobs, Database
  <2> QED  BY <2>1, <2>2, <2>3, <2>4, <2>5 DEF Local
<1>8. \A q \in Request \ {r} : Apart(e, req[q]) /\ Apart(req[q], e)
  BY <1>0, <1>a, <1>e, <1>p, <1>u DEF Apart, Verifying, Merging, Fixed
<1> QED  BY <1>1, <1>2, <1>3, <1>4, <1>6, <1>7, <1>8, TableStep

LEMMA DeleteUserStep ==
  ASSUME IInv, NEW r \in Request, DeleteUser(r)
  PROVE  IInv'
<1>0. req[r] \in Entry /\ Local(req[r]) /\ Database  BY Here
<1>a. req[r].at = "delete" /\ req[r].user \in known
  BY <1>0 DEF DeleteUser, At, Local, Placed, Working, Merging
<1> DEFINE d == [req[r] EXCEPT !.at = "rotate", !.bills = {}, !.keys = {}]
<1>w. "rotate" \in Working \cup {"idle", "respond", "signed in", "done"}  BY <1>a DEF Working, Jobs
<1>d. d \in Entry  BY <1>0, <1>a, <1>w, ZenonT(60) DEF Entry
<1>c. req' = [req EXCEPT ![r] = d]
  BY <1>a DEF DeleteUser, Goto, IInv, TypeOK
<1>1. PICK e \in Entry : e = d  BY <1>d
<1>2. req' = [req EXCEPT ![r] = e] /\ e = d  BY <1>1, <1>c
<1>e.
  /\ Fixed(e, req[r])
  /\ e.at = "rotate" /\ e.user = req[r].user /\ e.set = req[r].set /\ e.code = req[r].code
  /\ e.tries = req[r].tries /\ e.target = req[r].target /\ e.bills = {} /\ e.keys = {}
  /\ e.had = req[r].had /\ e.faults = req[r].faults
  BY <1>0, <1>2, ZenonT(120) DEF Entry, Fixed
<1> HIDE DEF d
<1>g. UNCHANGED <<codeVars, known, bills, handle, used, cookie>>
  BY DEF DeleteUser
<1> DEFINE u == req[r].user  to == req[r].target
<1>h. /\ users' = users \ {u}
      /\ email' = [email EXCEPT ![u] = None]
      /\ owner' = [b \in Bill |-> IF b \in req[r].bills THEN to ELSE Without(u, owner[b])]
      /\ keyOf' = [k \in Passkey |-> IF k \in req[r].keys THEN to ELSE Without(u, keyOf[k])]
      /\ session' = [t \in Token |-> Without(u, session[t])]
      /\ ceremony' = [n \in Ceremony |-> IF ceremony[n].user = u
                        THEN [kind |-> "used", user |-> None] ELSE ceremony[n]]
  BY DEF DeleteUser
<1>m. /\ u \in User /\ u # None /\ to # u
      /\ req[r].bills # {} \/ req[r].keys # {} => to \in users
      /\ \A b \in req[r].bills : owner[b] = u
      /\ \A k \in req[r].keys : keyOf[k] = u
      /\ req[r].bills \subseteq Bill /\ req[r].keys \subseteq Passkey
      /\ req[r].job \in {"verify", "login"}
  <2>1. u \in User /\ u # None
    BY <1>0, <1>a, SignInAssumption DEF Database
  <2>0. req[r].bills \subseteq Bill /\ req[r].keys \subseteq Passkey
    BY <1>0 DEF Entry
  <2>2. req[r].job \in {"verify", "login"}
    BY <1>0, <1>a DEF Local, Placed, Merging
  <2>3. /\ to # u
        /\ req[r].bills # {} \/ req[r].keys # {} => to \in users
        /\ \A b \in req[r].bills : owner[b] = u
        /\ \A k \in req[r].keys : keyOf[k] = u
    BY <1>0, <1>a DEF Local, Merges, Merging
  <2> QED  BY <2>0, <2>1, <2>2, <2>3
<1>l. \A q \in Request \ {r} :
        /\ \A b \in BillsOf(u) : b \notin req[q].bills
        /\ \A k \in KeysOf(u) : k \notin req[q].keys
        /\ req[q].bills # {} \/ req[q].keys # {} => req[q].target # u
  BY DEF DeleteUser, BillHeld, KeyHeld, UserPinned
<1> HIDE DEF u, to
<1>3. Database'
  <2>1. owner' \in [Bill -> users' \cup {None}] /\ keyOf' \in [Passkey -> users' \cup {None}]
    BY <1>0, <1>h, <1>m DEF Database, Without
  <2>2. session' \in [Token -> users' \cup {None}]
    BY <1>0, <1>h DEF Database, Without
  <2>3. ceremony' \in [Ceremony -> [kind: {"unborn", "registration", "login", "used"},
                                   user: users' \cup {None}]]
    BY <1>0, <1>h DEF Database
  <2>4. users' \subseteq known /\ email' \in [User -> Email \cup {None}]
        /\ \A v \in User : email'[v] # None => v \in users'
    BY <1>0, <1>h DEF Database
  <2>5. PasskeysNameTheirUser'
    BY <1>0, <1>g, <1>h, <1>m DEF Database, PasskeysNameTheirUser, Without
  <2>6. RowsAreSound'
    BY <1>0, <1>g, <1>h, <1>m DEF Database, RowsAreSound, Without
  <2> QED  BY <1>0, <1>g, <2>1, <2>2, <2>3, <2>4, <2>5, <2>6 DEF Database, CodesAreSound, codeVars
<1>4. Grown
  BY <1>0, <1>g, <1>h, <1>m DEF Grown, Database, Without
<1>6. \A q \in Request \ {r}, f \in Entry : f = req[q] /\ Local(f) => Spares(f)
  <2> SUFFICES ASSUME NEW q \in Request \ {r}, NEW f \in Entry, f = req[q], Local(f)
               PROVE  Spares(f)
    OBVIOUS
  <2>1. /\ f.bills \subseteq Bill /\ f.keys \subseteq Passkey
        /\ \A b \in f.bills : owner[b] = f.user
        /\ \A k \in f.keys : keyOf[k] = f.user
        /\ f.bills # {} \/ f.keys # {} => f.target \in users
    BY DEF Entry, Local, Merges
  <2>2. \A b \in f.bills : owner[b] # u
    BY <1>0, <1>l, <1>m, <2>1 DEF BillsOf, Database, RowsAreSound
  <2>3. \A k \in f.keys : keyOf[k] # u
    BY <1>l, <2>1 DEF KeysOf
  <2>4. (\A b \in f.bills : owner'[b] = owner[b]) /\ (\A k \in f.keys : keyOf'[k] = keyOf[k])
    BY <1>h, <1>m, <2>1, <2>2, <2>3 DEF Without
  <2>5. f.bills # {} \/ f.keys # {} => f.target \in users'
    BY <1>h, <1>l, <2>1
  <2>6. f.at = "claim" => {v \in users' : email'[v] = f.to} = {}
    BY <1>0, <1>h DEF Local, FindsFree, Database
  <2> QED  BY <2>4, <2>5, <2>6 DEF Spares
<1>7. Local(e)'
  <2>1. Placed(e)'  BY <1>0, <1>a, <1>e, <1>g, <1>m DEF Local, Placed, Fixed, Merging, Rotating, Working, Jobs
  <2>2. HoldsCode(e)' /\ FindsFree(e)'  BY <1>e DEF HoldsCode, FindsFree
  <2>3. Merges(e)'  BY <1>e DEF Merges, Merging
  <2>4. Leaves(e)'  BY <1>e, <1>h, <1>m DEF Leaves, Fixed, Rotating, u
  <2> QED  BY <2>1, <2>2, <2>3, <2>4 DEF Local
<1>8. \A q \in Request \ {r} : Apart(e, req[q]) /\ Apart(req[q], e)
  BY <1>0, <1>a, <1>e DEF Apart, Verifying, Merging, Fixed, Local, Placed
<1> QED  BY <1>1, <1>2, <1>3, <1>4, <1>6, <1>7, <1>8, TableStep

-----------------------------------------------------------------------------
(* Steps that change the codes only *)

\* Everything but what a request knows of a code is as before.
LEMMA SameIdentity ==
  ASSUME NEW f, Local(f), UNCHANGED identity, HoldsCode(f)'
  PROVE  Local(f)'
<1> USE DEF identity
<1>1. Placed(f)'  BY DEF Local, Placed
<1>2. FindsFree(f)'  BY DEF Local, FindsFree
<1>3. Merges(f)'  BY DEF Local, Merges
<1>4. Leaves(f)'  BY DEF Local, Leaves
<1> QED  BY <1>1, <1>2, <1>3, <1>4 DEF Local

\* The rows of the codes have their types and bounds.
CodesOK == /\ codes \in [Code -> Row] /\ issued \in 0..MaxCodes /\ cooling \subseteq Address
           /\ CodesAreSound

LEMMA CodeStep ==
  ASSUME IInv, NEW r \in Request, NEW e \in Entry, req' = [req EXCEPT ![r] = e],
         UNCHANGED <<identity, cookie>>, CodesOK', Local(e)',
         \A q \in Request \ {r}, f \in Entry : f = req[q] /\ HoldsCode(f) => HoldsCode(f)',
         \A q \in Request \ {r} : Apart(e, req[q]) /\ Apart(req[q], e)
  PROVE  IInv'
<1>1. Database'
  BY DEF CodesOK, Database, IInv, TypeOK, RowsAreSound, PasskeysNameTheirUser, identity
<1>2. ASSUME NEW q \in Request \ {r}, NEW f \in Entry, f = req[q] PROVE Local(f)'
  <2>1. Local(f)  BY <1>2 DEF IInv
  <2>2. HoldsCode(f)'  BY <1>2, <2>1 DEF Local
  <2> QED  BY <2>1, <2>2, SameIdentity
<1> QED  BY <1>1, <1>2, OneStep

\* Killing rows keeps the table well-formed, and harms nobody who does not hold them.
LEMMA KillIsOK ==
  ASSUME Database, NEW dead, Kill(dead)
  PROVE  /\ CodesOK' /\ issued' = issued /\ 1..issued \subseteq Code
         /\ \A c \in Code : /\ codes'[c].to = codes[c].to /\ codes'[c].tries = codes[c].tries
                            /\ codes'[c].live = (codes[c].live /\ c \notin dead)
<1>1. /\ codes' = [c \in Code |-> [codes[c] EXCEPT !.live = codes[c].live /\ c \notin dead]]
      /\ issued' = issued /\ cooling' = cooling
  BY DEF Kill
<1>2. \A c \in Code : codes[c] \in Row  BY DEF Database
<1>3. \A c \in Code : /\ codes'[c] \in Row /\ codes'[c].to = codes[c].to
                      /\ codes'[c].tries = codes[c].tries
                      /\ codes'[c].live = (codes[c].live /\ c \notin dead)
  BY <1>1, <1>2 DEF Row
<1>4. CodesOK'
  BY <1>1, <1>3 DEF Database, CodesOK, CodesAreSound
<1>5. 1..issued \subseteq Code  BY CodesAssumption DEF Database, Code
<1> QED  BY <1>1, <1>3, <1>4, <1>5

LEMMA KillSpares ==
  ASSUME Database, NEW dead, Kill(dead), NEW f \in Entry, HoldsCode(f),
         f.at = "compare" => f.code \notin dead
  PROVE  HoldsCode(f)'
BY KillIsOK DEF HoldsCode, Live

LEMMA TooManyTriesStep ==
  ASSUME IInv, NEW r \in Request, TooManyTries(r)
  PROVE  IInv'
<1>0. req[r] \in Entry /\ Local(req[r]) /\ Database  BY Here
<1>a. req[r].at = "compare" /\ req[r].job = "verify" /\ req[r].to \in Email
  BY <1>0 DEF TooManyTries, At, Local, Placed, Working
<1> DEFINE d == [req[r] EXCEPT !.at = "respond"]
<1>w. "respond" \in Working \cup {"idle", "respond", "signed in", "done"}  BY DEF Working
<1>d. d \in Entry  BY <1>0, <1>a, <1>w DEF Entry
<1>c. req' = [req EXCEPT ![r] = d]
  BY <1>a DEF TooManyTries, Goto, IInv, TypeOK
<1>1. PICK e \in Entry : e = d  BY <1>d
<1>2. req' = [req EXCEPT ![r] = e] /\ e = d  BY <1>1, <1>c
<1>e.
  /\ Fixed(e, req[r])
  /\ e.at = "respond" /\ e.user = req[r].user /\ e.set = req[r].set
  /\ e.code = req[r].code /\ e.tries = req[r].tries /\ e.target = req[r].target
  /\ e.bills = req[r].bills /\ e.keys = req[r].keys /\ e.had = req[r].had
  /\ e.faults = req[r].faults
  BY <1>0, <1>2, ZenonT(30) DEF Entry, Fixed
<1> HIDE DEF d
<1>g. UNCHANGED <<identity, cookie>>
  BY DEF TooManyTries
<1>h. Kill({req[r].code})
  BY DEF TooManyTries
<1>3. CodesOK'
  BY <1>0, <1>h, KillIsOK
<1>4. \A q \in Request \ {r}, f \in Entry : f = req[q] /\ HoldsCode(f) => HoldsCode(f)'
  <2> SUFFICES ASSUME NEW q \in Request \ {r}, NEW f \in Entry, f = req[q], HoldsCode(f)
               PROVE  HoldsCode(f)'
    OBVIOUS
  <2>1. f.at = "compare" => f.code \notin {req[r].code}
    BY <1>a DEF IInv, Apart
  <2> QED  BY <1>0, <1>h, <2>1, KillSpares
<1>5. Local(e)'
  <2> USE <1>0, <1>a, <1>e
  <2>1. Placed(e)'  BY <1>g DEF Local, Placed, Fixed, Merging, Rotating, Working, Jobs, identity
  <2>2. HoldsCode(e)'  BY DEF HoldsCode
  <2>3. FindsFree(e)'  BY DEF FindsFree
  <2>4. Merges(e)'  BY <1>g DEF Local, Merges, Merging, identity
  <2>5. Leaves(e)'  BY <1>g DEF Local, Leaves, Fixed, Rotating, identity
  <2> QED  BY <2>1, <2>2, <2>3, <2>4, <2>5 DEF Local
<1>6. \A q \in Request \ {r} : Apart(e, req[q]) /\ Apart(req[q], e)
  BY <1>0, <1>a, <1>e DEF Apart, Verifying, Merging, Fixed
<1> QED  BY <1>1, <1>2, <1>3, <1>4, <1>5, <1>6, <1>g, CodeStep

LEMMA RightCodeStep ==
  ASSUME IInv, NEW r \in Request, RightCode(r)
  PROVE  IInv'
<1>0. req[r] \in Entry /\ Local(req[r]) /\ Database  BY Here
<1>a. req[r].at = "compare" /\ req[r].job = "verify" /\ req[r].to \in Email
  BY <1>0 DEF RightCode, At, Local, Placed, Working
<1> DEFINE d == [req[r] EXCEPT !.at = "attach"]
<1>w. "attach" \in Working \cup {"idle", "respond", "signed in", "done"}  BY DEF Working
<1>d. d \in Entry  BY <1>0, <1>a, <1>w DEF Entry
<1>c. req' = [req EXCEPT ![r] = d]
  BY <1>a DEF RightCode, Goto, IInv, TypeOK
<1>1. PICK e \in Entry : e = d  BY <1>d
<1>2. req' = [req EXCEPT ![r] = e] /\ e = d  BY <1>1, <1>c
<1>e.
  /\ Fixed(e, req[r])
  /\ e.at = "attach" /\ e.user = req[r].user /\ e.set = req[r].set /\ e.code = req[r].code
  /\ e.tries = req[r].tries /\ e.target = req[r].target /\ e.bills = req[r].bills
  /\ e.keys = req[r].keys /\ e.had = req[r].had /\ e.faults = req[r].faults
  BY <1>0, <1>2, ZenonT(30) DEF Entry, Fixed
<1> HIDE DEF d
<1>g. UNCHANGED <<identity, cookie>>
  BY DEF RightCode
<1>h. Kill({req[r].code})
  BY DEF RightCode
<1>3. CodesOK'
  BY <1>0, <1>h, KillIsOK
<1>4. \A q \in Request \ {r}, f \in Entry : f = req[q] /\ HoldsCode(f) => HoldsCode(f)'
  <2> SUFFICES ASSUME NEW q \in Request \ {r}, NEW f \in Entry, f = req[q], HoldsCode(f)
               PROVE  HoldsCode(f)'
    OBVIOUS
  <2>1. f.at = "compare" => f.code \notin {req[r].code}
    BY <1>a DEF IInv, Apart
  <2> QED  BY <1>0, <1>h, <2>1, KillSpares
<1>5. Local(e)'
  <2> USE <1>0, <1>a, <1>e
  <2>1. Placed(e)'  BY <1>g DEF Local, Placed, Fixed, Merging, Rotating, Working, Jobs, identity
  <2>2. HoldsCode(e)'  BY DEF HoldsCode
  <2>3. FindsFree(e)'  BY DEF FindsFree
  <2>4. Merges(e)'  BY <1>g DEF Local, Merges, Merging, identity
  <2>5. Leaves(e)'  BY <1>g DEF Local, Leaves, Fixed, Rotating, identity
  <2> QED  BY <2>1, <2>2, <2>3, <2>4, <2>5 DEF Local
<1>6. \A q \in Request \ {r} : Apart(e, req[q]) /\ Apart(req[q], e)
  BY <1>0, <1>a, <1>e DEF Apart, Verifying, Merging, Fixed
<1> QED  BY <1>1, <1>2, <1>3, <1>4, <1>5, <1>6, <1>g, CodeStep

LEMMA InvalidateStep ==
  ASSUME IInv, NEW r \in Request, Invalidate(r)
  PROVE  IInv'
<1>0. req[r] \in Entry /\ Local(req[r]) /\ Database  BY Here
<1>a. req[r].at = "invalidate" /\ issued \in 0..MaxCodes
  BY <1>0 DEF Invalidate, At, Database
<1> DEFINE d == [req[r] EXCEPT !.at = "insert", !.code = issued]
<1>w. "insert" \in Working \cup {"idle", "respond", "signed in", "done"}  BY DEF Working
<1>d. d \in Entry  BY <1>0, <1>a, <1>w, ZenonT(60) DEF Entry, Database
<1>c. req' = [req EXCEPT ![r] = d]
  BY <1>a DEF Invalidate, Goto, IInv, TypeOK
<1>1. PICK e \in Entry : e = d  BY <1>d
<1>2. req' = [req EXCEPT ![r] = e] /\ e = d  BY <1>1, <1>c
<1>e.
  /\ Fixed(e, req[r])
  /\ e.at = "insert" /\ e.user = req[r].user /\ e.set = req[r].set /\ e.code = issued
  /\ e.tries = req[r].tries /\ e.target = req[r].target /\ e.bills = req[r].bills
  /\ e.keys = req[r].keys /\ e.had = req[r].had /\ e.faults = req[r].faults
  BY <1>0, <1>2, ZenonT(120) DEF Entry, Fixed
<1> HIDE DEF d
<1>g. UNCHANGED <<identity, cookie>>
  BY DEF Invalidate
<1>h. Kill(Live(req[r].to))
  BY DEF Invalidate, InvalidateAll
<1>3. CodesOK'
  BY <1>0, <1>h, KillIsOK
<1>4. \A q \in Request \ {r}, f \in Entry : f = req[q] /\ HoldsCode(f) => HoldsCode(f)'
  <2> SUFFICES ASSUME NEW q \in Request \ {r}, NEW f \in Entry, f = req[q], HoldsCode(f)
               PROVE  HoldsCode(f)'
    OBVIOUS
  <2>1. f.at = "compare" => f.code \notin Live(req[r].to)
    BY DEF Invalidate, CodeHeld
  <2> QED  BY <1>0, <1>h, <2>1, KillSpares
<1>5. Local(e)'
  <2> USE <1>0, <1>a, <1>e
  <2>1. Placed(e)'  BY <1>g DEF Local, Placed, Fixed, Merging, Rotating, Working, Jobs, identity
  <2>2. HoldsCode(e)'
    <3>1. e.code \in 0..issued' /\ issued' = issued  BY <1>h DEF Kill
    <3>2. \A c \in Code : ~(codes'[c].live /\ Same(codes'[c].to, req[r].to))
      BY <1>h, ZenonT(90) DEF Kill, Database, Row, Live
    <3> QED  BY <3>1, <3>2 DEF HoldsCode, Live, Fixed
  <2>3. FindsFree(e)'  BY DEF FindsFree
  <2>4. Merges(e)'  BY <1>g DEF Local, Merges, Merging, identity
  <2>5. Leaves(e)'  BY <1>g DEF Local, Leaves, Fixed, Rotating, identity
  <2> QED  BY <2>1, <2>2, <2>3, <2>4, <2>5 DEF Local
<1>6. \A q \in Request \ {r} : Apart(e, req[q]) /\ Apart(req[q], e)
  BY <1>0, <1>a, <1>e DEF Apart, Verifying, Merging, Fixed
<1> QED  BY <1>1, <1>2, <1>3, <1>4, <1>5, <1>6, <1>g, CodeStep

LEMMA WrongCodeStep ==
  ASSUME IInv, NEW r \in Request, WrongCode(r)
  PROVE  IInv'
<1>0. req[r] \in Entry /\ Local(req[r]) /\ Database  BY Here
<1>a. req[r].at = "compare"
  BY <1>0 DEF WrongCode, At
<1> DEFINE d == [req[r] EXCEPT !.at = "respond"]
<1>w. "respond" \in Working \cup {"idle", "respond", "signed in", "done"}  BY DEF Working
<1>d. d \in Entry  BY <1>0, <1>a, <1>w DEF Entry
<1>c. req' = [req EXCEPT ![r] = d]
  BY <1>a DEF WrongCode, Goto, IInv, TypeOK
<1>1. PICK e \in Entry : e = d  BY <1>d
<1>2. req' = [req EXCEPT ![r] = e] /\ e = d  BY <1>1, <1>c
<1>e.
  /\ Fixed(e, req[r])
  /\ e.at = "respond" /\ e.user = req[r].user /\ e.set = req[r].set
  /\ e.code = req[r].code /\ e.tries = req[r].tries /\ e.target = req[r].target
  /\ e.bills = req[r].bills /\ e.keys = req[r].keys /\ e.had = req[r].had
  /\ e.faults = req[r].faults
  BY <1>0, <1>2, ZenonT(30) DEF Entry, Fixed
<1> HIDE DEF d
<1>g. UNCHANGED <<identity, cookie>>
  BY DEF WrongCode
<1>h. /\ codes' = [codes EXCEPT ![req[r].code].tries = @ + 1] /\ UNCHANGED <<issued, cooling>>
      /\ req[r].code \in 1..issued /\ req[r].code \in Code
      /\ codes[req[r].code].tries < MaxAttempts
  <2>1. /\ codes' = [codes EXCEPT ![req[r].code].tries = @ + 1] /\ UNCHANGED <<issued, cooling>>
        /\ ~(req[r].tries >= MaxAttempts)
    BY DEF WrongCode, Miss, Exhausted
  <2>2. req[r].code \in 1..issued /\ codes[req[r].code].tries = req[r].tries /\ req[r].tries \in Nat
    BY <1>0, <1>a DEF Local, HoldsCode, Entry
  <2>3. req[r].code \in Code
    BY <1>0, <2>2, CodesAssumption DEF Code, Database
  <2> QED  BY <2>1, <2>2, <2>3, CodesAssumption
<1>3. CodesOK'
  <2>1. /\ codes \in [Code -> Row] /\ issued \in 0..MaxCodes /\ cooling \subseteq Address
        /\ CodesAreSound /\ codes[req[r].code] \in Row
    BY <1>0, <1>h DEF Database
  <2>2. codes' \in [Code -> Row]  BY <1>h, <2>1 DEF Row
  <2>3. MaxAttempts \in Nat  BY CodesAssumption
  <2>4. CodesAreSound'  BY <1>h, <2>1, <2>3 DEF CodesAreSound, Row
  <2> QED  BY <1>h, <2>1, <2>2, <2>4 DEF CodesOK
<1>4. \A q \in Request \ {r}, f \in Entry : f = req[q] /\ HoldsCode(f) => HoldsCode(f)'
  <2> SUFFICES ASSUME NEW q \in Request \ {r}, NEW f \in Entry, f = req[q], HoldsCode(f)
               PROVE  HoldsCode(f)'
    OBVIOUS
  <2>1. f.at = "compare" => f.code # req[r].code
    BY <1>a DEF IInv, Apart
  <2>2. \A c \in Code : /\ codes'[c].live = codes[c].live /\ codes'[c].to = codes[c].to
                        /\ c # req[r].code => codes'[c].tries = codes[c].tries
    BY <1>0, <1>h DEF Database, Row
  <2>3. 1..issued \subseteq Code  BY <1>0, CodesAssumption DEF Database, Code
  <2> QED  BY <1>h, <2>1, <2>2, <2>3 DEF HoldsCode, Live
<1>5. Local(e)'
  <2> USE <1>0, <1>a, <1>e
  <2>1. Placed(e)'  BY <1>g DEF Local, Placed, Fixed, Merging, Rotating, Working, Jobs, identity
  <2>2. HoldsCode(e)'  BY DEF HoldsCode
  <2>3. FindsFree(e)'  BY DEF FindsFree
  <2>4. Merges(e)'  BY <1>g DEF Local, Merges, Merging, identity
  <2>5. Leaves(e)'  BY <1>g DEF Local, Leaves, Fixed, Rotating, identity
  <2> QED  BY <2>1, <2>2, <2>3, <2>4, <2>5 DEF Local
<1>6. \A q \in Request \ {r} : Apart(e, req[q]) /\ Apart(req[q], e)
  BY <1>0, <1>a, <1>e DEF Apart, Verifying, Merging, Fixed
<1> QED  BY <1>1, <1>2, <1>3, <1>4, <1>5, <1>6, <1>g, CodeStep

LEMMA InsertCodeStep ==
  ASSUME IInv, NEW r \in Request, InsertCode(r)
  PROVE  IInv'
<1>0. req[r] \in Entry /\ Local(req[r]) /\ Database  BY Here
<1>a. req[r].at = "insert" /\ req[r].to \in Email
  BY <1>0 DEF InsertCode, At, Local, Placed, Working
<1> DEFINE d == [req[r] EXCEPT !.at = "respond"]
<1>w. "respond" \in Working \cup {"idle", "respond", "signed in", "done"}  BY DEF Working
<1>d. d \in Entry  BY <1>0, <1>a, <1>w DEF Entry
<1>c. req' = [req EXCEPT ![r] = d]
  BY <1>a DEF InsertCode, Goto, IInv, TypeOK
<1>1. PICK e \in Entry : e = d  BY <1>d
<1>2. req' = [req EXCEPT ![r] = e] /\ e = d  BY <1>1, <1>c
<1>e.
  /\ Fixed(e, req[r])
  /\ e.at = "respond" /\ e.user = req[r].user /\ e.set = req[r].set
  /\ e.code = req[r].code /\ e.tries = req[r].tries /\ e.target = req[r].target
  /\ e.bills = req[r].bills /\ e.keys = req[r].keys /\ e.had = req[r].had
  /\ e.faults = req[r].faults
  BY <1>0, <1>2, ZenonT(30) DEF Entry, Fixed
<1> HIDE DEF d
<1>g. UNCHANGED <<identity, cookie>>
  BY DEF InsertCode
<1>h. /\ codes' = [codes EXCEPT ![issued + 1] = [to |-> req[r].to, live |-> TRUE, tries |-> 0]]
      /\ issued' = issued + 1 /\ cooling' = cooling \cup {a \in Address : req[r].to \in a}
      /\ issued + 1 \in Code /\ issued' \in 0..MaxCodes
  BY <1>0, CodesAssumption DEF InsertCode, Issue, Code, Database
<1>3. CodesOK'
  <2>1. [to |-> req[r].to, live |-> TRUE, tries |-> 0] \in Row  BY <1>a DEF Row
  <2>2. codes' \in [Code -> Row]  BY <1>0, <1>h, <2>1 DEF Database
  <2>3. \A c \in Code : /\ codes'[c].tries <= MaxAttempts
                        /\ codes'[c].live => c <= issued'
    BY <1>0, <1>h, CodesAssumption DEF Database, CodesAreSound, Code, Row
  <2> QED  BY <1>0, <1>a, <1>h, <2>2, <2>3 DEF CodesOK, CodesAreSound, Database
<1>4. \A q \in Request \ {r}, f \in Entry : f = req[q] /\ HoldsCode(f) => HoldsCode(f)'
  <2> SUFFICES ASSUME NEW q \in Request \ {r}, NEW f \in Entry, f = req[q], HoldsCode(f)
               PROVE  HoldsCode(f)'
    OBVIOUS
  <2>1. \A c \in Code : c # issued + 1 => codes'[c] = codes[c]
    BY <1>0, <1>h DEF Database
  <2>2. 1..issued \subseteq Code /\ 0..issued \subseteq 0..issued' /\ issued + 1 \notin 1..issued
        /\ 1..issued \subseteq 1..issued'
        /\ \A c \in 0..issued : issued + 1 > c
    BY <1>0, <1>h, CodesAssumption DEF Database, Code
  <2>3. f.at = "compare" => /\ f.code \in 1..issued' /\ codes'[f.code] = codes[f.code]
    BY <2>1, <2>2 DEF HoldsCode
  <2>4. f.at = "insert" => /\ f.code \in 0..issued'
                           /\ \A c \in Live(f.to)' : c > f.code
    BY <2>1, <2>2 DEF HoldsCode, Live
  <2> QED  BY <2>3, <2>4 DEF HoldsCode
<1>5. Local(e)'
  <2> USE <1>0, <1>a, <1>e
  <2>1. Placed(e)'  BY <1>g DEF Local, Placed, Fixed, Merging, Rotating, Working, Jobs, identity
  <2>2. HoldsCode(e)'  BY DEF HoldsCode
  <2>3. FindsFree(e)'  BY DEF FindsFree
  <2>4. Merges(e)'  BY <1>g DEF Local, Merges, Merging, identity
  <2>5. Leaves(e)'  BY <1>g DEF Local, Leaves, Fixed, Rotating, identity
  <2> QED  BY <2>1, <2>2, <2>3, <2>4, <2>5 DEF Local
<1>6. \A q \in Request \ {r} : Apart(e, req[q]) /\ Apart(req[q], e)
  BY <1>0, <1>a, <1>e DEF Apart, Verifying, Merging, Fixed
<1> QED  BY <1>1, <1>2, <1>3, <1>4, <1>5, <1>6, <1>g, CodeStep

-----------------------------------------------------------------------------
(* Time, stuttering, and the beginning *)

LEMMA NobodyMoves ==
  ASSUME IInv, UNCHANGED req, Database',
         \A q \in Request, f \in Entry : f = req[q] /\ Local(f) => Local(f)'
  PROVE  IInv'
<1>0. req \in [Request -> Entry]  BY DEF IInv, TypeOK
<1>1. TypeOK' /\ CodesAreSound' /\ RowsAreSound' /\ PasskeysNameTheirUser'
  BY <1>0 DEF Database, TypeOK
<1>2. ASSUME NEW q \in Request PROVE Local(req[q])'
  <2>1. PICK f \in Entry : f = req[q]  BY <1>0
  <2>2. Local(f)'  BY <2>1 DEF IInv
  <2>3. f = req'[q]  BY <2>1
  <2> QED  BY <2>2, <2>3, Transfer
<1>3. ASSUME NEW p \in Request, NEW q \in Request, p # q PROVE Apart(req[p], req[q])'
  BY <1>3 DEF IInv, Apart, Verifying
<1> QED  BY <1>1, <1>2, <1>3 DEF IInv

LEMMA SessionExpiresStep ==
  ASSUME IInv, SessionExpires
  PROVE  IInv'
<1>0. Database  BY DEF IInv, TypeOK, Database
<1>g. UNCHANGED <<codeVars, users, known, email, bills, owner, keyOf, handle, used, ceremony, cookie, req>>
  BY DEF SessionExpires
<1>h. PICK t \in used : session' = [session EXCEPT ![t] = None]
  BY DEF SessionExpires
<1>1. Database'
  BY <1>0, <1>g, <1>h DEF Database, CodesAreSound, RowsAreSound, PasskeysNameTheirUser, codeVars
<1>2. Grown  BY <1>0, <1>g, <1>h DEF Grown, Database
<1>3. \A f \in Entry : Local(f) => Spares(f)  BY <1>g, SparesAll
<1>4. \A q \in Request, f \in Entry : f = req[q] /\ Local(f) => Local(f)'
  BY <1>0, <1>2, <1>3, StaysTrue
<1> QED  BY <1>g, <1>1, <1>4, NobodyMoves

LEMMA CeremonyExpiresStep ==
  ASSUME IInv, CeremonyExpires
  PROVE  IInv'
<1>0. Database  BY DEF IInv, TypeOK, Database
<1>g. UNCHANGED <<codeVars, users, known, email, bills, owner, keyOf, handle, session, used, cookie, req>>
  BY DEF CeremonyExpires
<1>h. PICK n \in Ceremony : ceremony' = [ceremony EXCEPT ![n] = [kind |-> "used", user |-> None]]
  BY DEF CeremonyExpires, Consume
<1>1. Database'
  BY <1>0, <1>g, <1>h DEF Database, CodesAreSound, RowsAreSound, PasskeysNameTheirUser, codeVars
<1>2. Grown  BY <1>0, <1>g DEF Grown, Database
<1>3. \A f \in Entry : Local(f) => Spares(f)  BY <1>g, SparesAll
<1>4. \A q \in Request, f \in Entry : f = req[q] /\ Local(f) => Local(f)'
  BY <1>0, <1>2, <1>3, StaysTrue
<1> QED  BY <1>g, <1>1, <1>4, NobodyMoves

LEMMA CodesAgeStep ==
  ASSUME IInv, CodesAge
  PROVE  IInv'
<1>0. Database  BY DEF IInv, TypeOK, Database
<1>g. UNCHANGED <<identity, cookie, req>>  BY DEF CodesAge
<1>s. ASSUME CodesOK', \A q \in Request, f \in Entry : f = req[q] /\ HoldsCode(f) => HoldsCode(f)'
      PROVE  IInv'
  <2>1. Database'
    BY <1>0, <1>g, <1>s DEF CodesOK, Database, RowsAreSound, PasskeysNameTheirUser, identity
  <2>2. \A q \in Request, f \in Entry : f = req[q] /\ Local(f) => Local(f)'
    <3> SUFFICES ASSUME NEW q \in Request, NEW f \in Entry, f = req[q], Local(f) PROVE Local(f)'
      OBVIOUS
    <3>1. HoldsCode(f)'  BY <1>s DEF Local
    <3> QED  BY <1>g, <3>1, SameIdentity
  <2> QED  BY <1>g, <2>1, <2>2, NobodyMoves
<1>1. CASE \E c \in Code : /\ \A r \in Request : ~(At(r, "compare") /\ req[r].code = c)
                          /\ CodeExpires(c)
  <2>1. PICK c \in Code : /\ \A r \in Request : ~(req[r].at = "compare" /\ req[r].code = c)
                         /\ Kill({c})
    BY <1>1 DEF CodeExpires, At
  <2>2. CodesOK'  BY <1>0, <2>1, KillIsOK
  <2>3. \A q \in Request, f \in Entry : f = req[q] /\ HoldsCode(f) => HoldsCode(f)'
    <3> SUFFICES ASSUME NEW q \in Request, NEW f \in Entry, f = req[q], HoldsCode(f)
                 PROVE  HoldsCode(f)'
      OBVIOUS
    <3>1. f.at = "compare" => f.code # c  BY <2>1
    <3> QED  BY <1>0, <2>1, <3>1, KillSpares
  <2> QED  BY <1>s, <2>2, <2>3
<1>2. CASE CooldownEnds
  <2>1. UNCHANGED <<codes, issued>> /\ cooling' \subseteq cooling
    BY <1>2 DEF CooldownEnds
  <2>2. CodesOK'  BY <1>0, <2>1 DEF CodesOK, CodesAreSound, Database
  <2>3. \A f \in Entry : HoldsCode(f) => HoldsCode(f)'
    BY <2>1 DEF HoldsCode, Live
  <2> QED  BY <1>s, <2>2, <2>3
<1> QED  BY <1>1, <1>2 DEF CodesAge

LEMMA Stutters ==
  ASSUME IInv, UNCHANGED vars
  PROVE  IInv'
<1>0. Database  BY DEF IInv, TypeOK, Database
<1>g. UNCHANGED <<codeVars, identity>> /\ UNCHANGED cookie /\ UNCHANGED req
  BY DEF vars
<1>1. Database'
  BY <1>0, <1>g DEF Database, CodesAreSound, RowsAreSound, PasskeysNameTheirUser, codeVars, identity
<1>2. \A q \in Request, f \in Entry : f = req[q] /\ Local(f) => Local(f)'
  BY <1>g, SameTables
<1> QED  BY <1>g, <1>1, <1>2, NobodyMoves

LEMMA Begins ==
  ASSUME Init
  PROVE  IInv
<1>1. codes \in [Code -> Row] /\ issued \in 0..MaxCodes /\ cooling \subseteq Address /\ CodesAreSound
  <2>1. \A c \in Code : codes[c].tries \in 0..MaxAttempts
    BY DEF Init, CodesInit
  <2>2. codes \in [Code -> Row]
    BY CodesAssumption DEF Init, CodesInit, Row
  <2>3. \A c \in Code : codes[c].live => c <= issued
    BY DEF Init, CodesInit
  <2>4. issued \in 0..MaxCodes /\ cooling \subseteq Address
    BY DEF Init, CodesInit
  <2> QED  BY <2>1, <2>2, <2>3, <2>4, CodesAssumption DEF CodesAreSound
<1>2. /\ users = Settled /\ known = Settled /\ Settled \subseteq User
      /\ email \in [User -> Email \cup {None}] /\ \A u \in User : email[u] # None => u \in Settled
  BY SignInAssumption DEF Init
<1>3. /\ bills \subseteq Bill /\ owner \in [Bill -> Settled \cup {None}]
      /\ \A b \in Bill : owner[b] # None => b \in bills
  BY DEF Init
<1>4. keyOf \in [Passkey -> Settled \cup {None}] /\ handle = keyOf
  BY DEF Init
<1>5. /\ session \in [Token -> Settled \cup {None}] /\ used = {t \in Token : session[t] # None}
      /\ cookie \in [Browser -> used \cup {None}]
  BY DEF Init
<1>6. ceremony \in [Ceremony -> [kind: {"unborn", "registration", "login", "used"},
                                user: Settled \cup {None}]]
  BY DEF Init
<1>7. req = [r \in Request |-> Idle]  BY DEF Init
<1>i. /\ Idle.at = "idle" /\ Idle.job = "bill" /\ Idle.token = None /\ Idle.user = None
      /\ Idle.set = Keep /\ Idle.bills = {} /\ Idle.keys = {}
  BY DEF Idle
<1>n. /\ "idle" \notin Working /\ "idle" \notin Jobs /\ "idle" \notin Merging
      /\ "idle" \notin Rotating
  BY DEF Working, Jobs, Merging, Rotating
<1>8. Local(Idle) /\ Apart(Idle, Idle)
  <2>1. Placed(Idle)  BY <1>i, <1>n DEF Placed
  <2>2. HoldsCode(Idle) /\ FindsFree(Idle)  BY <1>i DEF HoldsCode, FindsFree
  <2>3. Merges(Idle)  BY <1>i, <1>n DEF Merges
  <2>4. Leaves(Idle)  BY <1>i, <1>n DEF Leaves
  <2>5. Apart(Idle, Idle)  BY <1>i DEF Apart, Verifying, Merging
  <2> QED  BY <2>1, <2>2, <2>3, <2>4, <2>5 DEF Local
<1>9. TypeOK
  BY <1>1, <1>2, <1>3, <1>4, <1>5, <1>6, <1>7, IdleIsAnEntry DEF TypeOK
<1>10. RowsAreSound /\ PasskeysNameTheirUser
  BY <1>3, <1>4, <1>5 DEF RowsAreSound, PasskeysNameTheirUser
<1>11. (\A r \in Request : Local(req[r])) /\ (\A r, q \in Request : Apart(req[r], req[q]))
  <2>1. \A r \in Request : req[r] = Idle  BY <1>7
  <2> QED  BY <1>8, <2>1
<1> QED  BY <1>1, <1>9, <1>10, <1>11 DEF IInv

LEMMA Continues ==
  ASSUME IInv, [Next]_vars
  PROVE  IInv'
<1>1. CASE UNCHANGED vars  BY <1>1, Stutters
<1>2. ASSUME NEW r \in Request, Handle(r) PROVE IInv'
  <2>1. CASE Send(r) \/ Recognise(r) \/ Provision(r) \/ ProvisionBlindly(r) \/ Fail(r) \/
            Respond(r) \/ ResponseLost(r) \/ CreateBill(r) \/ Logout(r) \/ LogoutFails(r)
    BY <2>1,
       SendStep, RecogniseStep, ProvisionStep, ProvisionBlindlyStep, FailStep, RespondStep,
       ResponseLostStep, CreateBillStep, LogoutStep, LogoutFailsStep
  <2>2. CASE TooSoon(r) \/ CheckCooldown(r) \/ Invalidate(r) \/ InsertCode(r) \/ ReadCode(r) \/
            NoCode(r) \/ TooManyTries(r) \/ WrongCode(r) \/ RightCode(r) \/ AddressIsFree(r)
    BY <2>2,
       TooSoonStep, CheckCooldownStep, InvalidateStep, InsertCodeStep, ReadCodeStep,
       NoCodeStep, TooManyTriesStep, WrongCodeStep, RightCodeStep, AddressIsFreeStep
  <2>3. CASE AddressIsOwn(r) \/ AddressIsTaken(r) \/ ClaimAddress(r) \/ FoldBills(r) \/
            FoldKeys(r) \/ DeleteUser(r) \/ DropOldSession(r) \/ DropFails(r) \/ IssueSession(r)
            \/ BeginPasskeyRegistration(r)
    BY <2>3,
       AddressIsOwnStep, AddressIsTakenStep, ClaimAddressStep, FoldBillsStep, FoldKeysStep,
       DeleteUserStep, DropOldSessionStep, DropFailsStep, IssueSessionStep,
       BeginPasskeyRegistrationStep
  <2>4. CASE BeginPasskeyLogin(r) \/ ConsumeRegistration(r) \/ ConsumeLogin(r) \/ StorePasskey(r)
            \/ AssertOwn(r) \/ AssertOther(r) \/ SourceIsAnonymous(r) \/ SourceStays(r)
    BY <2>4,
       BeginPasskeyLoginStep, ConsumeRegistrationStep, ConsumeLoginStep, StorePasskeyStep,
       AssertOwnStep, AssertOtherStep, SourceIsAnonymousStep, SourceStaysStep
  <2> QED  BY <1>2, <2>1, <2>2, <2>3, <2>4 DEF Handle
<1> QED  BY <1>1, <1>2, SessionExpiresStep, CeremonyExpiresStep, CodesAgeStep DEF Next

THEOREM Invariance == Spec => []IInv
<1>1. Init => IInv  BY Begins
<1>2. IInv /\ [Next]_vars => IInv'  BY Continues
<1> QED  BY <1>1, <1>2, PTL DEF Spec

-----------------------------------------------------------------------------
(* The properties *)

\* Every variable keeps its type, and every foreign key names a user there is: no merge
\* leaves a bill, passkey, session, ceremony or address with a user it has deleted.
THEOREM TypeCorrect == Spec => []TypeOK
<1>1. IInv => TypeOK  BY DEF IInv
<1> QED  BY <1>1, Invariance, PTL

\* However many requests guess at once, a code is never tried more than MaxAttempts times.
THEOREM GuessesTheorem == Spec => []GuessesAreBounded
<1>1. IInv => GuessesAreBounded  BY DEF IInv, CodesAreSound, GuessesAreBounded
<1> QED  BY <1>1, Invariance, PTL

\* When a request inserts a code, every older code of the address is dead but those of
\* requests that overlap with it.
THEOREM OlderCodesTheorem == Spec => []OlderCodesStayDead
<1>1. IInv => OlderCodesStayDead
  BY DEF IInv, Local, HoldsCode, OlderCodesStayDead, At
<1> QED  BY <1>1, Invariance, PTL

\* A request that is about to attach an address, with the lock of its spelling, finds
\* nobody who has that spelling, however many verify it at once: the UNIQUE column can
\* refuse it only over another spelling of the address.
THEOREM AttachTheorem == Spec => []OnlySpellingsCollide
<1>1. IInv => OnlySpellingsCollide
  <2> SUFFICES ASSUME IInv, NEW r \in Request, At(r, "claim"),
                      NEW u \in Holders(req[r].to)
               PROVE  email[u] # req[r].to
    BY DEF OnlySpellingsCollide
  <2>1. {v \in users : email[v] = req[r].to} = {}  BY DEF IInv, Local, FindsFree, At
  <2> QED  BY <2>1 DEF Holders
<1> QED  BY <1>1, Invariance, PTL

\* A stored passkey names the user it is stored for, or one who is no more.
THEOREM PasskeysTheorem == Spec => []PasskeysNameTheirUser
<1>1. IInv => PasskeysNameTheirUser  BY DEF IInv
<1> QED  BY <1>1, Invariance, PTL

\* Whoever has signed in has no session of the time before, unless deleting it failed.
THEOREM RotationTheorem == Spec => []SignInRotates
<1>1. IInv => SignInRotates
  BY DEF IInv, Local, Leaves, Rotating, SignInRotates, At
<1> QED  BY <1>1, Invariance, PTL

-----------------------------------------------------------------------------
(* Who changes what: the steps the action properties are about *)

\* A handler changes what its own request knows, and nothing of another's.
LEMMA OthersStay ==
  ASSUME IInv, NEW r \in Request, Handle(r), NEW q \in Request, q # r
  PROVE  req'[q] = req[q]
<1>0. req \in [Request -> Entry]  BY DEF IInv, TypeOK
<1>1. CASE Send(r) \/ Recognise(r) \/ Provision(r) \/ ProvisionBlindly(r) \/ Fail(r) \/
           Respond(r) \/ ResponseLost(r) \/ CreateBill(r) \/ Logout(r) \/ LogoutFails(r)
  BY <1>0, <1>1, ZenonT(90)
     DEF Send, Recognise, Provision, ProvisionBlindly, Fail, Respond, ResponseLost,
         CreateBill, Logout, LogoutFails, NewStranger, Goto
<1>2. CASE TooSoon(r) \/ CheckCooldown(r) \/ Invalidate(r) \/ InsertCode(r) \/
           ReadCode(r) \/ NoCode(r) \/ TooManyTries(r) \/ WrongCode(r) \/
           RightCode(r) \/ AddressIsFree(r)
  BY <1>0, <1>2
     DEF TooSoon, CheckCooldown, Invalidate, InsertCode, ReadCode, NoCode, TooManyTries,
         WrongCode, RightCode, AddressIsFree, Goto
<1>3. CASE AddressIsOwn(r) \/ AddressIsTaken(r) \/ ClaimAddress(r) \/ FoldBills(r) \/
           FoldKeys(r) \/ DeleteUser(r) \/ DropOldSession(r) \/ DropFails(r) \/
           IssueSession(r) \/ BeginPasskeyRegistration(r)
  BY <1>0, <1>3
     DEF AddressIsOwn, AddressIsTaken, ClaimAddress, FoldBills, FoldKeys, DeleteUser,
         DropOldSession, DropFails, IssueSession, BeginPasskeyRegistration, Begin, Goto
<1>4. CASE BeginPasskeyLogin(r) \/ ConsumeRegistration(r) \/ ConsumeLogin(r) \/
           StorePasskey(r) \/ AssertOwn(r) \/ AssertOther(r) \/ SourceIsAnonymous(r) \/
           SourceStays(r)
  BY <1>0, <1>4
     DEF BeginPasskeyLogin, ConsumeRegistration, ConsumeLogin, StorePasskey, AssertOwn,
         AssertOther, SourceIsAnonymous, SourceStays, Begin, Consumed, Goto
<1> QED  BY <1>1, <1>2, <1>3, <1>4 DEF Handle

\* Only a response changes a cookie.
LEMMA CookieMoves ==
  ASSUME [Next]_vars, cookie' # cookie
  PROVE  \E r \in Request : Respond(r)
<1>1. ASSUME NEW r \in Request, Handle(r), ~Respond(r) PROVE cookie' = cookie
  <2>1. CASE Send(r) \/ Recognise(r) \/ Provision(r) \/ ProvisionBlindly(r) \/
             Fail(r) \/ ResponseLost(r) \/ CreateBill(r) \/ Logout(r) \/ LogoutFails(r)
    BY <2>1
       DEF Send, Recognise, Provision, ProvisionBlindly, Fail, ResponseLost, CreateBill,
           Logout, LogoutFails, NewStranger
  <2>2. CASE TooSoon(r) \/ CheckCooldown(r) \/ Invalidate(r) \/ InsertCode(r) \/
             ReadCode(r) \/ NoCode(r) \/ TooManyTries(r) \/ WrongCode(r) \/
             RightCode(r) \/ AddressIsFree(r)
    BY <2>2
       DEF TooSoon, CheckCooldown, Invalidate, InsertCode, ReadCode, NoCode,
           TooManyTries, WrongCode, RightCode, AddressIsFree
  <2>3. CASE AddressIsOwn(r) \/ AddressIsTaken(r) \/ ClaimAddress(r) \/ FoldBills(r) \/
             FoldKeys(r) \/ DeleteUser(r) \/ DropOldSession(r) \/ DropFails(r) \/
             IssueSession(r) \/ BeginPasskeyRegistration(r)
    BY <2>3
       DEF AddressIsOwn, AddressIsTaken, ClaimAddress, FoldBills, FoldKeys, DeleteUser,
           DropOldSession, DropFails, IssueSession, BeginPasskeyRegistration, Begin
  <2>4. CASE BeginPasskeyLogin(r) \/ ConsumeRegistration(r) \/ ConsumeLogin(r) \/
             StorePasskey(r) \/ AssertOwn(r) \/ AssertOther(r) \/
             SourceIsAnonymous(r) \/ SourceStays(r)
    BY <2>4
       DEF BeginPasskeyLogin, ConsumeRegistration, ConsumeLogin, StorePasskey,
           AssertOwn, AssertOther, SourceIsAnonymous, SourceStays, Begin, Consumed
  <2> QED  BY <1>1, <2>1, <2>2, <2>3, <2>4 DEF Handle
<1> QED  BY <1>1 DEF Next, SessionExpires, CeremonyExpires, CodesAge, vars

\* What a request that stands before a code it has locked can do, and one before DELETE.
LEMMA FromCompare ==
  ASSUME NEW r \in Request, Handle(r), At(r, "compare")
  PROVE  Fail(r) \/ TooManyTries(r) \/ WrongCode(r) \/ RightCode(r)
<1>1. ~(Send(r) \/ Recognise(r) \/ Provision(r) \/ ProvisionBlindly(r) \/ Respond(r) \/
       ResponseLost(r) \/ CreateBill(r) \/ Logout(r) \/ LogoutFails(r))
  BY DEF At, Send, Recognise, Provision, ProvisionBlindly, Respond, ResponseLost,
         CreateBill, Logout, LogoutFails
<1>2. ~(TooSoon(r) \/ CheckCooldown(r) \/ Invalidate(r) \/ InsertCode(r) \/
       ReadCode(r) \/ NoCode(r) \/ AddressIsFree(r))
  BY DEF At, TooSoon, CheckCooldown, Invalidate, InsertCode, ReadCode, NoCode,
         AddressIsFree
<1>3. ~(AddressIsOwn(r) \/ AddressIsTaken(r) \/ ClaimAddress(r) \/ FoldBills(r) \/
       FoldKeys(r) \/ DeleteUser(r) \/ DropOldSession(r) \/ DropFails(r) \/
       IssueSession(r) \/ BeginPasskeyRegistration(r))
  BY DEF At, AddressIsOwn, AddressIsTaken, ClaimAddress, FoldBills, FoldKeys,
         DeleteUser, DropOldSession, DropFails, IssueSession, BeginPasskeyRegistration
<1>4. ~(BeginPasskeyLogin(r) \/ ConsumeRegistration(r) \/ ConsumeLogin(r) \/
       StorePasskey(r) \/ AssertOwn(r) \/ AssertOther(r) \/ SourceIsAnonymous(r) \/
       SourceStays(r))
  BY DEF At, BeginPasskeyLogin, ConsumeRegistration, ConsumeLogin, StorePasskey,
         AssertOwn, AssertOther, SourceIsAnonymous, SourceStays
<1> QED  BY <1>1, <1>2, <1>3, <1>4 DEF Handle

LEMMA FromDelete ==
  ASSUME NEW r \in Request, Handle(r), At(r, "delete")
  PROVE  Fail(r) \/ DeleteUser(r)
<1>1. ~(Send(r) \/ Recognise(r) \/ Provision(r) \/ ProvisionBlindly(r) \/ Respond(r) \/
       ResponseLost(r) \/ CreateBill(r) \/ Logout(r) \/ LogoutFails(r))
  BY DEF At, Send, Recognise, Provision, ProvisionBlindly, Respond, ResponseLost,
         CreateBill, Logout, LogoutFails
<1>2. ~(TooSoon(r) \/ CheckCooldown(r) \/ Invalidate(r) \/ InsertCode(r) \/
       ReadCode(r) \/ NoCode(r) \/ TooManyTries(r) \/ WrongCode(r) \/ RightCode(r) \/
       AddressIsFree(r))
  BY DEF At, TooSoon, CheckCooldown, Invalidate, InsertCode, ReadCode, NoCode,
         TooManyTries, WrongCode, RightCode, AddressIsFree
<1>3. ~(AddressIsOwn(r) \/ AddressIsTaken(r) \/ ClaimAddress(r) \/ FoldBills(r) \/
       FoldKeys(r) \/ DropOldSession(r) \/ DropFails(r) \/ IssueSession(r) \/
       BeginPasskeyRegistration(r))
  BY DEF At, AddressIsOwn, AddressIsTaken, ClaimAddress, FoldBills, FoldKeys,
         DropOldSession, DropFails, IssueSession, BeginPasskeyRegistration
<1>4. ~(BeginPasskeyLogin(r) \/ ConsumeRegistration(r) \/ ConsumeLogin(r) \/
       StorePasskey(r) \/ AssertOwn(r) \/ AssertOther(r) \/ SourceIsAnonymous(r) \/
       SourceStays(r))
  BY DEF At, BeginPasskeyLogin, ConsumeRegistration, ConsumeLogin, StorePasskey,
         AssertOwn, AssertOther, SourceIsAnonymous, SourceStays
<1> QED  BY <1>1, <1>2, <1>3, <1>4 DEF Handle

\* Killing and missing never bring a code back.
LEMMA DeadStaysDead ==
  ASSUME Database, NEW c \in 1..issued,
         \/ \E dead : Kill(dead)
         \/ \E d \in Code : Miss(d)
         \/ \E a : Issue(a)
         \/ UNCHANGED codes
  PROVE  codes'[c].live => codes[c].live
<1>0. codes \in [Code -> Row] /\ c \in Code /\ c # issued + 1 /\ issued + 1 \in Nat
  BY CodesAssumption DEF Database, Code
<1>1. ASSUME NEW dead, Kill(dead) PROVE codes'[c].live => codes[c].live
  BY <1>0, <1>1 DEF Kill, Row
<1>2. ASSUME NEW d \in Code, Miss(d) PROVE codes'[c].live = codes[c].live
  <2>1. codes[d] \in Row /\ codes' = [codes EXCEPT ![d] = [codes[d] EXCEPT !.tries = @ + 1]]
    BY <1>0, <1>2 DEF Miss
  <2> QED  BY <1>0, <2>1 DEF Row
<1>3. ASSUME NEW a, Issue(a) PROVE codes'[c] = codes[c]
  BY <1>0, <1>3 DEF Issue
<1> QED  BY <1>1, <1>2, <1>3

LEMMA NoneComesBack ==
  ASSUME IInv, [Next]_vars, NEW c \in 1..issued
  PROVE  codes'[c].live => codes[c].live
<1>0. Database  BY DEF IInv, TypeOK, Database
<1>1. ASSUME NEW r \in Request, Handle(r)
      PROVE  \/ \E dead : Kill(dead)
             \/ \E d \in Code : Miss(d)
             \/ \E a : Issue(a)
             \/ UNCHANGED codes
  <2>1. CASE Send(r) \/ Recognise(r) \/ Provision(r) \/ ProvisionBlindly(r) \/
             Fail(r) \/ Respond(r) \/ ResponseLost(r) \/ CreateBill(r) \/ Logout(r) \/
             LogoutFails(r)
    BY <2>1
       DEF codeVars, Send, Recognise, Provision, ProvisionBlindly, Fail, Respond, ResponseLost,
           CreateBill, Logout, LogoutFails, NewStranger
  <2>2. CASE TooSoon(r) \/ CheckCooldown(r) \/ ReadCode(r) \/ NoCode(r) \/
             AddressIsFree(r)
    BY <2>2
       DEF codeVars, TooSoon, CheckCooldown, ReadCode, NoCode, AddressIsFree
  <2>3. CASE AddressIsOwn(r) \/ AddressIsTaken(r) \/ ClaimAddress(r) \/ FoldBills(r) \/
             FoldKeys(r) \/ DeleteUser(r) \/ DropOldSession(r) \/ DropFails(r) \/
             IssueSession(r) \/ BeginPasskeyRegistration(r)
    BY <2>3
       DEF codeVars, AddressIsOwn, AddressIsTaken, ClaimAddress, FoldBills, FoldKeys, DeleteUser,
           DropOldSession, DropFails, IssueSession, BeginPasskeyRegistration, Begin
  <2>4. CASE BeginPasskeyLogin(r) \/ ConsumeRegistration(r) \/ ConsumeLogin(r) \/
             StorePasskey(r) \/ AssertOwn(r) \/ AssertOther(r) \/
             SourceIsAnonymous(r) \/ SourceStays(r)
    BY <2>4
       DEF codeVars, BeginPasskeyLogin, ConsumeRegistration, ConsumeLogin, StorePasskey,
           AssertOwn, AssertOther, SourceIsAnonymous, SourceStays, Begin, Consumed
  <2>5. CASE Invalidate(r)  BY <2>5 DEF Invalidate, InvalidateAll
  <2>6. CASE InsertCode(r)  BY <2>6 DEF InsertCode
  <2>7. CASE TooManyTries(r)  BY <2>7 DEF TooManyTries
  <2>8. CASE RightCode(r)  BY <2>8 DEF RightCode
  <2>9. CASE WrongCode(r)
    <3>1. Local(req[r])  BY DEF IInv
    <3>2. req[r].code \in Code
      BY <2>9, <3>1, CodesAssumption DEF WrongCode, At, Local, HoldsCode, Code, Database, IInv, TypeOK
    <3> QED  BY <2>9, <3>2 DEF WrongCode
  <2> QED  BY <1>1, <2>1, <2>2, <2>3, <2>4, <2>5, <2>6, <2>7, <2>8, <2>9 DEF Handle
<1>2. CASE SessionExpires \/ CeremonyExpires \/ UNCHANGED vars
  BY <1>2 DEF SessionExpires, CeremonyExpires, vars, codeVars
<1>3. CASE CodesAge
  <2>1. (\E d \in Code : Kill({d})) \/ UNCHANGED codes
    BY <1>3 DEF CodesAge, CodeExpires, CooldownEnds
  <2> QED  BY <1>0, <2>1, DeadStaysDead
<1> QED  BY <1>0, <1>1, <1>2, <1>3, DeadStaysDead DEF Next

-----------------------------------------------------------------------------
(* The action properties *)

\* A request that goes somewhere else takes a step of its handler.
LEMMA Moved ==
  ASSUME IInv, [Next]_vars, NEW r \in Request, req'[r].at # req[r].at
  PROVE  Handle(r)
<1>1. ASSUME NEW q \in Request, Handle(q) PROVE q = r
  BY <1>1, OthersStay
<1>2. ~UNCHANGED req  OBVIOUS
<1> QED  BY <1>1, <1>2 DEF Next, SessionExpires, CeremonyExpires, CodesAge, vars

\* The steps that end a request with an error or a refusal go to its response.
LEMMA EndsInResponse ==
  ASSUME IInv, NEW r \in Request, Fail(r) \/ TooManyTries(r) \/ WrongCode(r)
  PROVE  req'[r].at = "respond"
<1>1. PICK e \in Entry : e = req[r]  BY DEF IInv, TypeOK
<1>2. req \in [Request -> Entry]  BY DEF IInv, TypeOK
<1>3. CASE Fail(r)
  <2>1. req'[r] = [e EXCEPT !.at = "respond", !.bills = {}, !.keys = {}]
    BY <1>1, <1>2, <1>3 DEF Fail
  <2> QED  BY <1>1, <2>1, ZenonT(30) DEF Entry
<1>4. CASE TooManyTries(r) \/ WrongCode(r)
  <2>1. req' = [req EXCEPT ![r].at = "respond"]
    BY <1>4 DEF TooManyTries, WrongCode, Goto
  <2>2. req'[r] = [e EXCEPT !.at = "respond"]
    BY <1>1, <1>2, <2>1
  <2> QED  BY <1>1, <2>2, ZenonT(30) DEF Entry
<1> QED  BY <1>3, <1>4

\* A code is accepted once, by the request that holds its lock while it is usable, and a
\* code that is not usable never becomes so again.
THEOREM OpenOnceTheorem == Spec => CodesOpenOnce
<1> DEFINE Once ==
      /\ \A c \in 1..issued : codes'[c].live => codes[c].live
      /\ \A r \in Request : (At(r, "compare") /\ req'[r].at = "attach") =>
           codes[req[r].code].live /\ ~codes'[req[r].code].live
<1>1. IInv /\ [Next]_vars => Once
  <2> SUFFICES ASSUME IInv, [Next]_vars PROVE Once
    OBVIOUS
  <2>1. \A c \in 1..issued : codes'[c].live => codes[c].live
    BY NoneComesBack
  <2>2. ASSUME NEW r \in Request, At(r, "compare"), req'[r].at = "attach"
        PROVE  codes[req[r].code].live /\ ~codes'[req[r].code].live
    <3>0. req \in [Request -> Entry] /\ codes \in [Code -> Row] /\ Local(req[r])
          /\ issued \in 0..MaxCodes
      BY DEF IInv, TypeOK
    <3>1. Handle(r)  BY <2>2, Moved DEF At
    <3>2. RightCode(r)
      <4>1. Fail(r) \/ TooManyTries(r) \/ WrongCode(r) \/ RightCode(r)
        BY <2>2, <3>1, FromCompare
      <4>2. ~(Fail(r) \/ TooManyTries(r) \/ WrongCode(r))
        BY <2>2, EndsInResponse
      <4> QED  BY <4>1, <4>2
    <3>3. req[r].code \in Code /\ codes[req[r].code].live
      BY <2>2, <3>0, CodesAssumption DEF At, Local, HoldsCode, Code
    <3>4. Kill({req[r].code})  BY <3>2 DEF RightCode
    <3> QED  BY <3>0, <3>3, <3>4 DEF Kill, Row
  <2> QED  BY <2>1, <2>2
<1>2. Spec => [][Once]_vars
  BY <1>1, Invariance, PTL DEF Spec
<1> QED  BY <1>2 DEF CodesOpenOnce

\* Deleting a user loses none of the bills and passkeys it had when the merge began, and a
\* passkey login deletes only users who had neither address nor passkey then.
THEOREM NothingLostTheorem == Spec => MergesLoseNothing
<1> DEFINE Kept ==
      \A r \in Request : (At(r, "delete") /\ req'[r].at = "rotate") => LET had == req[r].had IN
        /\ \A b \in had.bills : owner[b] # None => owner'[b] # None
        /\ \A k \in had.keys : keyOf[k] # None => keyOf'[k] # None
        /\ req[r].job = "login" => ~had.upgraded
<1>1. IInv /\ [Next]_vars => Kept
  <2> SUFFICES ASSUME IInv, [Next]_vars, NEW r \in Request, At(r, "delete"), req'[r].at = "rotate"
               PROVE  /\ \A b \in req[r].had.bills : owner[b] # None => owner'[b] # None
                      /\ \A k \in req[r].had.keys : keyOf[k] # None => keyOf'[k] # None
                      /\ req[r].job = "login" => ~req[r].had.upgraded
    OBVIOUS
  <2>0. req \in [Request -> Entry] /\ Local(req[r])  BY DEF IInv, TypeOK
  <2>1. PICK e \in Entry : e = req[r]  BY <2>0
  <2>2. Merges(e) /\ e.at = "delete"  BY <2>0, <2>1 DEF Local, At
  <2>3. e.had.bills \subseteq Bill /\ e.had.keys \subseteq Passkey  BY <2>1 DEF Entry
  <2>4. DeleteUser(r)
    <3>1. Handle(r)  BY <2>0, Moved DEF At
    <3>2. Fail(r) \/ DeleteUser(r)  BY <3>1, FromDelete
    <3>3. ~Fail(r)  BY EndsInResponse
    <3> QED  BY <3>2, <3>3
  <2>5. /\ owner' = [b \in Bill |-> IF b \in e.bills THEN e.target ELSE Without(e.user, owner[b])]
        /\ keyOf' = [k \in Passkey |-> IF k \in e.keys THEN e.target
                                      ELSE Without(e.user, keyOf[k])]
    BY <2>1, <2>4 DEF DeleteUser
  <2>6. None \notin users /\ owner \in [Bill -> users \cup {None}]
        /\ keyOf \in [Passkey -> users \cup {None}]
    BY SignInAssumption DEF IInv, TypeOK
  <2>7. (e.bills # {} => e.target # None) /\ (e.keys # {} => e.target # None)
    BY <2>2, <2>6 DEF Merges
  <2>8. CASE e.user \in users
    <3>1. e.had.bills \subseteq e.bills /\ e.had.keys \subseteq e.keys
      BY <2>2, <2>8 DEF Merges
    <3> QED  BY <2>1, <2>2, <2>3, <2>5, <2>7, <3>1 DEF Merges, Merging
  <2>9. CASE e.user \notin users
    <3>1. ASSUME NEW b \in e.had.bills, owner[b] # None PROVE owner'[b] # None
      BY <2>3, <2>5, <2>6, <2>7, <2>9, <3>1 DEF Without
    <3>2. ASSUME NEW k \in e.had.keys, keyOf[k] # None PROVE keyOf'[k] # None
      BY <2>3, <2>5, <2>6, <2>7, <2>9, <3>2 DEF Without
    <3> QED  BY <2>1, <2>2, <3>1, <3>2 DEF Merges, Merging
  <2> QED  BY <2>8, <2>9
<1>2. Spec => [][Kept]_vars
  BY <1>1, Invariance, PTL DEF Spec
<1> QED  BY <1>2 DEF MergesLoseNothing

\* A browser with a valid session becomes somebody else only by signing in or out, by a
\* response to a request sent with another token, or because verify failed.
THEOREM SticksTheorem == Spec => SignInSticks
<1> DEFINE Sticks ==
      \A b \in Browser : (cookie[b] # None /\ cookie'[b] # cookie[b]) =>
        \/ session[cookie[b]] = None
        \/ \E r \in Request :
             /\ req[r].browser = b /\ req[r].set = cookie'[b] /\ req'[r] = Done
             /\ \/ req[r].token # cookie[b]
                \/ "verify" \in req[r].faults
                \/ req[r].job \in {"verify", "login", "logout"}
<1>1. IInv /\ [Next]_vars => Sticks
  <2> SUFFICES ASSUME IInv, [Next]_vars, NEW b \in Browser, cookie[b] # None,
                      cookie'[b] # cookie[b], session[cookie[b]] # None
               PROVE  \E r \in Request :
                        /\ req[r].browser = b /\ req[r].set = cookie'[b] /\ req'[r] = Done
                        /\ \/ req[r].token # cookie[b]
                           \/ "verify" \in req[r].faults
                           \/ req[r].job \in {"verify", "login", "logout"}
    OBVIOUS
  <2>1. PICK r \in Request : Respond(r)  BY CookieMoves
  <2>2. req \in [Request -> Entry] /\ cookie \in [Browser -> used \cup {None}] /\ Local(req[r])
    BY DEF IInv, TypeOK
  <2>3. /\ cookie' = [cookie EXCEPT ![req[r].browser] =
                       IF req[r].set = Keep THEN @ ELSE req[r].set]
        /\ req'[r] = Done
    BY <2>1, <2>2 DEF Respond
  <2>4. req[r].browser = b /\ req[r].set # Keep /\ req[r].set = cookie'[b]
    BY <2>2, <2>3
  <2>5. \/ req[r].token # cookie[b]
        \/ "verify" \in req[r].faults
        \/ req[r].job \in {"verify", "login", "logout"}
    BY <2>2, <2>4 DEF Local, Leaves
  <2> QED  BY <2>3, <2>4, <2>5
<1>2. Spec => [][Sticks]_vars
  BY <1>1, Invariance, PTL DEF Spec
<1> QED  BY <1>2 DEF SignInSticks
=============================================================================
