------------------------------- MODULE SignIn -------------------------------
(* Identities, sessions and signing in (auth/*.go, httpapi/auth_*.go): every  *)
(* browser is some user from its first request; a code or a passkey makes it  *)
(* the user who owns the address or the passkey, and what it collected as a   *)
(* stranger is folded into that account.                                      *)
(*                                                                            *)
(* A request takes one step per SQL statement that other requests can tell    *)
(* apart; the statements of a transaction show together at its COMMIT.  The   *)
(* locks of Postgres are read off the requests that hold them: row locks of   *)
(* updated bills and passkeys, the share lock a foreign key takes on the user *)
(* it refers to, SELECT ... FOR UPDATE, and the advisory lock of an address.  *)
EXTENDS OneTimeCodes, FiniteSets
CONSTANTS
  Browser, Request,
  User, Token, Bill, Passkey, Ceremony,
  Settled,          \* the users of the database the server starts with
  Keep              \* the response sets no cookie
ASSUME SignInAssumption ==
  /\ Settled \subseteq User
  /\ None \notin User \cup Token \cup Browser \cup Ceremony \cup Passkey
  /\ Keep \notin Token \cup {None}
VARIABLES
  users,            \* rows of users
  known,            \* every user there ever was: ids are not used again
  email,            \* [User -> address as it was spelled, or None]
  bills, owner,     \* bills there are, and bill_sessions.owner_user_id
  keyOf,            \* [Passkey -> user of its row in webauthn_credentials]
  handle,           \* [Passkey -> user handle the authenticator keeps with it]
  session,          \* [Token -> user of its row in sessions]
  used,             \* tokens issued so far
  ceremony,         \* [Ceremony -> row of webauthn_ceremonies]
  cookie,           \* [Browser -> token]
  req               \* [Request -> what its handler knows]
identity == <<users, known, email, bills, owner, keyOf, handle, session, used, ceremony>>
vars == <<codeVars, identity, cookie, req>>

Jobs == {"bill", "ask", "verify", "begin registration", "register",
         "begin login", "login", "logout"}
\* The statements a request stands before.
Working == Jobs \cup {"identify", "invalidate", "insert", "compare", "attach", "claim",
  "assert", "source", "fold bills", "fold keys", "delete", "store", "rotate", "issue"}
Merging == {"fold bills", "fold keys", "delete"}
Nothing == [bills |-> {}, keys |-> {}, upgraded |-> FALSE]
Idle == [at |-> "idle", job |-> "bill", browser |-> None, token |-> None, user |-> None,
         set |-> Keep, to |-> None, guess |-> 0, code |-> 0, tries |-> 0, ceremony |-> None,
         passkey |-> None, target |-> None, bills |-> {}, keys |-> {}, had |-> Nothing,
         faults |-> {}]
Done == [Idle EXCEPT !.at = "done"]

\* The server starts on the database an earlier run has left, and browsers have cookies.
Init ==
  /\ CodesInit
  /\ users = Settled /\ known = Settled
  /\ email \in {f \in [User -> Email \cup {None}] :
       \A u, v \in User : f[u] # None => u \in Settled /\ (Same(f[u], f[v]) => u = v)}
  /\ bills \in SUBSET Bill
  /\ owner \in {f \in [Bill -> Settled \cup {None}] : \A b \in Bill \ bills : f[b] = None}
  /\ keyOf \in [Passkey -> Settled \cup {None}] /\ handle = keyOf
  /\ session \in [Token -> Settled \cup {None}]
  /\ used = {t \in Token : session[t] # None}
  /\ ceremony \in [Ceremony -> [kind: {"registration"}, user: Settled]
                      \cup [kind: {"login", "unborn"}, user: {None}]]
  /\ cookie \in [Browser -> used \cup {None}]
  /\ req = [r \in Request |-> Idle]

-----------------------------------------------------------------------------
(* Locks *)
\* A plausible bug: SELECT without FOR UPDATE.
CodeNotHeld(c, r) == FALSE
\* FOR UPDATE of a code row, held until the transaction ends
CodeHeld(c, r) == \E q \in Request \ {r} : req[q].at = "compare" /\ req[q].code = c
\* A plausible bug: no advisory lock.
AddressNotHeld(e, r) == FALSE
\* pg_advisory_xact_lock of the hash of an address as it is spelled: another spelling of
\* the same address is another lock (two spellings with one hash would only wait more)
AddressHeld(e, r) == \E q \in Request \ {r} :
  req[q].job = "verify" /\ req[q].to = e /\ req[q].at \in Merging \cup {"claim"}
BillHeld(b, r) == \E q \in Request \ {r} : b \in req[q].bills
KeyHeld(k, r) == \E q \in Request \ {r} : k \in req[q].keys
\* MergeAnonymousInto: SELECT 1 FROM users WHERE id = target FOR UPDATE
UserLocked(u, r) == \E q \in Request \ {r} :
  req[q].job = "login" /\ req[q].at = "delete" /\ req[q].target = u
\* ... or the foreign key of a row that was moved to the user
UserPinned(u, r) ==
  \/ UserLocked(u, r)
  \/ \E q \in Request \ {r} : req[q].target = u /\ req[q].bills \cup req[q].keys # {}

(* Helpers *)
Fresh(S, taken) == CHOOSE x \in S \ taken : TRUE
At(r, s) == req[r].at = s
Goto(r, s) == req' = [req EXCEPT ![r].at = s]
BillsOf(u) == {b \in bills : owner[b] = u}
KeysOf(u) == {k \in Passkey : keyOf[k] = u}
Holders(e) == {u \in users : Same(email[u], e)}
\* A plausible bug: passkeys are not looked at.
WithoutAddress(u) == email[u] = None
\* email IS NULL AND NOT EXISTS (a credential)
Anonymous(u) == email[u] = None /\ KeysOf(u) = {}
\* What a user has when a merge begins; only the properties read it.
Had(u) == [bills |-> BillsOf(u), keys |-> KeysOf(u), upgraded |-> email[u] # None \/ KeysOf(u) # {}]

-----------------------------------------------------------------------------
(* Identify, the middleware before every handler *)

\* A right guess is a code that was sent; 0 is right for none.  hashOTP hashes the spelling
\* with the digits: under another spelling of its address a code is a wrong guess.
Guesses(e) == {0} \cup {c \in 1..issued : codes[c].to = e}
Addressed(j) == IF j \in {"ask", "verify"} THEN Email ELSE {None}
Ceremonies(j) == IF j \in {"register", "login"}
                 THEN {n \in Ceremony : ceremony[n].kind # "unborn"} ELSE {None}
Passkeys(j) == IF j = "login" THEN {k \in Passkey : handle[k] # None} ELSE {None}

\* A browser sends a request with the cookie it has.
Send(r) ==
  /\ At(r, "idle")
  /\ \E b \in Browser, j \in Jobs :
       \E e \in Addressed(j), n \in Ceremonies(j), k \in Passkeys(j) :
         \E g \in IF j = "verify" THEN Guesses(e) ELSE {0} :
           req' = [req EXCEPT ![r] = [Idle EXCEPT !.at = "identify", !.job = j, !.browser = b,
             !.token = cookie[b], !.to = e, !.guess = g, !.ceremony = n, !.passkey = k]]
  /\ UNCHANGED <<codeVars, identity, cookie>>

\* A plausible bug: an anonymous session is not accepted as one.
UnknownOrStranger(t) == t \notin {x \in Token : session[x] # None /\ ~Anonymous(session[x])}
Unknown(t) == t \notin {x \in Token : session[x] # None}

\* verify finds the session: the caller is its user.
Recognise(r) ==
  /\ At(r, "identify") /\ ~Unknown(req[r].token)
  /\ req' = [req EXCEPT ![r].at = req[r].job, ![r].user = session[req[r].token]]
  /\ UNCHANGED <<codeVars, identity, cookie>>

\* createAnonymousSession: a new user and its session, in one transaction.
NewStranger(r, faults) ==
  LET u == Fresh(User, known)  t == Fresh(Token, used) IN
    /\ known # User /\ used # Token
    /\ users' = users \cup {u} /\ known' = known \cup {u}
    /\ session' = [session EXCEPT ![t] = u] /\ used' = used \cup {t}
    /\ req' = [req EXCEPT ![r].at = req[r].job, ![r].user = u, ![r].set = t,
                          ![r].faults = faults]
    /\ UNCHANGED <<codeVars, email, bills, owner, keyOf, handle, ceremony, cookie>>
Provision(r) == At(r, "identify") /\ Unknown(req[r].token) /\ NewStranger(r, {})
\* Any error of verify counts as no session.
ProvisionBlindly(r) ==
  At(r, "identify") /\ ~Unknown(req[r].token) /\ NewStranger(r, {"verify"})

\* The request ends in an error; an open transaction is rolled back.
Fail(r) ==
  /\ req[r].at \in Working
  /\ req' = [req EXCEPT ![r].at = "respond", ![r].bills = {}, ![r].keys = {}]
  /\ UNCHANGED <<codeVars, identity, cookie>>

\* The response reaches the browser, or is lost.
Respond(r) ==
  /\ req[r].at \in {"respond", "signed in"}
  /\ cookie' = [cookie EXCEPT ![req[r].browser] = IF req[r].set = Keep THEN @ ELSE req[r].set]
  /\ req' = [req EXCEPT ![r] = Done]
  /\ UNCHANGED <<codeVars, identity>>
ResponseLost(r) ==
  /\ req[r].at \in {"respond", "signed in"}
  /\ req' = [req EXCEPT ![r] = Done]
  /\ UNCHANGED <<codeVars, identity, cookie>>

-----------------------------------------------------------------------------
(* Handlers of one statement *)

\* handleCreateSession: INSERT INTO bill_sessions
CreateBill(r) ==
  /\ At(r, "bill") /\ bills # Bill
  /\ req[r].user \in users /\ ~UserLocked(req[r].user, r)
  /\ LET b == Fresh(Bill, bills) IN
       /\ bills' = bills \cup {b}
       /\ owner' = [owner EXCEPT ![b] = req[r].user]
  /\ Goto(r, "respond")
  /\ UNCHANGED <<codeVars, users, known, email, keyOf, handle, session, used, ceremony, cookie>>

Logout(r) ==
  /\ At(r, "logout")
  /\ session' = [t \in Token |-> IF t = req[r].token THEN None ELSE session[t]]
  /\ req' = [req EXCEPT ![r].at = "respond", ![r].set = None]
  /\ UNCHANGED <<codeVars, users, known, email, bills, owner, keyOf, handle, used, ceremony, cookie>>
\* The error of the DELETE is ignored.
LogoutFails(r) ==
  /\ At(r, "logout")
  /\ req' = [req EXCEPT ![r].at = "respond", ![r].set = None]
  /\ UNCHANGED <<codeVars, identity, cookie>>

-----------------------------------------------------------------------------
(* RequestOTP *)

TooSoon(r) ==
  /\ At(r, "ask") /\ Cooling(req[r].to)
  /\ Goto(r, "respond")
  /\ UNCHANGED <<codeVars, identity, cookie>>
CheckCooldown(r) ==
  /\ At(r, "ask") /\ ~Cooling(req[r].to)
  /\ Goto(r, "invalidate")
  /\ UNCHANGED <<codeVars, identity, cookie>>

\* From here on "code" is the newest row there was at this moment.
Invalidate(r) ==
  /\ At(r, "invalidate")
  /\ \A c \in Live(req[r].to) : ~CodeHeld(c, r)
  /\ InvalidateAll(req[r].to)
  /\ req' = [req EXCEPT ![r].at = "insert", ![r].code = issued]
  /\ UNCHANGED <<identity, cookie>>

\* The mail may fail afterwards: the row stays, the answer is an error.
InsertCode(r) ==
  /\ At(r, "insert")
  /\ Issue(req[r].to)
  /\ req' = [req EXCEPT ![r].at = "respond"]
  /\ UNCHANGED <<identity, cookie>>

-----------------------------------------------------------------------------
(* VerifyOTP: the transaction of the code *)

ReadCode(r) ==
  /\ At(r, "verify")
  /\ \E c \in Newest(req[r].to) :
       /\ ~CodeHeld(c, r)
       /\ req' = [req EXCEPT ![r].at = "compare", ![r].code = c, ![r].tries = codes[c].tries]
  /\ UNCHANGED <<codeVars, identity, cookie>>
NoCode(r) ==
  /\ At(r, "verify") /\ Live(req[r].to) = {}
  /\ Goto(r, "respond")
  /\ UNCHANGED <<codeVars, identity, cookie>>

TooManyTries(r) ==
  /\ At(r, "compare") /\ Exhausted(req[r].tries)
  /\ Kill({req[r].code})
  /\ Goto(r, "respond")
  /\ UNCHANGED <<identity, cookie>>
WrongCode(r) ==
  /\ At(r, "compare") /\ ~Exhausted(req[r].tries) /\ req[r].guess # req[r].code
  /\ Miss(req[r].code)
  /\ Goto(r, "respond")
  /\ UNCHANGED <<identity, cookie>>
RightCode(r) ==
  /\ At(r, "compare") /\ ~Exhausted(req[r].tries) /\ req[r].guess = req[r].code
  /\ Kill({req[r].code})
  /\ Goto(r, "attach")
  /\ UNCHANGED <<identity, cookie>>

-----------------------------------------------------------------------------
(* AttachEmailOrMerge *)

\* SELECT id FROM users WHERE email, under the lock of the spelling: nobody has the address,
\* the caller has it, or another user has it and the caller is folded into that one.
AddressIsFree(r) ==
  /\ At(r, "attach") /\ ~AddressHeld(req[r].to, r)
  /\ Holders(req[r].to) = {}
  /\ Goto(r, "claim")
  /\ UNCHANGED <<codeVars, identity, cookie>>
AddressIsOwn(r) ==
  /\ At(r, "attach") /\ ~AddressHeld(req[r].to, r)
  /\ req[r].user \in Holders(req[r].to)
  /\ req' = [req EXCEPT ![r].at = "rotate", ![r].target = req[r].user]
  /\ UNCHANGED <<codeVars, identity, cookie>>
AddressIsTaken(r) ==
  /\ At(r, "attach") /\ ~AddressHeld(req[r].to, r)
  /\ \E h \in Holders(req[r].to) \ {req[r].user} :
       req' = [req EXCEPT ![r].at = "fold bills", ![r].target = h,
                          ![r].had = Had(req[r].user)]
  /\ UNCHANGED <<codeVars, identity, cookie>>

\* UPDATE users SET email: no row when the user is gone, and no error; but an error (Fail)
\* when another user has got the address under another spelling since the lookup.
ClaimAddress(r) == LET u == req[r].user IN
  /\ At(r, "claim") /\ ~UserPinned(u, r) /\ Holders(req[r].to) \subseteq {u}
  /\ email' = IF u \in users THEN [email EXCEPT ![u] = req[r].to] ELSE email
  /\ req' = [req EXCEPT ![r].at = "rotate", ![r].target = u]
  /\ UNCHANGED <<codeVars, users, known, bills, owner, keyOf, handle, session, used, ceremony, cookie>>

\* UPDATE bill_sessions SET owner_user_id = target, seen by others at COMMIT
FoldBills(r) == LET mine == BillsOf(req[r].user)  to == req[r].target IN
  /\ At(r, "fold bills")
  /\ \A b \in mine : ~BillHeld(b, r)
  /\ mine # {} => to \in users
  /\ mine # {} \/ req[r].job = "login" => ~UserLocked(to, r)
  /\ req[r].job = "login" => ~UserPinned(to, r)
  /\ req' = [req EXCEPT ![r].at = IF req[r].job = "verify" THEN "fold keys" ELSE "delete",
                        ![r].bills = mine]
  /\ UNCHANGED <<codeVars, identity, cookie>>

\* UPDATE webauthn_credentials SET user_id = target (only for a code)
FoldKeys(r) == LET mine == KeysOf(req[r].user)  to == req[r].target IN
  /\ At(r, "fold keys")
  /\ \A k \in mine : ~KeyHeld(k, r)
  /\ mine # {} => to \in users /\ ~UserLocked(to, r)
  /\ req' = [req EXCEPT ![r].at = "delete", ![r].keys = mine]
  /\ UNCHANGED <<codeVars, identity, cookie>>

\* A plausible bug: a column without a foreign key keeps the id of the deleted user.
StaysBehind(u, x) == x
\* ON DELETE CASCADE and ON DELETE SET NULL alike: no row refers to the user any more.
Without(u, x) == IF x = u THEN None ELSE x

\* DELETE FROM users, with what the schema cascades, and COMMIT
DeleteUser(r) == LET u == req[r].user  to == req[r].target IN
  /\ At(r, "delete") /\ ~UserPinned(u, r)
  /\ \A b \in BillsOf(u) : ~BillHeld(b, r)
  /\ \A k \in KeysOf(u) : ~KeyHeld(k, r)
  /\ users' = users \ {u}
  /\ email' = [email EXCEPT ![u] = None]
  /\ owner' = [b \in Bill |-> IF b \in req[r].bills THEN to ELSE Without(u, owner[b])]
  /\ keyOf' = [k \in Passkey |-> IF k \in req[r].keys THEN to ELSE Without(u, keyOf[k])]
  /\ session' = [t \in Token |-> Without(u, session[t])]
  /\ ceremony' = [n \in Ceremony |-> IF ceremony[n].user = u
                                     THEN [kind |-> "used", user |-> None] ELSE ceremony[n]]
  /\ req' = [req EXCEPT ![r].at = "rotate", ![r].bills = {}, ![r].keys = {}]
  /\ UNCHANGED <<codeVars, known, bills, handle, used, cookie>>

-----------------------------------------------------------------------------
(* The rotation of the session that ends both ways of signing in *)

\* A plausible bug: the token of this response is dropped instead.
NewToken(r) == req[r].set
OldToken(r) == req[r].token

DropOldSession(r) ==
  /\ At(r, "rotate")
  /\ session' = [t \in Token |-> IF t = OldToken(r) THEN None ELSE session[t]]
  /\ Goto(r, "issue")
  /\ UNCHANGED <<codeVars, users, known, email, bills, owner, keyOf, handle, used, ceremony, cookie>>
\* The error of the DELETE is ignored.
DropFails(r) ==
  /\ At(r, "rotate") /\ req[r].token # None
  /\ req' = [req EXCEPT ![r].at = "issue", ![r].faults = @ \cup {"drop"}]
  /\ UNCHANGED <<codeVars, identity, cookie>>

\* CreateSessionFor: the foreign key refuses a user who is gone.
IssueSession(r) == LET t == Fresh(Token, used) IN
  /\ At(r, "issue") /\ used # Token
  /\ req[r].target \in users /\ ~UserLocked(req[r].target, r)
  /\ session' = [session EXCEPT ![t] = req[r].target] /\ used' = used \cup {t}
  /\ req' = [req EXCEPT ![r].at = "signed in", ![r].set = t]
  /\ UNCHANGED <<codeVars, users, known, email, bills, owner, keyOf, handle, ceremony, cookie>>

-----------------------------------------------------------------------------
(* Passkeys *)

Begin(r, kind, u) == LET fresh == {n \in Ceremony : ceremony[n].kind = "unborn"} IN
  /\ fresh # {}
  /\ ceremony' = [ceremony EXCEPT ![CHOOSE n \in fresh : TRUE] = [kind |-> kind, user |-> u]]
  /\ Goto(r, "respond")
  /\ UNCHANGED <<codeVars, users, known, email, bills, owner, keyOf, handle, session, used, cookie>>
BeginPasskeyRegistration(r) ==
  /\ At(r, "begin registration") /\ req[r].user \in users /\ ~UserLocked(req[r].user, r)
  /\ Begin(r, "registration", req[r].user)
BeginPasskeyLogin(r) == At(r, "begin login") /\ Begin(r, "login", None)

\* loadAndConsumeCeremony: whatever comes of it, the ceremony is gone.
Consume(n) == ceremony' = [ceremony EXCEPT ![n] = [kind |-> "used", user |-> None]]
Consumed(r, kind, s) == LET n == req[r].ceremony IN
  /\ req' = [req EXCEPT ![r].target = ceremony[n].user,
                        ![r].at = IF ceremony[n].kind = kind THEN s ELSE "respond"]
  /\ Consume(n)
  /\ UNCHANGED <<codeVars, users, known, email, bills, owner, keyOf, handle, session, used, cookie>>
ConsumeRegistration(r) == At(r, "register") /\ Consumed(r, "registration", "store")
ConsumeLogin(r) == At(r, "login") /\ Consumed(r, "login", "assert")

\* A plausible bug: the ceremony of any user will do.
AnyCeremony(r) == TRUE
\* FinishPasskeyRegistration: the library refuses a ceremony of another user.
OwnCeremony(r) == req[r].target = req[r].user
StorePasskey(r) == LET u == req[r].user  free == {k \in Passkey : handle[k] = None} IN
  /\ At(r, "store") /\ free # {}
  /\ OwnCeremony(r) /\ u \in users /\ ~UserLocked(u, r)
  /\ LET k == CHOOSE x \in free : TRUE IN
       /\ handle' = [handle EXCEPT ![k] = req[r].target]
       /\ keyOf' = [keyOf EXCEPT ![k] = u]
  /\ Goto(r, "respond")
  /\ UNCHANGED <<codeVars, users, known, email, bills, owner, session, used, ceremony, cookie>>

\* FinishPasskeyLogin: the user the handle names must exist and have the passkey.
Asserted(r) == req[r].passkey \in KeysOf(handle[req[r].passkey])
AssertOwn(r) ==
  /\ At(r, "assert") /\ Asserted(r) /\ handle[req[r].passkey] = req[r].user
  /\ req' = [req EXCEPT ![r].target = req[r].user, ![r].at = "rotate"]
  /\ UNCHANGED <<codeVars, identity, cookie>>
AssertOther(r) ==
  /\ At(r, "assert") /\ Asserted(r)
  /\ handle[req[r].passkey] \in users \ {req[r].user}
  /\ req' = [req EXCEPT ![r].target = handle[req[r].passkey], ![r].at = "source"]
  /\ UNCHANGED <<codeVars, identity, cookie>>

\* MergeAnonymousInto: only an anonymous source is folded.
SourceIsAnonymous(r) ==
  /\ At(r, "source") /\ req[r].user \in users /\ Anonymous(req[r].user)
  /\ req' = [req EXCEPT ![r].at = "fold bills", ![r].had = Had(req[r].user)]
  /\ UNCHANGED <<codeVars, identity, cookie>>
SourceStays(r) ==
  /\ At(r, "source") /\ ~(req[r].user \in users /\ Anonymous(req[r].user))
  /\ Goto(r, "rotate")
  /\ UNCHANGED <<codeVars, identity, cookie>>

-----------------------------------------------------------------------------
(* Time and the cleanup sweep: an expired row is as good as a deleted one.    *)
(* now() is the start of the transaction, so a code read in time stays good.  *)
SessionExpires ==
  /\ \E t \in used : session[t] # None /\ session' = [session EXCEPT ![t] = None]
  /\ UNCHANGED <<codeVars, users, known, email, bills, owner, keyOf, handle, used, ceremony, cookie, req>>
CeremonyExpires ==
  /\ \E n \in Ceremony : ceremony[n].kind \in {"registration", "login"} /\ Consume(n)
  /\ UNCHANGED <<codeVars, users, known, email, bills, owner, keyOf, handle, session, used, cookie, req>>
CodesAge ==
  /\ \/ \E c \in Code : /\ \A r \in Request : ~(At(r, "compare") /\ req[r].code = c)
                       /\ CodeExpires(c)
     \/ CooldownEnds
  /\ UNCHANGED <<identity, cookie, req>>

Handle(r) ==
  \/ Send(r) \/ Recognise(r) \/ Provision(r) \/ ProvisionBlindly(r)
  \/ Fail(r) \/ Respond(r) \/ ResponseLost(r)
  \/ CreateBill(r) \/ Logout(r) \/ LogoutFails(r)
  \/ TooSoon(r) \/ CheckCooldown(r) \/ Invalidate(r) \/ InsertCode(r)
  \/ ReadCode(r) \/ NoCode(r) \/ TooManyTries(r) \/ WrongCode(r) \/ RightCode(r)
  \/ AddressIsFree(r) \/ AddressIsOwn(r) \/ AddressIsTaken(r)
  \/ ClaimAddress(r) \/ FoldBills(r) \/ FoldKeys(r) \/ DeleteUser(r)
  \/ DropOldSession(r) \/ DropFails(r) \/ IssueSession(r)
  \/ BeginPasskeyRegistration(r) \/ BeginPasskeyLogin(r)
  \/ ConsumeRegistration(r) \/ ConsumeLogin(r) \/ StorePasskey(r)
  \/ AssertOwn(r) \/ AssertOther(r) \/ SourceIsAnonymous(r) \/ SourceStays(r)
Next == (\E r \in Request : Handle(r)) \/ SessionExpires \/ CeremonyExpires \/ CodesAge
Spec == Init /\ [][Next]_vars

-----------------------------------------------------------------------------
(* Properties *)

Entry == [at: Working \cup {"idle", "respond", "signed in", "done"}, job: Jobs,
          browser: Browser \cup {None}, token: Token \cup {None}, user: User \cup {None},
          set: Token \cup {None, Keep}, to: Email \cup {None}, guess: 0..MaxCodes,
          code: 0..MaxCodes, tries: Nat, ceremony: Ceremony \cup {None},
          passkey: Passkey \cup {None}, target: User \cup {None}, bills: SUBSET Bill,
          keys: SUBSET Passkey, faults: SUBSET {"verify", "drop"},
          had: [bills: SUBSET Bill, keys: SUBSET Passkey, upgraded: BOOLEAN]]

\* Every variable has its type, and every foreign key names a user there is: no bill,
\* passkey, session, ceremony or address is ever left with a user a merge has deleted.
TypeOK ==
  /\ codes \in [Code -> Row] /\ issued \in 0..MaxCodes /\ cooling \subseteq Address
  /\ users \subseteq known /\ known \subseteq User
  /\ email \in [User -> Email \cup {None}] /\ \A u \in User : email[u] # None => u \in users
  /\ bills \subseteq Bill /\ owner \in [Bill -> users \cup {None}]
  /\ keyOf \in [Passkey -> users \cup {None}] /\ handle \in [Passkey -> known \cup {None}]
  /\ session \in [Token -> users \cup {None}] /\ used \subseteq Token
  /\ cookie \in [Browser -> used \cup {None}]
  /\ ceremony \in [Ceremony -> [kind: {"unborn", "registration", "login", "used"},
                                user: users \cup {None}]]
  /\ req \in [Request -> Entry]

\* A code cannot be tried more often than OTPMaxAttempts, however many requests guess at
\* the same time (otp.go:82-84, "racing requests can't both pass the attempts check").
GuessesAreBounded == \A c \in Code : codes[c].tries <= MaxAttempts

\* A code signs in one request only: at the moment it is accepted it is still usable, and
\* a code that is not usable never becomes so again (otp.go:82-84, 118).
CodesOpenOnce == [][
  /\ \A c \in 1..issued : codes'[c].live => codes[c].live
  /\ \A r \in Request : (At(r, "compare") /\ req'[r].at = "attach") =>
       codes[req[r].code].live /\ ~codes'[req[r].code].live ]_vars

\* When a new code goes in, every code that was there when its request invalidated is
\* dead; two codes of an address are live only by two overlapping requests (otp.go:49-57).
OlderCodesStayDead == \A r \in Request : At(r, "insert") =>
  \A c \in Live(req[r].to) : c > req[r].code

\* A request about to attach an address, which it found free, may find it taken by now only
\* under another spelling: verifications of one spelling are serialised from the lookup to
\* the commit (merge.go:34, 45), and never fail on the UNIQUE constraint after their code is
\* spent.  Verifications of two spellings of one address are not, and do.
OnlySpellingsCollide == \A r \in Request : At(r, "claim") =>
  \A u \in Holders(req[r].to) : email[u] # req[r].to

\* Deleting a user takes nothing it had when this merge began: its bills and passkeys are
\* still somebody's, and a passkey login deletes only users who had neither address nor
\* passkey (merge.go:60-72, 94-125).  What the user gets while the merge runs is lost.
MergesLoseNothing == [][\A r \in Request :
  (At(r, "delete") /\ req'[r].at = "rotate") => LET had == req[r].had IN
    /\ \A b \in had.bills : owner[b] # None => owner'[b] # None
    /\ \A k \in had.keys : keyOf[k] # None => keyOf'[k] # None
    /\ req[r].job = "login" => ~had.upgraded]_vars

\* A stored passkey names the user it is stored for, or one who is no more: it never opens
\* an account other than the one it was registered on or folded into (webauthn.go:144-243).
PasskeysNameTheirUser == \A k \in Passkey : keyOf[k] # None =>
  handle[k] = keyOf[k] \/ handle[k] \notin users

\* When a request has signed in, the token it was sent with is dead unless deleting it
\* failed, and an account folded by a code is gone with all its sessions (otp.go:134-149,
\* webauthn.go:226-241).
SignInRotates == \A r \in Request : At(r, "signed in") =>
  /\ req[r].token = None \/ session[req[r].token] = None \/ "drop" \in req[r].faults
  /\ (req[r].job = "verify" /\ req[r].user # req[r].target) => req[r].user \notin users

\* A browser with a valid session becomes another user only by signing in or out, by a
\* request sent before it got that session, or because verify failed (middleware.go:23-47).
SignInSticks == [][\A b \in Browser :
  (cookie[b] # None /\ cookie'[b] # cookie[b]) =>
    \/ session[cookie[b]] = None
    \/ \E r \in Request :
         /\ req[r].browser = b /\ req[r].set = cookie'[b] /\ req'[r] = Done
         /\ \/ req[r].token # cookie[b]
            \/ "verify" \in req[r].faults
            \/ req[r].job \in {"verify", "login", "logout"}]_vars
=============================================================================
