------------------------------ MODULE MCSignIn ------------------------------
(* Two small databases to start from.  In both a stranger has a session and a *)
(* bill, and an account has a passkey.  In the first both codes are out, for   *)
(* one or for two spellings of the address, which nobody has, and the         *)
(* stranger has a passkey of its own; in the second one code is out and one   *)
(* is not issued yet, the account has the address, and the stranger has begun *)
(* to register a passkey and to log in with one.                              *)
EXTENDS SignIn, TLC
CONSTANTS lower, upper, stranger, account, token, oldBill, oldPasskey, ownPasskey, enrolling, entering

Started(sent, spelling, address, own, begun) ==
  /\ issued = sent
  /\ codes = [c \in Code |-> [to |-> CASE c > sent -> None [] c = 2 -> spelling [] OTHER -> lower,
                              live |-> c <= sent, tries |-> 0]]
  /\ email = [u \in User |-> IF u = account /\ address THEN lower ELSE None]
  /\ keyOf = [k \in Passkey |-> CASE k = oldPasskey -> account
                                  [] k = ownPasskey /\ own -> stranger
                                  [] OTHER -> None]
  /\ ceremony = [n \in Ceremony |->
       CASE n = enrolling /\ begun -> [kind |-> "registration", user |-> stranger]
         [] n = entering /\ begun -> [kind |-> "login", user |-> None]
         [] OTHER -> [kind |-> "unborn", user |-> None]]
MCInit ==
  /\ session = [t \in Token |-> IF t = token THEN stranger ELSE None]
  /\ cookie = [b \in Browser |-> token]
  /\ bills = {oldBill} /\ owner = [b \in Bill |-> IF b = oldBill THEN stranger ELSE None]
  /\ cooling = {}
  /\ \/ \E spelling \in {lower, upper} : Started(2, spelling, FALSE, TRUE, FALSE)
     \/ Started(1, lower, TRUE, FALSE, TRUE)
  /\ Init
MCSpec == MCInit /\ [][Next]_vars
\* The second spelling is used only where a code was sent to it.
Spelled == (\E r \in Request : req[r].to = upper) => \E c \in Code : codes[c].to = upper
Symmetry == Permutations(Request)
=============================================================================
