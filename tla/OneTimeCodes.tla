---------------------------- MODULE OneTimeCodes ----------------------------
(* The codes that prove an address: the rows of otp_codes and what the        *)
(* statements of RequestOTP and VerifyOTP (auth/otp.go) do to them.  A row is *)
(* known by its place in the order of created_at.  A code is right for one    *)
(* row only; a wrong guess of a row counts as an attempt on it.               *)
(*                                                                            *)
(* The handlers pass an address on as it was spelled; the CITEXT columns      *)
(* compare two spellings that differ in case only as equal.                   *)
EXTENDS Naturals
CONSTANTS
  Address,          \* addresses, each the set of its spellings
  MaxAttempts,      \* cfg.OTPMaxAttempts
  MaxCodes,         \* bound: codes a run can issue
  None              \* absent value (SQL NULL, no cookie, no row)
ASSUME CodesAssumption ==
  /\ MaxAttempts \in Nat
  /\ MaxCodes \in Nat
  /\ \A a, b \in Address : a \cap b # {} => a = b
  /\ None \notin UNION Address
VARIABLES
  codes,            \* [Code -> row]: address, whether still usable, attempts
  issued,           \* rows inserted so far
  cooling           \* addresses whose newest code is younger than the cooldown
codeVars == <<codes, issued, cooling>>

Email == UNION Address   \* an address as it is spelled
\* email = $1, for CITEXT
Same(e, f) == \E a \in Address : {e, f} \subseteq a

Code == 1..MaxCodes
Row == [to: Email \cup {None}, live: BOOLEAN, tries: Nat]

\* Whatever rows earlier requests left.
CodesInit ==
  /\ issued \in 0..MaxCodes
  /\ codes \in [Code -> [to: Email \cup {None}, live: BOOLEAN, tries: 0..MaxAttempts]]
  /\ \A c \in Code : IF c <= issued THEN codes[c].to # None
                     ELSE codes[c] = [to |-> None, live |-> FALSE, tries |-> 0]
  /\ cooling \in SUBSET Address

\* consumed_at IS NULL AND expires_at > now()
Live(e) == {c \in Code : codes[c].live /\ Same(codes[c].to, e)}
Newest(e) == {c \in Live(e) : \A d \in Live(e) : d <= c}

Cooling(e) == \E a \in cooling : e \in a

\* INSERT INTO otp_codes
Issue(e) ==
  /\ issued < MaxCodes
  /\ issued' = issued + 1
  /\ codes' = [codes EXCEPT ![issued + 1] = [to |-> e, live |-> TRUE, tries |-> 0]]
  /\ cooling' = cooling \cup {a \in Address : e \in a}

\* UPDATE otp_codes SET consumed_at = now() on a set of rows
Kill(dead) ==
  /\ codes' = [c \in Code |-> [codes[c] EXCEPT !.live = codes[c].live /\ c \notin dead]]
  /\ UNCHANGED <<issued, cooling>>
\* A plausible bug: only the newest code is invalidated.
InvalidateNewest(e) == Kill(Newest(e))
InvalidateAll(e) == Kill(Live(e))

\* UPDATE otp_codes SET attempts = attempts + 1
Miss(c) ==
  /\ codes' = [codes EXCEPT ![c].tries = @ + 1]
  /\ UNCHANGED <<issued, cooling>>

\* A plausible bug: one attempt too many.
ExhaustedLate(tries) == tries > MaxAttempts
Exhausted(tries) == tries >= MaxAttempts

\* Time: a code expires, an address may be asked for again.
CodeExpires(c) == codes[c].live /\ Kill({c})
CooldownEnds ==
  /\ \E a \in cooling : cooling' = cooling \ {a}
  /\ UNCHANGED <<codes, issued>>
=============================================================================
