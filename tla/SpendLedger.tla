------------------------------ MODULE SpendLedger ------------------------------
(***************************************************************************)
(* The daily LLM spend ledger in Redis (internal/ratelimit).  A day has a  *)
(* running total under a key that expires, each accepted reservation has a *)
(* key of its own that expires too.  reserveLua and finalizeLua run as one *)
(* step each, and the handler that calls them (ReceiptScan) finalizes      *)
(* against the day of its reservation, even after midnight.                *)
(***************************************************************************)
EXTENDS Integers

CONSTANTS
  Scan,         \* callers; each makes at most one reservation, so it names it
  LastDay,      \* bound: days are 1 .. LastDay, then nothing is reserved any more
  Cap,          \* LLM_DAILY_SPEND_CAP_CENTS
  CallReserve,  \* ReservationCentsPerCall
  MaxCalls      \* calls one scan may make

ASSUME LedgerAssumption ==
  /\ LastDay \in Nat \ {0}
  /\ Cap \in Nat \ {0}
  /\ CallReserve \in Nat \ {0}
  /\ MaxCalls \in Nat \ {0}

VARIABLES
  today,  \* the UTC date
  keys,   \* days whose total has a key
  total,  \* the total of each day; 0 without a key
  resv    \* amount under the reservation key of a scan; 0 without a key

ledgerVars == <<today, keys, total, resv>>

Day == 1 .. LastDay
Amount == CallReserve * MaxCalls   \* what a scan reserves

LedgerTypeOK ==
  /\ today \in 1 .. (LastDay + 1)
  /\ keys \in SUBSET Day
  /\ total \in [Day -> Int]
  /\ resv \in [Scan -> {0, Amount}]

LedgerInit ==
  /\ today = 1
  /\ keys = {}
  /\ total = [d \in Day |-> 0]
  /\ resv = [s \in Scan |-> 0]

-----------------------------------------------------------------------------
FitsNow(d) == total[d] <= Cap   \* mutant: the amount itself is not counted

Fits(d) == total[d] + Amount <= Cap

(* reserveLua, accepted. *)
Reserve(s) ==
  /\ today \in Day
  /\ Fits(today)
  /\ keys' = keys \cup {today}
  /\ total' = [total EXCEPT ![today] = @ + Amount]
  /\ resv' = [resv EXCEPT ![s] = Amount]
  /\ UNCHANGED today

(* Mutant: the accounted cost is added on top of the reservation. *)
FinalizeAdds(s, d, accounted) ==
  /\ resv[s] # 0
  /\ total' = [total EXCEPT ![d] = @ + accounted]
  /\ keys' = keys \cup {d}
  /\ resv' = [resv EXCEPT ![s] = 0]
  /\ UNCHANGED today

(* finalizeLua: the reservation is replaced by the accounted cost, or the     *)
(* total starts again from it when its key has expired.                       *)
Finalize(s, d, accounted) ==
  /\ resv[s] # 0
  /\ total' = [total EXCEPT ![d] = IF d \in keys THEN @ + accounted - resv[s] ELSE accounted]
  /\ keys' = keys \cup {d}
  /\ resv' = [resv EXCEPT ![s] = 0]
  /\ UNCHANGED today

Midnight ==
  /\ today \in Day
  /\ today' = today + 1
  /\ UNCHANGED <<keys, total, resv>>

(* Both keys live for 25 hours: they outlast the day they were made on. *)
TotalExpires(d) ==
  /\ d \in keys /\ d < today
  /\ keys' = keys \ {d}
  /\ total' = [total EXCEPT ![d] = 0]
  /\ UNCHANGED <<today, resv>>

ReservationExpires(s, d) ==
  /\ resv[s] # 0 /\ d < today
  /\ resv' = [resv EXCEPT ![s] = 0]
  /\ UNCHANGED <<today, keys, total>>
=============================================================================
