------------------------------ MODULE ReceiptScan ------------------------------
(***************************************************************************)
(* A receipt scan: POST /sessions/{id}/extract (handleExtract), from the   *)
(* snapshot of the bill to the saved items.  Each step is one call to      *)
(* Postgres, to Redis (SpendLedger), to the receipt storage or to the LLM  *)
(* provider; scans of the same and of other bills, the user's own edits    *)
(* and midnight come in between, any call may fail and the server may die. *)
(*                                                                         *)
(* RATE_LIMITS_ENABLED is true.  The per-address windows in front of the   *)
(* handler only refuse requests and are left out, as are the texts of the  *)
(* receipt.  A metadata field of a bill is abstracted to who wrote it.     *)
(***************************************************************************)
EXTENDS SpendLedger, FiniteSetsExt

CONSTANTS
  Bill,
  Fields,            \* bound: what users and scans write, of {"restaurant", "total"}
  MaxScans,          \* maxExtractPerSession
  ReceiptCap,        \* LLM_MAX_SPEND_PER_RECEIPT_CENTS
  Part,              \* the parts of a cent the provider prices in
  CallCost,          \* bound: what a call may cost, in these parts
  UsageMayBeMissing, \* TRUE: the provider may answer without the tokens it charges for
  NoBill

ASSUME ScanAssumption ==
  /\ MaxScans \in Nat /\ ReceiptCap \in Nat
  /\ Part \in Nat \ {0} /\ CallCost \subseteq Nat
  /\ UsageMayBeMissing \in BOOLEAN
  /\ Fields \subseteq {"restaurant", "total"}
  /\ NoBill \notin Bill
  /\ Bill \cap {"none", "user"} = {} /\ Scan \cap {"none", "user"} = {}

VARIABLES
  extracts,    \* extract_count of a bill
  meta,        \* who wrote "restaurant" (its name, and the date) and "total" (paid) of a bill
  items,       \* the scan that wrote the items of a bill, or "user"
  pc,          \* where a scan stands
  target,      \* its bill
  unpaid,      \* its snapshot: total_paid_cents was NULL
  day,         \* DateKey of its reservation
  calls,       \* calls it made to the provider
  spent,       \* what the provider charged for them, in parts of a cent
  accounted,   \* accountedCents of buildAttemptTelemetry
  result,      \* status it is going to write
  row,         \* status of its extraction_runs row
  reconciled   \* spend_reconciled of that row

billVars == <<extracts, meta, items>>
costVars == <<calls, spent, accounted>>
rowVars == <<row, reconciled>>
scanVars == <<target, unpaid, day, result>>
vars == <<ledgerVars, billVars, costVars, rowVars, scanVars, pc>>

Writers == {"none", "user"} \cup Scan
Outcome == {"success", "error", "rejected"}
ScanPc == {"idle", "admit", "begin", "open", "reserve", "call", "finalize", "complete",
           "completeUnreconciled", "close", "save", "patch", "done"}

TypeOK ==
  /\ LedgerTypeOK
  /\ extracts \in [Bill -> 0 .. MaxScans]
  /\ meta \in [Bill -> [Fields -> Writers]]
  /\ items \in [Bill -> Writers]
  /\ pc \in [Scan -> ScanPc]
  /\ target \in [Scan -> Bill \cup {NoBill}]
  /\ unpaid \in [Scan -> BOOLEAN]
  /\ day \in [Scan -> Day]
  /\ calls \in [Scan -> 0 .. MaxCalls]
  /\ spent \in [Scan -> Nat]
  /\ accounted \in [Scan -> Nat]
  /\ result \in [Scan -> Outcome]
  /\ row \in [Scan -> {"none", "running"} \cup Outcome]
  /\ reconciled \in [Scan -> BOOLEAN]
  /\ \A s \in Scan : pc[s] # "idle" => target[s] \in Bill

(* Bills that have a receipt and nothing else yet. *)
Init ==
  /\ LedgerInit
  /\ extracts = [b \in Bill |-> 0]
  /\ meta = [b \in Bill |-> [f \in Fields |-> "none"]]
  /\ items = [b \in Bill |-> "user"]
  /\ pc = [s \in Scan |-> "idle"]
  /\ target = [s \in Scan |-> NoBill]
  /\ unpaid = [s \in Scan |-> FALSE]
  /\ day = [s \in Scan |-> 1]
  /\ calls = [s \in Scan |-> 0]
  /\ spent = [s \in Scan |-> 0]
  /\ accounted = [s \in Scan |-> 0]
  /\ result = [s \in Scan |-> "error"]
  /\ row = [s \in Scan |-> "none"]
  /\ reconciled = [s \in Scan |-> FALSE]

Goto(s, l) == pc' = [pc EXCEPT ![s] = l]

-----------------------------------------------------------------------------
(* Admission.                                                                *)

Start(s, b) ==
  /\ pc[s] = "idle"
  /\ target' = [target EXCEPT ![s] = b]
  /\ unpaid' = [unpaid EXCEPT ![s] = "total" \in Fields => meta[b]["total"] = "none"]
  /\ Goto(s, "admit")
  /\ UNCHANGED <<ledgerVars, billVars, costVars, rowVars, day, result>>

CountedTooOften(b) == extracts[b] <= MaxScans   \* mutant: off by one

(* The WHERE clause of IncrementExtractCount. *)
UnderCap(b) == extracts[b] < MaxScans

CountScan(s) ==
  /\ pc[s] = "admit"
  /\ UnderCap(target[s])
  /\ extracts' = [extracts EXCEPT ![target[s]] = @ + 1]
  /\ Goto(s, IF MaxCalls > ReceiptCap \div CallReserve THEN "done" ELSE "begin")
  /\ UNCHANGED <<ledgerVars, meta, items, costVars, rowVars, scanVars>>

(* The bill has had its scans, or the database fails. *)
RefuseScan(s) ==
  /\ pc[s] = "admit"
  /\ Goto(s, "done")
  /\ UNCHANGED <<ledgerVars, billVars, costVars, rowVars, scanVars>>

BeginRun(s) ==
  /\ pc[s] = "begin"
  /\ row' = [row EXCEPT ![s] = "running"]
  /\ Goto(s, "open")
  /\ UNCHANGED <<ledgerVars, billVars, costVars, scanVars, reconciled>>

BeginRunFails(s) ==
  /\ pc[s] = "begin"
  /\ Goto(s, "done")
  /\ UNCHANGED <<ledgerVars, billVars, costVars, rowVars, scanVars>>

OpenReceipt(s) ==
  /\ pc[s] = "open"
  /\ Goto(s, "reserve")
  /\ UNCHANGED <<ledgerVars, billVars, costVars, rowVars, scanVars>>

(* The scan goes on to completeEmptyExtractionRun with status r. *)
CloseWith(s, r) ==
  /\ result' = [result EXCEPT ![s] = r]
  /\ Goto(s, "close")
  /\ UNCHANGED <<billVars, costVars, rowVars, target, unpaid>>

OpenFails(s) ==
  /\ pc[s] = "open"
  /\ CloseWith(s, "error")
  /\ UNCHANGED <<ledgerVars, day>>

ReserveSpend(s) ==
  /\ pc[s] = "reserve"
  /\ Reserve(s)
  /\ day' = [day EXCEPT ![s] = today]
  /\ Goto(s, "call")
  /\ UNCHANGED <<billVars, costVars, rowVars, target, unpaid, result>>

ReserveRejected(s) ==
  /\ pc[s] = "reserve"
  /\ today \in Day /\ ~Fits(today)
  /\ CloseWith(s, "rejected")
  /\ UNCHANGED <<ledgerVars, day>>

(* Redis cannot be reached, or its answer is lost and the reservation stays   *)
(* (day then is what nobody knows: which day it counts for).                  *)
ReserveFails(s) ==
  /\ pc[s] = "reserve"
  /\ CloseWith(s, "error")
  /\ \/ UNCHANGED <<ledgerVars, day>>
     \/ Reserve(s) /\ day' = [day EXCEPT ![s] = today]

-----------------------------------------------------------------------------
(* The provider, and the accounts.                                           *)

(* What an answer of the provider says about its price: the tokens are        *)
(* reported, or the call failed without them, or it succeeded without them.   *)
Answer == {"metered", "failed"} \cup (IF UsageMayBeMissing THEN {"unmetered"} ELSE {})

RoundedDown(cost) == cost \div Part   \* mutant: the cents are truncated

(* EstimateCostCents: math.Round, to the nearest cent, halves up.  A call     *)
(* below half a cent is accounted as free.                                    *)
EstimateCostCents(cost) == (2 * cost + Part) \div (2 * Part)

(* CostCents is nil only for a failed call without usage, and a nil cost is   *)
(* accounted at the reservation of a call.                                    *)
Accounted(cost, answer) ==
  CASE answer = "metered" -> EstimateCostCents(cost)
    [] answer = "failed" -> CallReserve
    [] answer = "unmetered" -> 0

(* A call whose price stays unknown is taken to cost its reservation at most. *)
Charge(s, cost, answer) ==
  /\ answer # "metered" => cost <= CallReserve * Part
  /\ calls' = [calls EXCEPT ![s] = @ + 1]
  /\ spent' = [spent EXCEPT ![s] = @ + cost]
  /\ accounted' = [accounted EXCEPT ![s] = @ + Accounted(cost, answer)]

(* Another turn after a good answer: the calculator tool, the feedback retry. *)
CallAgain(s, cost, answer) ==
  /\ pc[s] = "call"
  /\ calls[s] + 1 < MaxCalls
  /\ answer # "failed"
  /\ Charge(s, cost, answer)
  /\ UNCHANGED <<ledgerVars, billVars, rowVars, scanVars, pc>>

(* The last call of Extractor.Run.  A run that fails reports its calls too,   *)
(* and a failed feedback retry still is a success.                            *)
CallLast(s, cost, answer, r) ==
  /\ pc[s] = "call"
  /\ Charge(s, cost, answer)
  /\ result' = [result EXCEPT ![s] = r]
  /\ Goto(s, "finalize")
  /\ UNCHANGED <<ledgerVars, billVars, rowVars, target, unpaid, day>>

(* Mutant: the row says reconciled whatever Redis answered. *)
FinalizeUnchecked(s) ==
  /\ pc[s] = "finalize"
  /\ Goto(s, "complete")
  /\ UNCHANGED <<ledgerVars, billVars, costVars, rowVars, scanVars>>

(* FinalizeLLMSpend answers; an expired reservation is left alone. *)
FinalizeSpend(s) ==
  /\ pc[s] = "finalize"
  /\ \/ Finalize(s, day[s], accounted[s])
     \/ resv[s] = 0 /\ UNCHANGED ledgerVars
  /\ Goto(s, "complete")
  /\ UNCHANGED <<billVars, costVars, rowVars, scanVars>>

(* Its error is only logged, also when the script ran and its answer is lost. *)
FinalizeFails(s) ==
  /\ pc[s] = "finalize"
  /\ \/ UNCHANGED ledgerVars
     \/ Finalize(s, day[s], accounted[s])
  /\ Goto(s, "completeUnreconciled")
  /\ UNCHANGED <<billVars, costVars, rowVars, scanVars>>

-----------------------------------------------------------------------------
(* The record of the run, and what it changes on the bill.                   *)

(* Mutant: the items are saved whatever the run said. *)
CompleteAndSave(s) ==
  /\ pc[s] \in {"complete", "completeUnreconciled"}
  /\ row' = [row EXCEPT ![s] = result[s]]
  /\ reconciled' = [reconciled EXCEPT ![s] = pc[s] = "complete"]
  /\ Goto(s, "save")
  /\ UNCHANGED <<ledgerVars, billVars, costVars, scanVars>>

(* CompleteExtractionRun with the attempts: only a success goes on. *)
Complete(s) ==
  /\ pc[s] \in {"complete", "completeUnreconciled"}
  /\ row' = [row EXCEPT ![s] = result[s]]
  /\ reconciled' = [reconciled EXCEPT ![s] = pc[s] = "complete"]
  /\ Goto(s, IF result[s] = "success" THEN "save" ELSE "done")
  /\ UNCHANGED <<ledgerVars, billVars, costVars, scanVars>>

(* completeEmptyExtractionRun: nothing was spent, so nothing is left to reconcile. *)
Close(s) ==
  /\ pc[s] = "close"
  /\ row' = [row EXCEPT ![s] = result[s]]
  /\ reconciled' = [reconciled EXCEPT ![s] = TRUE]
  /\ Goto(s, "done")
  /\ UNCHANGED <<ledgerVars, billVars, costVars, scanVars>>

(* ReplaceDishes: the items of the bill are those of this scan. *)
SaveItems(s) ==
  /\ pc[s] = "save"
  /\ items' = [items EXCEPT ![target[s]] = s]
  /\ Goto(s, "patch")
  /\ UNCHANGED <<ledgerVars, extracts, meta, costVars, rowVars, scanVars>>

(* UpdateSession: the name and the date whenever the receipt shows them, the  *)
(* total only if there was none when the scan started.                        *)
PatchBill(s, shown) ==
  /\ pc[s] = "patch"
  /\ LET set == IF unpaid[s] THEN shown ELSE shown \ {"total"}
     IN  meta' = [meta EXCEPT ![target[s]] = [f \in Fields |-> IF f \in set THEN s ELSE @[f]]]
  /\ Goto(s, "done")
  /\ UNCHANGED <<ledgerVars, extracts, items, costVars, rowVars, scanVars>>

(* A call to Postgres fails, the client is gone or the server dies. *)
Abort(s) ==
  /\ pc[s] \notin {"idle", "done"}
  /\ Goto(s, "done")
  /\ UNCHANGED <<ledgerVars, billVars, costVars, rowVars, scanVars>>

-----------------------------------------------------------------------------
(* The user's own edits of a bill, and the clock.                            *)

EditBill(b, entered) ==
  /\ meta' = [meta EXCEPT ![b] = [f \in Fields |-> IF f \in entered THEN "user" ELSE @[f]]]
  /\ UNCHANGED <<ledgerVars, extracts, items, costVars, rowVars, scanVars, pc>>

EditItems(b) ==
  /\ items' = [items EXCEPT ![b] = "user"]
  /\ UNCHANGED <<ledgerVars, extracts, meta, costVars, rowVars, scanVars, pc>>

Clock ==
  /\ \/ Midnight
     \/ \E d \in Day : TotalExpires(d)
     \/ \E s \in Scan : ReservationExpires(s, day[s])
  /\ UNCHANGED <<billVars, costVars, rowVars, scanVars, pc>>

ScanStep(s) ==
  \/ \E b \in Bill : Start(s, b)
  \/ CountScan(s) \/ RefuseScan(s)
  \/ BeginRun(s) \/ BeginRunFails(s)
  \/ OpenReceipt(s) \/ OpenFails(s)
  \/ ReserveSpend(s) \/ ReserveRejected(s) \/ ReserveFails(s)
  \/ \E cost \in CallCost, answer \in Answer :
       \/ CallAgain(s, cost, answer)
       \/ \E r \in {"success", "error"} : CallLast(s, cost, answer, r)
  \/ FinalizeSpend(s) \/ FinalizeFails(s)
  \/ Complete(s) \/ Close(s)
  \/ SaveItems(s)
  \/ \E shown \in SUBSET Fields : PatchBill(s, shown)
  \/ Abort(s)

Next ==
  \/ \E s \in Scan : ScanStep(s)
  \/ \E b \in Bill, entered \in SUBSET Fields : EditBill(b, entered)
  \/ \E b \in Bill : EditItems(b)
  \/ Clock

Spec == Init /\ [][Next]_vars

-----------------------------------------------------------------------------
(* Properties.                                                               *)

(* Scans that reserved on day d. *)
ScansOf(d) == {s \in Scan : day[s] = d /\ (resv[s] # 0 \/ calls[s] # 0)}

(* What a scan cost beyond its own reservation. *)
Overrun(s) == IF spent[s] > Part * Amount THEN spent[s] - Part * Amount ELSE 0

(* Twice what scan s alone may add to the bill of its day: its overrun, and   *)
(* half a cent for each of its calls, which the rounding may have dropped.    *)
Excess(s) == 2 * Overrun(s) + Part * calls[s]

(***************************************************************************)
(* What the provider charges for the scans of one day exceeds the daily    *)
(* cap at most by what single scans cost beyond their own reservation and  *)
(* by half a cent per call, which EstimateCostCents may round off:         *)
(* concurrent scans, failed calls, lost answers, aborted scans and         *)
(* midnight never let a scan in that the cap has no room for.  (Both sides *)
(* are doubled, to count in whole parts.)                                  *)
(***************************************************************************)
BilledWithinCap ==
  \A d \in Day :
    2 * MapThenSumSet(LAMBDA s : spent[s], ScansOf(d))
      <= 2 * Part * Cap + MapThenSumSet(Excess, ScansOf(d))

(***************************************************************************)
(* The running total of today is exactly what is still reserved plus what  *)
(* settled scans were accounted at: no reservation is counted twice,       *)
(* dropped, or returned twice.                                             *)
(***************************************************************************)
LedgerIsExact ==
  today \in Day =>
    total[today] = MapThenSumSet(LAMBDA s : IF resv[s] # 0 THEN resv[s] ELSE accounted[s],
                                 ScansOf(today))

(***************************************************************************)
(* A bill has at most maxExtractPerSession runs, however many requests     *)
(* race for the last one (IncrementExtractCount).                          *)
(***************************************************************************)
ScansWithinLimit ==
  \A b \in Bill : Cardinality({s \in Scan : target[s] = b /\ row[s] # "none"}) <= MaxScans

(***************************************************************************)
(* A run that called the provider and whose row says spend_reconciled has  *)
(* nothing left in the ledger but its cost: whichever of the answers of    *)
(* Redis was lost, no reservation of it is outstanding.                    *)
(***************************************************************************)
ReconciledIsSettled == \A s \in Scan : reconciled[s] /\ calls[s] # 0 => resv[s] = 0

(***************************************************************************)
(* A scan costs at most half a cent per call more than it is accounted at: *)
(* no call is dropped, truncated (EstimateCostCents rounds, as "floor-ing  *)
(* every call systematically underreports spend") or taken to be free      *)
(* because its cost is unknown ("Unknown-cost calls should be accounted at *)
(* the configured per-call reservation amount rather than zero",           *)
(* FinalizeLLMSpend).                                                      *)
(***************************************************************************)
SpendIsAccounted ==
  \A s \in Scan : 2 * spent[s] <= Part * (2 * accounted[s] + calls[s])

(***************************************************************************)
(* The items of a bill come from a scan only when the row of that scan     *)
(* records its success: the telemetry is written first.                    *)
(***************************************************************************)
SavedItemsAreRecorded ==
  \A b \in Bill : items[b] \in Scan => row[items[b]] = "success"

(***************************************************************************)
(* What the user entered stays: a scan never replaces it ("never clobber a *)
(* value the user already entered", handleExtract).                        *)
(***************************************************************************)
UserEntriesAreKept ==
  [][\A b \in Bill, f \in Fields : meta[b][f] = "user" => meta'[b][f] = "user"]_vars
=============================================================================
