--------------------------- MODULE ReceiptScanProofs ---------------------------
(***************************************************************************)
(* Proofs about ReceiptScan, for any number of scans, bills and days: the  *)
(* type invariant, the limit of scans of a bill, what a row of             *)
(* extraction_runs tells about the ledger and about the items of a bill,   *)
(* that the ledger is exact and bounds what the provider charges, and when *)
(* the total a user entered survives a scan.                               *)
(*                                                                         *)
(* The inductive invariant says where a scan stands: what its row and its  *)
(* reservation look like at every step of the handler.                     *)
(***************************************************************************)
EXTENDS ReceiptScan, SumTheorems, TLAPS

(* The steps between BeginExtractionRun and CompleteExtractionRun. *)
Running == {"open", "reserve", "call", "finalize", "complete", "completeUnreconciled", "close"}

(* The row of a scan follows the handler: written once, and closed once. *)
RowStage(s) ==
  /\ pc[s] \in {"idle", "admit", "begin"} => row[s] = "none"
  /\ pc[s] \in Running => row[s] = "running"
  /\ pc[s] \in {"save", "patch"} => row[s] = "success"

(* Only a reserved scan calls the provider, and its row is closed last. *)
CallStage(s) ==
  /\ pc[s] \in {"idle", "admit", "begin", "open", "reserve", "close"} => calls[s] = 0
  /\ pc[s] = "call" => calls[s] < MaxCalls
  /\ pc[s] = "complete" => resv[s] = 0
  /\ reconciled[s] => pc[s] \in {"save", "patch", "done"}
  /\ reconciled[s] /\ calls[s] # 0 => resv[s] = 0

(* A scan that wrote items has its success on record, and is past saving. *)
Saved(b) ==
  items[b] \in Scan => pc[items[b]] \in {"patch", "done"} /\ row[items[b]] = "success"

Stages ==
  /\ \A s \in Scan : RowStage(s) /\ CallStage(s)
  /\ \A b \in Bill : Saved(b)

IInv == TypeOK /\ Stages

LEMMA AmountType == Amount \in Nat
BY LedgerAssumption DEF LedgerAssumption, Amount

(* The rounding of EstimateCostCents loses half a cent at most. *)
LEMMA RoundingError ==
  ASSUME NEW cost \in CallCost
  PROVE  /\ EstimateCostCents(cost) \in Nat
         /\ 2 * cost <= 2 * (Part * EstimateCostCents(cost)) + Part
<1>t. cost \in Nat /\ Part \in Nat \ {0}
  BY ScanAssumption DEF ScanAssumption
<1>1. \A m \in Nat, k \in Nat \ {0} : (m \div k) \in Nat /\ m < k * (m \div k) + k
  OBVIOUS
<1>2. PICK m \in Nat, k \in Nat \ {0} : m = 2 * cost + Part /\ k = 2 * Part
  BY <1>t
<1>3. PICK q \in Nat : q = EstimateCostCents(cost) /\ m < k * q + k
  BY <1>1, <1>2 DEF EstimateCostCents
<1>4. k * q = 2 * (Part * q)
  BY <1>t, <1>2
<1>5. Part * q \in Nat
  BY <1>t
<1> QED BY <1>t, <1>2, <1>3, <1>4, <1>5

LEMMA AccountedType ==
  ASSUME NEW cost \in CallCost, NEW answer \in Answer
  PROVE  Accounted(cost, answer) \in Nat
BY RoundingError, LedgerAssumption DEF Accounted, Answer, LedgerAssumption

LEMMA InitIInv == Init => IInv
<1> SUFFICES ASSUME Init PROVE IInv
  OBVIOUS
<1> USE LedgerAssumption, ScanAssumption
    DEF LedgerAssumption, ScanAssumption, Init, LedgerInit
<1>1. TypeOK
  BY AmountType DEF TypeOK, LedgerTypeOK, Day, Writers, Outcome, ScanPc
<1>2. Stages
  BY DEF Stages, RowStage, CallStage, Saved, Running, Day
<1> QED BY <1>1, <1>2 DEF IInv

(* The steps before the reservation. *)
LEMMA AdmissionStep ==
  ASSUME IInv, NEW s \in Scan,
         \/ \E b \in Bill : Start(s, b)
         \/ CountScan(s)
         \/ RefuseScan(s)
         \/ BeginRun(s)
         \/ BeginRunFails(s)
         \/ OpenReceipt(s)
         \/ OpenFails(s)
  PROVE  IInv'
<1> USE LedgerAssumption, ScanAssumption
    DEF LedgerAssumption, ScanAssumption, Goto, Running, ScanPc,
        ledgerVars, billVars, costVars, rowVars, scanVars
<1>t. TypeOK /\ Stages
  BY DEF IInv
<1>1. CASE \E b \in Bill : Start(s, b)
  <2>1. TypeOK'
    BY <1>1, <1>t, AmountType DEF Start, TypeOK, LedgerTypeOK
  <2>2. Stages'
    BY <1>1, <1>t DEF Start, TypeOK, LedgerTypeOK, Stages, RowStage, CallStage, Saved
  <2> QED BY <2>1, <2>2 DEF IInv
<1>2. CASE CountScan(s)
  <2>1. TypeOK'
    BY <1>2, <1>t, AmountType DEF CountScan, UnderCap, TypeOK, LedgerTypeOK
  <2>2. Stages'
    BY <1>2, <1>t DEF CountScan, UnderCap, TypeOK, LedgerTypeOK, Stages, RowStage, CallStage, Saved
  <2> QED BY <2>1, <2>2 DEF IInv
<1>3. CASE RefuseScan(s)
  <2>1. TypeOK'
    BY <1>3, <1>t, AmountType DEF RefuseScan, TypeOK, LedgerTypeOK
  <2>2. Stages'
    BY <1>3, <1>t DEF RefuseScan, TypeOK, LedgerTypeOK, Stages, RowStage, CallStage, Saved
  <2> QED BY <2>1, <2>2 DEF IInv
<1>4. CASE BeginRun(s)
  <2>1. TypeOK'
    BY <1>4, <1>t, AmountType DEF BeginRun, TypeOK, LedgerTypeOK
  <2>2. Stages'
    BY <1>4, <1>t DEF BeginRun, TypeOK, LedgerTypeOK, Stages, RowStage, CallStage, Saved
  <2> QED BY <2>1, <2>2 DEF IInv
<1>5. CASE BeginRunFails(s)
  <2>1. TypeOK'
    BY <1>5, <1>t, AmountType DEF BeginRunFails, TypeOK, LedgerTypeOK
  <2>2. Stages'
    BY <1>5, <1>t DEF BeginRunFails, TypeOK, LedgerTypeOK, Stages, RowStage, CallStage, Saved
  <2> QED BY <2>1, <2>2 DEF IInv
<1>6. CASE OpenReceipt(s)
  <2>1. TypeOK'
    BY <1>6, <1>t, AmountType DEF OpenReceipt, TypeOK, LedgerTypeOK
  <2>2. Stages'
    BY <1>6, <1>t DEF OpenReceipt, TypeOK, LedgerTypeOK, Stages, RowStage, CallStage, Saved
  <2> QED BY <2>1, <2>2 DEF IInv
<1>7. CASE OpenFails(s)
  <2>1. TypeOK'
    BY <1>7, <1>t, AmountType DEF OpenFails, CloseWith, Outcome, TypeOK, LedgerTypeOK
  <2>2. Stages'
    BY <1>7, <1>t DEF OpenFails, CloseWith, Outcome, TypeOK, LedgerTypeOK, Stages, RowStage, CallStage, Saved
  <2> QED BY <2>1, <2>2 DEF IInv
<1> QED BY <1>1, <1>2, <1>3, <1>4, <1>5, <1>6, <1>7

(* The reservation. *)
LEMMA ReservationStep ==
  ASSUME IInv, NEW s \in Scan,
         \/ ReserveSpend(s)
         \/ ReserveRejected(s)
         \/ ReserveFails(s)
  PROVE  IInv'
<1> USE LedgerAssumption, ScanAssumption
    DEF LedgerAssumption, ScanAssumption, Goto, Running, ScanPc,
        ledgerVars, billVars, costVars, rowVars, scanVars
<1>t. TypeOK /\ Stages
  BY DEF IInv
<1>1. CASE ReserveSpend(s)
  <2>1. TypeOK'
    BY <1>1, <1>t, AmountType DEF ReserveSpend, Reserve, TypeOK, LedgerTypeOK
  <2>2. Stages'
    BY <1>1, <1>t DEF ReserveSpend, Reserve, TypeOK, LedgerTypeOK, Stages, RowStage, CallStage, Saved
  <2> QED BY <2>1, <2>2 DEF IInv
<1>2. CASE ReserveRejected(s)
  <2>1. TypeOK'
    BY <1>2, <1>t, AmountType DEF ReserveRejected, CloseWith, Outcome, TypeOK, LedgerTypeOK
  <2>2. Stages'
    BY <1>2, <1>t DEF ReserveRejected, CloseWith, Outcome, TypeOK, LedgerTypeOK, Stages, RowStage, CallStage, Saved
  <2> QED BY <2>1, <2>2 DEF IInv
<1>3. CASE ReserveFails(s)
  <2>1. TypeOK'
    BY <1>3, <1>t, AmountType DEF ReserveFails, Reserve, CloseWith, Outcome, TypeOK, LedgerTypeOK
  <2>2. Stages'
    BY <1>3, <1>t DEF ReserveFails, Reserve, CloseWith, Outcome, TypeOK, LedgerTypeOK, Stages, RowStage, CallStage, Saved
  <2> QED BY <2>1, <2>2 DEF IInv
<1> QED BY <1>1, <1>2, <1>3

(* The calls to the provider and the reconciliation. *)
LEMMA ProviderStep ==
  ASSUME IInv, NEW s \in Scan,
         \/ \E cost \in CallCost, answer \in Answer : CallAgain(s, cost, answer)
         \/ \E cost \in CallCost, answer \in Answer, r \in {"success", "error"} : CallLast(s, cost, answer, r)
         \/ FinalizeSpend(s)
         \/ FinalizeFails(s)
  PROVE  IInv'
<1> USE LedgerAssumption, ScanAssumption
    DEF LedgerAssumption, ScanAssumption, Goto, Running, ScanPc,
        ledgerVars, billVars, costVars, rowVars, scanVars
<1>t. TypeOK /\ Stages
  BY DEF IInv
<1>1. CASE \E cost \in CallCost, answer \in Answer : CallAgain(s, cost, answer)
  <2>1. TypeOK'
    BY <1>1, <1>t, AmountType, AccountedType DEF CallAgain, Charge, TypeOK, LedgerTypeOK, Stages, CallStage
  <2>2. Stages'
    BY <1>1, <1>t DEF CallAgain, Charge, TypeOK, LedgerTypeOK, Stages, RowStage, CallStage, Saved
  <2> QED BY <2>1, <2>2 DEF IInv
<1>2. CASE \E cost \in CallCost, answer \in Answer, r \in {"success", "error"} : CallLast(s, cost, answer, r)
  <2>1. TypeOK'
    BY <1>2, <1>t, AmountType, AccountedType DEF CallLast, Charge, Outcome, TypeOK, LedgerTypeOK, Stages, CallStage
  <2>2. Stages'
    BY <1>2, <1>t DEF CallLast, Charge, Accounted, Answer, Outcome, TypeOK, LedgerTypeOK, Stages, RowStage, CallStage, Saved
  <2> QED BY <2>1, <2>2 DEF IInv
<1>3. CASE FinalizeSpend(s)
  <2>1. TypeOK'
    BY <1>3, <1>t, AmountType DEF FinalizeSpend, Finalize, TypeOK, LedgerTypeOK
  <2>2. Stages'
    BY <1>3, <1>t DEF FinalizeSpend, Finalize, TypeOK, LedgerTypeOK, Stages, RowStage, CallStage, Saved
  <2> QED BY <2>1, <2>2 DEF IInv
<1>4. CASE FinalizeFails(s)
  <2>1. TypeOK'
    BY <1>4, <1>t, AmountType DEF FinalizeFails, Finalize, TypeOK, LedgerTypeOK
  <2>2. Stages'
    BY <1>4, <1>t DEF FinalizeFails, Finalize, TypeOK, LedgerTypeOK, Stages, RowStage, CallStage, Saved
  <2> QED BY <2>1, <2>2 DEF IInv
<1> QED BY <1>1, <1>2, <1>3, <1>4

(* The record of the run, and what it changes on the bill. *)
LEMMA RecordStep ==
  ASSUME IInv, NEW s \in Scan,
         \/ Complete(s)
         \/ Close(s)
         \/ SaveItems(s)
         \/ \E shown \in SUBSET Fields : PatchBill(s, shown)
         \/ Abort(s)
  PROVE  IInv'
<1> USE LedgerAssumption, ScanAssumption
    DEF LedgerAssumption, ScanAssumption, Goto, Running, ScanPc,
        ledgerVars, billVars, costVars, rowVars, scanVars
<1>t. TypeOK /\ Stages
  BY DEF IInv
<1>1. CASE Complete(s)
  <2>1. TypeOK'
    BY <1>1, <1>t, AmountType DEF Complete, TypeOK, LedgerTypeOK, Outcome
  <2>2. Stages'
    BY <1>1, <1>t DEF Complete, TypeOK, LedgerTypeOK, Stages, RowStage, CallStage, Saved
  <2> QED BY <2>1, <2>2 DEF IInv
<1>2. CASE Close(s)
  <2>1. TypeOK'
    BY <1>2, <1>t, AmountType DEF Close, TypeOK, LedgerTypeOK, Outcome
  <2>2. Stages'
    BY <1>2, <1>t DEF Close, TypeOK, LedgerTypeOK, Stages, RowStage, CallStage, Saved
  <2> QED BY <2>1, <2>2 DEF IInv
<1>3. CASE SaveItems(s)
  <2>1. TypeOK'
    BY <1>3, <1>t, AmountType DEF SaveItems, TypeOK, LedgerTypeOK, Writers
  <2>2. Stages'
    BY <1>3, <1>t DEF SaveItems, TypeOK, LedgerTypeOK, Stages, RowStage, CallStage, Saved
  <2> QED BY <2>1, <2>2 DEF IInv
<1>4. CASE \E shown \in SUBSET Fields : PatchBill(s, shown)
  <2>1. TypeOK'
    BY <1>4, <1>t, AmountType DEF PatchBill, TypeOK, LedgerTypeOK, Writers
  <2>2. Stages'
    BY <1>4, <1>t DEF PatchBill, TypeOK, LedgerTypeOK, Stages, RowStage, CallStage, Saved
  <2> QED BY <2>1, <2>2 DEF IInv
<1>5. CASE Abort(s)
  <2>1. TypeOK'
    BY <1>5, <1>t, AmountType DEF Abort, TypeOK, LedgerTypeOK
  <2>2. Stages'
    BY <1>5, <1>t DEF Abort, TypeOK, LedgerTypeOK, Stages, RowStage, CallStage, Saved
  <2> QED BY <2>1, <2>2 DEF IInv
<1> QED BY <1>1, <1>2, <1>3, <1>4, <1>5

(* The user and the clock. *)
LEMMA OtherStep ==
  ASSUME IInv,
         \/ \E b \in Bill, entered \in SUBSET Fields : EditBill(b, entered)
         \/ \E b \in Bill : EditItems(b)
         \/ Clock
  PROVE  IInv'
<1> USE LedgerAssumption, ScanAssumption
    DEF LedgerAssumption, ScanAssumption, Running, ScanPc,
        ledgerVars, billVars, costVars, rowVars, scanVars
<1>t. TypeOK /\ Stages
  BY DEF IInv
<1>1. ASSUME NEW b \in Bill, NEW entered \in SUBSET Fields, EditBill(b, entered)
      PROVE  IInv'
  <2>1. TypeOK'
    BY <1>1, <1>t, AmountType DEF EditBill, TypeOK, LedgerTypeOK, Writers
  <2>2. Stages'
    BY <1>1, <1>t DEF EditBill, Stages, RowStage, CallStage, Saved
  <2> QED BY <2>1, <2>2 DEF IInv
<1>2. ASSUME NEW b \in Bill, EditItems(b) PROVE IInv'
  <2>1. TypeOK'
    BY <1>2, <1>t, AmountType DEF EditItems, TypeOK, LedgerTypeOK, Writers
  <2>2. Stages'
    BY <1>2, <1>t DEF EditItems, TypeOK, Stages, RowStage, CallStage, Saved
  <2> QED BY <2>1, <2>2 DEF IInv
<1>3. CASE Clock
  <2>1. TypeOK'
    <3>1. CASE Midnight
      BY <1>3, <1>t, <3>1, AmountType DEF Clock, Midnight, TypeOK, LedgerTypeOK, Day
    <3>2. ASSUME NEW d \in Day, TotalExpires(d) PROVE TypeOK'
      BY <1>3, <1>t, <3>2, AmountType DEF Clock, TotalExpires, TypeOK, LedgerTypeOK
    <3>3. ASSUME NEW s \in Scan, ReservationExpires(s, day[s]) PROVE TypeOK'
      BY <1>3, <1>t, <3>3, AmountType DEF Clock, ReservationExpires, TypeOK, LedgerTypeOK
    <3> QED BY <1>3, <3>1, <3>2, <3>3 DEF Clock
  <2>2. Stages'
    <3>1. \A s \in Scan : resv[s] = 0 => resv'[s] = 0
      BY <1>3, <1>t DEF Clock, Midnight, TotalExpires, ReservationExpires, TypeOK, LedgerTypeOK
    <3> QED BY <1>3, <1>t, <3>1 DEF Clock, Stages, RowStage, CallStage, Saved
  <2> QED BY <2>1, <2>2 DEF IInv
<1> QED BY <1>1, <1>2, <1>3

LEMMA StepIInv == IInv /\ [Next]_vars => IInv'
<1> SUFFICES ASSUME IInv, [Next]_vars PROVE IInv'
  OBVIOUS
<1>1. ASSUME NEW s \in Scan, ScanStep(s) PROVE IInv'
  BY <1>1, AdmissionStep, ReservationStep, ProviderStep, RecordStep DEF ScanStep
<1>2. CASE UNCHANGED vars
  BY <1>2 DEF vars, ledgerVars, billVars, costVars, rowVars, scanVars, IInv, TypeOK,
              LedgerTypeOK, Stages, RowStage, CallStage, Saved
<1> QED BY <1>1, <1>2, OtherStep DEF Next

LEMMA Invariance == Spec => []IInv
<1> QED BY InitIInv, StepIInv, PTL DEF Spec

(***************************************************************************)
(* Every variable keeps its type; in particular no scan calls the provider *)
(* more often than its strategy may, and no bill is scanned too often.     *)
(***************************************************************************)
THEOREM TypeCorrect == Spec => []TypeOK
<1>1. IInv => TypeOK
  BY DEF IInv
<1> QED BY <1>1, Invariance, PTL

(***************************************************************************)
(* A run recorded as reconciled after it called the provider has no        *)
(* reservation left, whichever answers of Redis were lost on the way.      *)
(***************************************************************************)
THEOREM ReconciledTheorem == Spec => []ReconciledIsSettled
<1>1. IInv => ReconciledIsSettled
  BY DEF IInv, Stages, CallStage, ReconciledIsSettled
<1> QED BY <1>1, Invariance, PTL

(***************************************************************************)
(* The items of a bill never come from a scan whose success is not on      *)
(* record.                                                                 *)
(***************************************************************************)
THEOREM SavedItemsTheorem == Spec => []SavedItemsAreRecorded
<1>1. IInv => SavedItemsAreRecorded
  BY DEF IInv, Stages, Saved, SavedItemsAreRecorded
<1> QED BY <1>1, Invariance, PTL

-----------------------------------------------------------------------------
(* The accounts.                                                             *)

(* Only a call to the provider changes what a scan spent or is accounted at. *)
LEMMA CostsChangeByCalls ==
  ASSUME [Next]_vars
  PROVE  \/ UNCHANGED costVars
         \/ \E s \in Scan, cost \in CallCost, answer \in Answer : Charge(s, cost, answer)
<1>1. ASSUME NEW s \in Scan, ScanStep(s)
      PROVE  \/ UNCHANGED costVars
             \/ \E cost \in CallCost, answer \in Answer : Charge(s, cost, answer)
  BY <1>1 DEF ScanStep, Start, CountScan, RefuseScan, BeginRun, BeginRunFails, OpenReceipt,
              OpenFails, CloseWith, ReserveSpend, ReserveRejected, ReserveFails, CallAgain,
              CallLast, FinalizeSpend, FinalizeFails, Complete, Close, SaveItems, PatchBill, Abort
<1> QED BY <1>1 DEF Next, EditBill, EditItems, Clock, vars

(***************************************************************************)
(* If every good answer of the provider reports its tokens, a scan costs   *)
(* at most half a cent per call more than it is accounted at, failed calls *)
(* included, whatever a call costs and however finely it is priced.        *)
(***************************************************************************)
THEOREM SpendTheorem ==
  ASSUME ~UsageMayBeMissing
  PROVE  Spec => []SpendIsAccounted
<1>1. Init => SpendIsAccounted
  <2> SUFFICES ASSUME Init, NEW s \in Scan
               PROVE  2 * spent[s] <= Part * (2 * accounted[s] + calls[s])
    BY DEF SpendIsAccounted
  <2> QED BY ScanAssumption DEF Init, ScanAssumption
<1>2. IInv /\ SpendIsAccounted /\ [Next]_vars => SpendIsAccounted'
  <2> SUFFICES ASSUME TypeOK, SpendIsAccounted, [Next]_vars
               PROVE  SpendIsAccounted'
    BY DEF IInv
  <2>1. CASE UNCHANGED costVars
    BY <2>1 DEF costVars, SpendIsAccounted
  <2>2. ASSUME NEW s \in Scan, NEW cost \in CallCost, NEW answer \in Answer,
               Charge(s, cost, answer)
        PROVE  SpendIsAccounted'
    <3>t. cost \in Nat /\ Part \in Nat \ {0} /\ CallReserve \in Nat
      BY ScanAssumption, LedgerAssumption DEF ScanAssumption, LedgerAssumption
    <3>1. PICK a \in Nat : a = Accounted(cost, answer) /\ 2 * cost <= 2 * (Part * a) + Part
      <4>1. CASE answer = "metered"
        BY <4>1, RoundingError DEF Accounted
      <4>2. CASE answer = "failed"
        <5>1. cost <= Part * CallReserve /\ Accounted(cost, answer) = CallReserve
          BY <2>2, <3>t, <4>2 DEF Charge, Accounted
        <5>2. Part * CallReserve \in Nat
          BY <3>t
        <5> QED BY <3>t, <5>1, <5>2
      <4> QED BY <4>1, <4>2 DEF Answer
    <3>2. /\ spent' = [spent EXCEPT ![s] = @ + cost]
          /\ accounted' = [accounted EXCEPT ![s] = @ + a]
          /\ calls' = [calls EXCEPT ![s] = @ + 1]
      BY <2>2, <3>1 DEF Charge
    <3>3. SUFFICES ASSUME NEW q \in Scan
                   PROVE  2 * spent'[q] <= Part * (2 * accounted'[q] + calls'[q])
      BY DEF SpendIsAccounted
    <3>4. PICK x \in Nat, y \in Nat, c \in Nat : x = spent[q] /\ y = accounted[q] /\ c = calls[q]
      BY DEF TypeOK
    <3>5. 2 * x <= Part * (2 * y + c)
      BY <3>4 DEF SpendIsAccounted
    <3>6. CASE q # s
      BY <3>2, <3>4, <3>5, <3>6 DEF TypeOK
    <3>7. CASE q = s
      <4>1. spent'[q] = x + cost /\ accounted'[q] = y + a /\ calls'[q] = c + 1
        BY <3>2, <3>4, <3>7 DEF TypeOK
      <4>2. Part * (2 * (y + a) + (c + 1)) = Part * (2 * y + c) + 2 * (Part * a) + Part
        <5>1. \A n \in Nat, u \in Nat, v \in Nat, w \in Nat :
                n * (2 * (v + u) + (w + 1)) = n * (2 * v + w) + 2 * (n * u) + n
          OBVIOUS
        <5> QED BY <3>t, <5>1
      <4>3. Part * (2 * y + c) \in Nat /\ Part * a \in Nat
        BY <3>t, <3>1, <3>4
      <4> QED BY <3>t, <3>1, <3>4, <3>5, <4>1, <4>2, <4>3
    <3> QED BY <3>6, <3>7
  <2> QED BY <2>1, <2>2, CostsChangeByCalls
<1> QED BY <1>1, <1>2, Invariance, PTL DEF Spec

-----------------------------------------------------------------------------
(* The limit of scans.                                                       *)

(* The scans of bill b that the counter has let in and that have a row, or   *)
(* are about to get one.                                                     *)
Counted(b) == {s \in Scan : target[s] = b /\ (pc[s] = "begin" \/ row[s] # "none")}

(* The counter of every bill is an upper bound on them. *)
CountInv == \A b \in Bill : IsFiniteSet(Counted(b)) /\ Cardinality(Counted(b)) <= extracts[b]

(* A step lets in one scan at most, and then counts it. *)
LetsIn(b) ==
  \/ Counted(b)' \subseteq Counted(b) /\ extracts'[b] = extracts[b]
  \/ \E s \in Scan : Counted(b)' \subseteq Counted(b) \cup {s} /\ extracts'[b] = extracts[b] + 1

LEMMA CountedStep ==
  ASSUME IInv, [Next]_vars, NEW b \in Bill
  PROVE  LetsIn(b)
<1> USE DEF Goto, ledgerVars, billVars, costVars, rowVars, scanVars, LetsIn, Counted
<1>t. TypeOK /\ \A s \in Scan : RowStage(s)
  BY DEF IInv, Stages
<1>1. ASSUME NEW s \in Scan, ScanStep(s) PROVE LetsIn(b)
  <2>1. ASSUME NEW c \in Bill, Start(s, c) PROVE LetsIn(b)
    BY <1>t, <2>1 DEF Start, TypeOK, RowStage
  <2>2. CASE CountScan(s)
    <3>1. CASE target[s] = b
      <4>1. Counted(b)' \subseteq Counted(b) \cup {s}
        BY <1>t, <2>2, <3>1 DEF CountScan, TypeOK
      <4>2. extracts'[b] = extracts[b] + 1
        BY <1>t, <2>2, <3>1 DEF CountScan, TypeOK
      <4> QED BY <4>1, <4>2
    <3>2. CASE target[s] # b
      BY <1>t, <2>2, <3>2 DEF CountScan, TypeOK
    <3> QED BY <3>1, <3>2
  <2>3. CASE BeginRun(s)
    BY <1>t, <2>3 DEF BeginRun, TypeOK
  <2>4. CASE Complete(s) \/ Close(s)
    BY <1>t, <2>4 DEF Complete, Close, TypeOK, RowStage, Running
  <2>5. CASE \/ RefuseScan(s) \/ BeginRunFails(s) \/ OpenReceipt(s) \/ OpenFails(s)
             \/ ReserveSpend(s) \/ ReserveRejected(s) \/ ReserveFails(s)
    BY <1>t, <2>5 DEF RefuseScan, BeginRunFails, OpenReceipt, OpenFails, CloseWith,
                      ReserveSpend, ReserveRejected, ReserveFails, TypeOK
  <2>6. ASSUME NEW cost \in CallCost, NEW answer \in Answer, NEW r,
               CallAgain(s, cost, answer) \/ CallLast(s, cost, answer, r)
        PROVE  LetsIn(b)
    BY <1>t, <2>6 DEF CallAgain, CallLast, TypeOK
  <2>7. ASSUME NEW shown, \/ FinalizeSpend(s) \/ FinalizeFails(s)
                          \/ SaveItems(s) \/ PatchBill(s, shown) \/ Abort(s)
        PROVE  LetsIn(b)
    BY <1>t, <2>7 DEF FinalizeSpend, FinalizeFails, SaveItems, PatchBill, Abort, TypeOK
  <2> QED BY <1>1, <2>1, <2>2, <2>3, <2>4, <2>5, <2>6, <2>7 DEF ScanStep
<1>2. CASE \/ \E c \in Bill, entered \in SUBSET Fields : EditBill(c, entered)
           \/ \E c \in Bill : EditItems(c)
           \/ Clock
           \/ UNCHANGED vars
  BY <1>2 DEF EditBill, EditItems, Clock, vars
<1> QED BY <1>1, <1>2 DEF Next

(***************************************************************************)
(* However many requests race for the last scan of a bill, it never has    *)
(* more runs than the limit.                                               *)
(***************************************************************************)
THEOREM ScanLimitTheorem == Spec => []ScansWithinLimit
<1>1. Init => CountInv
  <2> SUFFICES ASSUME Init, NEW b \in Bill
               PROVE  IsFiniteSet(Counted(b)) /\ Cardinality(Counted(b)) <= extracts[b]
    BY DEF CountInv
  <2>1. Counted(b) = {}
    BY DEF Init, Counted
  <2> QED BY <2>1, FS_EmptySet DEF Init
<1>2. IInv /\ CountInv /\ [Next]_vars => CountInv'
  <2> SUFFICES ASSUME IInv, CountInv, [Next]_vars, NEW b \in Bill
               PROVE  (IsFiniteSet(Counted(b)) /\ Cardinality(Counted(b)) <= extracts[b])'
    BY DEF CountInv
  <2>t. IsFiniteSet(Counted(b)) /\ Cardinality(Counted(b)) <= extracts[b] /\ extracts[b] \in Nat
    BY ScanAssumption DEF CountInv, IInv, TypeOK, ScanAssumption
  <2>1. CASE Counted(b)' \subseteq Counted(b) /\ extracts'[b] = extracts[b]
    BY <2>t, <2>1, FS_Subset, FS_CardinalityType
  <2>2. ASSUME NEW s \in Scan,
               Counted(b)' \subseteq Counted(b) \cup {s}, extracts'[b] = extracts[b] + 1
        PROVE  (IsFiniteSet(Counted(b)) /\ Cardinality(Counted(b)) <= extracts[b])'
    <3>1. /\ IsFiniteSet(Counted(b) \cup {s})
          /\ Cardinality(Counted(b) \cup {s}) <= extracts[b] + 1
      <4>1. IsFiniteSet(Counted(b)) /\ Cardinality(Counted(b)) \in Nat
        BY <2>t, FS_CardinalityType
      <4>2. /\ IsFiniteSet(Counted(b) \cup {s})
            /\ \/ Cardinality(Counted(b) \cup {s}) = Cardinality(Counted(b))
               \/ Cardinality(Counted(b) \cup {s}) = Cardinality(Counted(b)) + 1
        BY <4>1, FS_AddElement
      <4> QED BY <2>t, <4>1, <4>2
    <3>2. /\ IsFiniteSet(Counted(b)')
          /\ Cardinality(Counted(b)') <= Cardinality(Counted(b) \cup {s})
      BY <2>2, <3>1, FS_Subset
    <3>3. Cardinality(Counted(b)') \in Nat /\ Cardinality(Counted(b) \cup {s}) \in Nat
      BY <3>1, <3>2, FS_CardinalityType
    <3> QED BY <2>t, <2>2, <3>1, <3>2, <3>3
  <2> QED BY <2>1, <2>2, CountedStep DEF LetsIn
<1>3. IInv /\ CountInv => ScansWithinLimit
  <2> SUFFICES ASSUME IInv, CountInv, NEW b \in Bill
               PROVE  Cardinality({s \in Scan : target[s] = b /\ row[s] # "none"}) <= MaxScans
    BY DEF ScansWithinLimit
  <2>1. {s \in Scan : target[s] = b /\ row[s] # "none"} \subseteq Counted(b)
    BY DEF Counted
  <2>2. extracts[b] \in Nat /\ extracts[b] <= MaxScans /\ MaxScans \in Nat
    BY ScanAssumption DEF IInv, TypeOK, ScanAssumption
  <2> QED BY <2>1, <2>2, FS_Subset, FS_CardinalityType DEF CountInv
<1> QED BY <1>1, <1>2, <1>3, Invariance, PTL DEF Spec

-----------------------------------------------------------------------------
(* The ledger.  What a step of scan s does to the accounts is one of four.   *)

Quiet(s) ==
  /\ UNCHANGED <<ledgerVars, costVars, day>>
  /\ pc[s] # "call" /\ pc'[s] \notin {"call", "finalize"}
  /\ pc'[s] \in {"admit", "begin", "open", "reserve"} => pc[s] \in {"idle", "admit", "begin", "open"}

LeavesCall(s) ==
  /\ UNCHANGED <<ledgerVars, costVars, day>>
  /\ pc[s] = "call" /\ pc'[s] = "done"

Reserves(s) ==
  /\ pc[s] = "reserve" /\ pc'[s] \in {"call", "close"}
  /\ Reserve(s) /\ day' = [day EXCEPT ![s] = today]
  /\ UNCHANGED costVars

Calls(s) ==
  /\ pc[s] = "call" /\ pc'[s] \in {"call", "finalize"}
  /\ \E cost \in CallCost, answer \in Answer : Charge(s, cost, answer)
  /\ UNCHANGED <<ledgerVars, day>>

Settles(s) ==
  /\ pc[s] = "finalize" /\ pc'[s] \in {"complete", "completeUnreconciled"}
  /\ Finalize(s, day[s], accounted[s])
  /\ UNCHANGED <<costVars, day>>

Effect(s) ==
  /\ pc' = [pc EXCEPT ![s] = pc'[s]] /\ pc'[s] # "idle"
  /\ \/ Quiet(s) \/ LeavesCall(s) \/ Reserves(s) \/ Calls(s) \/ Settles(s)

LEMMA ScanEffect ==
  ASSUME TypeOK, NEW s \in Scan, ScanStep(s)
  PROVE  Effect(s)
<1> USE DEF Goto, ScanPc, billVars, rowVars, scanVars, costVars
<1>t. pc \in [Scan -> ScanPc]
  BY DEF TypeOK
<1>1. ASSUME NEW b \in Bill, Start(s, b) PROVE Effect(s)
  BY <1>t, <1>1 DEF Start, Effect, Quiet
<1>2. CASE CountScan(s) \/ RefuseScan(s) \/ BeginRun(s) \/ BeginRunFails(s) \/ OpenReceipt(s)
  BY <1>t, <1>2 DEF CountScan, RefuseScan, BeginRun, BeginRunFails, OpenReceipt, Effect, Quiet
<1>3. CASE OpenFails(s) \/ ReserveRejected(s)
  BY <1>t, <1>3 DEF OpenFails, ReserveRejected, CloseWith, Effect, Quiet, ledgerVars
<1>4. CASE ReserveSpend(s)
  BY <1>t, <1>4 DEF ReserveSpend, Effect, Reserves
<1>5. CASE ReserveFails(s)
  BY <1>t, <1>5 DEF ReserveFails, CloseWith, Effect, Reserves, Quiet, ledgerVars
<1>6. ASSUME NEW cost \in CallCost, NEW answer \in Answer, NEW r,
             CallAgain(s, cost, answer) \/ CallLast(s, cost, answer, r)
      PROVE  Effect(s)
  BY <1>t, <1>6 DEF CallAgain, CallLast, Effect, Calls
<1>7. CASE FinalizeSpend(s)
  BY <1>t, <1>7 DEF FinalizeSpend, Effect, Settles, Quiet
<1>8. CASE FinalizeFails(s)
  BY <1>t, <1>8 DEF FinalizeFails, Effect, Settles, Quiet
<1>9. CASE Complete(s) \/ Close(s) \/ SaveItems(s)
  BY <1>t, <1>9 DEF Complete, Close, SaveItems, Effect, Quiet
<1>10. ASSUME NEW shown, PatchBill(s, shown) PROVE Effect(s)
  BY <1>t, <1>10 DEF PatchBill, Effect, Quiet
<1>11. CASE Abort(s)
  BY <1>t, <1>11 DEF Abort, Effect, Quiet, LeavesCall
<1> QED BY <1>1, <1>2, <1>3, <1>4, <1>5, <1>6, <1>7, <1>8, <1>9, <1>10, <1>11 DEF ScanStep

(* How the reservation of a scan follows the handler: it is there while the  *)
(* scan calls the provider, until its day is over, and so is the total.      *)
ReserveStage(s) ==
  /\ pc[s] \in {"idle", "admit", "begin", "open", "reserve"} => resv[s] = 0
  /\ calls[s] = 0 => spent[s] = 0 /\ accounted[s] = 0
  /\ pc[s] \in {"call", "finalize"} /\ day[s] = today => resv[s] # 0
  /\ resv[s] # 0 /\ day[s] = today => today \in keys
  /\ day[s] <= today

Started == {s \in Scan : pc[s] # "idle"}

(* What every scan has in the total of day d. *)
Booked(d) ==
  [s \in Scan |-> IF day[s] # d THEN 0 ELSE IF resv[s] # 0 THEN resv[s] ELSE accounted[s]]

LedgerInv ==
  /\ \A s \in Scan : ReserveStage(s)
  /\ IsFiniteSet(Started)
  /\ \A d \in Day : d > today => total[d] = 0
  /\ today \in Day => total[today] = SumFunctionOnSet(Booked(today), Started)

LEMMA BookedType ==
  ASSUME TypeOK, NEW d
  PROVE  Booked(d) \in [Scan -> Nat]
BY AmountType DEF Booked, TypeOK, LedgerTypeOK

LEMMA InitLedger == Init => LedgerInv
<1> SUFFICES ASSUME Init PROVE LedgerInv
  OBVIOUS
<1>1. ASSUME NEW s \in Scan PROVE ReserveStage(s)
  <2>1. /\ pc[s] = "idle" /\ resv[s] = 0 /\ spent[s] = 0 /\ accounted[s] = 0
        /\ day[s] = 1 /\ today = 1
    BY DEF Init, LedgerInit
  <2> QED BY <2>1 DEF ReserveStage
<1>2. Started = {}
  BY DEF Init, Started
<1>3. total[1] = 0 /\ \A d \in Day : d > 1 => total[d] = 0
  BY LedgerAssumption DEF Init, LedgerInit, LedgerAssumption, Day
<1>4. SumFunctionOnSet(Booked(today), Started) = 0
  BY <1>2, SumEmpty
<1> QED BY <1>1, <1>2, <1>3, <1>4, FS_EmptySet DEF LedgerInv, Init, LedgerInit

LEMMA StartedStep ==
  ASSUME TypeOK, IsFiniteSet(Started), NEW s \in Scan, Effect(s)
  PROVE  Started' = Started \cup {s} /\ IsFiniteSet(Started')
<1>1. Started' = Started \cup {s}
  BY DEF TypeOK, Started, Effect
<1> QED BY <1>1, FS_AddElement

LEMMA ReserveStageStep ==
  ASSUME IInv, \A q \in Scan : ReserveStage(q), NEW s \in Scan, Effect(s)
  PROVE  \A q \in Scan : ReserveStage(q)'
<1> USE DEF ReserveStage, ledgerVars, costVars
<1>a. Amount \in Nat \ {0}
  BY LedgerAssumption DEF LedgerAssumption, Amount
<1>t. TypeOK /\ calls[s] \in Nat /\ (pc[s] = "reserve" => calls[s] = 0) /\ Amount \in Nat \ {0}
  BY <1>a DEF IInv, Stages, CallStage, TypeOK
<1>1. CASE Quiet(s)
  BY <1>1, <1>t DEF Quiet, Effect, TypeOK
<1>2. CASE LeavesCall(s)
  BY <1>2, <1>t DEF LeavesCall, Effect, TypeOK
<1>3. CASE Reserves(s)
  BY <1>3, <1>t DEF Reserves, Reserve, Effect, TypeOK, LedgerTypeOK
<1>4. CASE Calls(s)
  BY <1>4, <1>t DEF Calls, Charge, Effect, TypeOK, LedgerTypeOK
<1>5. CASE Settles(s)
  BY <1>5, <1>t DEF Settles, Finalize, Effect, TypeOK, LedgerTypeOK
<1> QED BY <1>1, <1>2, <1>3, <1>4, <1>5 DEF Effect

(* A step of scan s moves the total of today by what it moves for s. *)
LEMMA TotalStep ==
  ASSUME IInv, IInv', \A q \in Scan : ReserveStage(q), NEW s \in Scan, Effect(s), today \in Day
  PROVE  /\ today' = today
         /\ total'[today] = total[today] + Booked(today)'[s] - Booked(today)[s]
         /\ \A q \in Scan : q # s => Booked(today)'[q] = Booked(today)[q]
<1> USE DEF ReserveStage, ledgerVars, costVars, Booked
<1>a. Amount \in Nat \ {0}
  BY LedgerAssumption DEF LedgerAssumption, Amount
<1>t. TypeOK /\ (pc[s] = "reserve" => calls[s] = 0) /\ Amount \in Nat \ {0}
  BY <1>a DEF IInv, Stages, CallStage
<1>1. CASE Quiet(s) \/ LeavesCall(s)
  BY <1>1, <1>t DEF Quiet, LeavesCall, TypeOK, LedgerTypeOK
<1>3. CASE Reserves(s)
  BY <1>3, <1>t DEF Reserves, Reserve, TypeOK, LedgerTypeOK
<1>4. CASE Calls(s)
  BY <1>4, <1>t DEF Calls, Charge, TypeOK, LedgerTypeOK
<1>5. CASE Settles(s)
  BY <1>5, <1>t DEF Settles, Finalize, TypeOK, LedgerTypeOK
<1> QED BY <1>1, <1>3, <1>4, <1>5 DEF Effect

LEMMA LedgerScanStep ==
  ASSUME IInv, IInv', LedgerInv, NEW s \in Scan, Effect(s)
  PROVE  LedgerInv'
<1>t. TypeOK /\ TypeOK' /\ \A q \in Scan : ReserveStage(q)
  BY DEF IInv, LedgerInv
<1>1. \A q \in Scan : ReserveStage(q)'
  BY <1>t, ReserveStageStep DEF LedgerInv
<1>2. Started' = Started \cup {s} /\ IsFiniteSet(Started) /\ IsFiniteSet(Started')
  BY <1>t, StartedStep DEF LedgerInv
<1>3. today' = today /\ \A d \in Day : d > today => total'[d] = 0
  <2>1. today' = today /\ \A d \in Day : d # today /\ d # day[s] => total'[d] = total[d]
    BY <1>t DEF Effect, Quiet, LeavesCall, Reserves, Reserve, Calls, Settles, Finalize, ledgerVars,
                TypeOK, LedgerTypeOK
  <2>2. day[s] \in Int /\ day[s] <= today /\ today \in Int
    BY <1>t DEF ReserveStage, TypeOK, LedgerTypeOK, Day
  <2> QED BY <2>1, <2>2 DEF LedgerInv, Day
<1>4. ASSUME today \in Day PROVE total'[today] = SumFunctionOnSet(Booked(today)', Started')
  <2>1. PICK f \in [Scan -> Nat], g \in [Scan -> Nat] : f = Booked(today) /\ g = Booked(today)'
    <3>1. Booked(today) \in [Scan -> Nat]
      BY <1>t, BookedType
    <3>2. Booked(today)' \in [Scan -> Nat]
      BY <1>t, AmountType DEF Booked, TypeOK, LedgerTypeOK
    <3> QED BY <3>1, <3>2
  <2>2. total'[today] = total[today] + g[s] - f[s] /\ \A q \in Scan : q # s => g[q] = f[q]
    BY <1>4, <1>t, <2>1, TotalStep
  <2>3. total[today] = SumFunctionOnSet(f, Started) /\ total[today] \in Int
    BY <1>4, <1>t, <2>1 DEF LedgerInv, TypeOK, LedgerTypeOK
  <2>4. PICK A, B : A = Started /\ B = Started' /\ A \subseteq Scan /\ B = A \cup {s}
    BY <1>2 DEF Started
  <2>5. IsFiniteSet(A) /\ IsFiniteSet(B) /\ IntValued(f, B) /\ IntValued(g, B) /\ s \in B
    BY <1>2, <2>4 DEF IntValued
  <2>6. SumFunctionOnSet(f, B) = SumFunctionOnSet(f, A)
    <3>1. CASE s \in A
      <4>1. A = B
        BY <2>4, <3>1
      <4> QED BY <4>1
    <3>2. CASE s \notin A
      <4>1. f[s] = 0
        BY <1>t, <2>1, <2>4, <3>2 DEF Started, Booked, ReserveStage, IInv, Stages, CallStage, TypeOK
      <4>2. \A x \in B : x \notin A => f[x] = 0
        BY <2>4, <4>1
      <4> QED BY <2>4, <2>5, <4>2, SumSupport
    <3> QED BY <3>1, <3>2
  <2>7. \A y \in B : y # s => g[y] = f[y]
    BY <2>2, <2>4
  <2>8. SumFunctionOnSet(g, B) = SumFunctionOnSet(f, B) + g[s] - f[s]
    BY <2>5, <2>7, SumUpdate
  <2>9. total'[today] = SumFunctionOnSet(g, B)
    BY <2>2, <2>3, <2>4, <2>6, <2>8
  <2> QED BY <2>1, <2>4, <2>9
<1> QED BY <1>1, <1>2, <1>3, <1>4 DEF LedgerInv, Booked

(* Midnight, and keys that expire. *)
LEMMA LedgerClock ==
  ASSUME IInv, IInv', LedgerInv, Clock
  PROVE  LedgerInv'
<1> USE DEF ledgerVars, billVars, costVars, rowVars, scanVars
<1>t. TypeOK /\ TypeOK' /\ \A q \in Scan : ReserveStage(q)
  BY DEF IInv, LedgerInv
<1>1. Started' = Started /\ day' = day /\ accounted' = accounted
  BY DEF Clock, Started
<1>2. CASE Midnight
  <2>1. \A q \in Scan : ReserveStage(q)'
    BY <1>2, <1>t DEF Clock, Midnight, ReserveStage, TypeOK, LedgerTypeOK, Day
  <2>2. \A d \in Day : d > today' => total'[d] = 0
    BY <1>2, <1>t DEF LedgerInv, Midnight, TypeOK, LedgerTypeOK, Day
  <2>3. today' \in Day => total'[today'] = 0
    BY <1>2, <1>t DEF LedgerInv, Midnight, TypeOK, LedgerTypeOK, Day
  <2>4. PICK f, A : f = Booked(today)' /\ A = Started' /\ A \subseteq Scan /\ IsFiniteSet(A)
    BY <1>1 DEF LedgerInv, Started
  <2>5. \A q \in A : f[q] = 0
    BY <1>1, <1>2, <1>t, <2>4 DEF Midnight, Booked, ReserveStage, TypeOK, LedgerTypeOK, Day
  <2>6. SumFunctionOnSet(f, A) = 0
    BY <2>4, <2>5, SumZero
  <2> QED BY <1>1, <2>1, <2>2, <2>3, <2>4, <2>6 DEF LedgerInv
<1>3. ASSUME NEW d \in Day, TotalExpires(d) PROVE LedgerInv'
  <2>1. \A q \in Scan : ReserveStage(q)'
    BY <1>3, <1>t DEF Clock, TotalExpires, ReserveStage, TypeOK, LedgerTypeOK, Day
  <2>2. Booked(today)' = Booked(today)
    BY <1>1, <1>3 DEF TotalExpires, Booked
  <2>3. today' = today /\ \A e \in Day : e >= today => total'[e] = total[e]
    BY <1>3, <1>t DEF TotalExpires, TypeOK, LedgerTypeOK, Day
  <2> QED BY <1>1, <1>t, <2>1, <2>2, <2>3 DEF LedgerInv, TypeOK, LedgerTypeOK, Day
<1>4. ASSUME NEW s \in Scan, ReservationExpires(s, day[s]) PROVE LedgerInv'
  <2>1. \A q \in Scan : ReserveStage(q)'
    BY <1>4, <1>t DEF Clock, ReservationExpires, ReserveStage, TypeOK, LedgerTypeOK, Day
  <2>2. Booked(today)' = Booked(today)
    BY <1>1, <1>4, <1>t DEF ReservationExpires, Booked, TypeOK, LedgerTypeOK
  <2> QED BY <1>1, <1>4, <2>1, <2>2 DEF LedgerInv, ReservationExpires
<1> QED BY <1>2, <1>3, <1>4 DEF Clock

LEMMA LedgerStep == IInv /\ IInv' /\ LedgerInv /\ [Next]_vars => LedgerInv'
<1> SUFFICES ASSUME IInv, IInv', LedgerInv, [Next]_vars PROVE LedgerInv'
  OBVIOUS
<1>1. ASSUME NEW s \in Scan, ScanStep(s) PROVE LedgerInv'
  BY <1>1, ScanEffect, LedgerScanStep DEF IInv
<1>2. CASE UNCHANGED <<ledgerVars, costVars, day, pc>>
  BY <1>2 DEF ledgerVars, costVars, LedgerInv, ReserveStage, Started, Booked
<1>3. CASE \/ \E b \in Bill, entered \in SUBSET Fields : EditBill(b, entered)
           \/ \E b \in Bill : EditItems(b)
  BY <1>2, <1>3 DEF EditBill, EditItems, scanVars
<1>4. CASE UNCHANGED vars
  BY <1>2, <1>4 DEF vars, scanVars
<1> QED BY <1>1, <1>3, <1>4, LedgerClock DEF Next

LEMMA LedgerInvariance == Spec => [](IInv /\ LedgerInv)
<1> QED BY InitLedger, LedgerStep, Invariance, PTL DEF Spec

(* The sum of LedgerIsExact, as a sum of the function Booked. *)
LEMMA BookedSum ==
  ASSUME IInv, LedgerInv, NEW d \in Day
  PROVE  MapThenSumSet(LAMBDA s : IF resv[s] # 0 THEN resv[s] ELSE accounted[s], ScansOf(d))
         = SumFunctionOnSet(Booked(d), Started)
<1> DEFINE own == [s \in Scan |-> IF resv[s] # 0 THEN resv[s] ELSE accounted[s]]
<1>t. /\ TypeOK /\ IsFiniteSet(Started)
      /\ \A s \in Scan : ReserveStage(s) /\ CallStage(s)
  BY DEF IInv, Stages, LedgerInv
<1>1. MapThenSumSet(LAMBDA s : IF resv[s] # 0 THEN resv[s] ELSE accounted[s], ScansOf(d))
      = SumFunctionOnSet(own, ScansOf(d))
  <2>1. PICK T \in SUBSET Scan : T = ScansOf(d)
    BY DEF ScansOf
  <2>2. MapThenSumSet(LAMBDA s : IF resv[s] # 0 THEN resv[s] ELSE accounted[s], T)
        = SumFunctionOnSet(own, T)
    BY ZenonT(60) DEF MapThenSumSet, SumFunctionOnSet, FoldFunctionOnSet, MapThenFoldSet
  <2> QED BY <2>1, <2>2
<1>2. PICK f \in [Scan -> Nat], g \in [Scan -> Nat] : f = Booked(d) /\ g = own
  <2>1. own \in [Scan -> Nat]
    BY <1>t, AmountType DEF TypeOK, LedgerTypeOK
  <2>2. Booked(d) \in [Scan -> Nat]
    BY <1>t, BookedType
  <2> QED BY <2>1, <2>2
<1>3. PICK T, A : T = ScansOf(d) /\ A = Started /\ T \subseteq A /\ A \subseteq Scan /\ IsFiniteSet(A)
  BY <1>t DEF ScansOf, Started, ReserveStage, CallStage
<1>4. \A x \in T : f[x] = g[x]
  BY <1>2, <1>3 DEF ScansOf, Booked
<1>5. \A x \in A : x \notin T => f[x] = 0
  BY <1>t, <1>2, <1>3 DEF ScansOf, Booked, ReserveStage, Started
<1>6. IsFiniteSet(T) /\ IntValued(f, A) /\ IntValued(g, T)
  BY <1>3, FS_Subset DEF IntValued
<1>7. SumFunctionOnSet(f, A) = SumFunctionOnSet(f, T)
  BY <1>3, <1>5, <1>6, SumSupport
<1>8. SumFunctionOnSet(f, T) = SumFunctionOnSet(g, T)
  BY <1>4, <1>6, SumCongruence
<1> QED BY <1>1, <1>2, <1>3, <1>7, <1>8

(***************************************************************************)
(* The running total of today is what is still reserved plus what settled  *)
(* scans were accounted at, for any number of scans, whatever answers of   *)
(* Redis are lost and whichever scans run over midnight.                   *)
(***************************************************************************)
THEOREM LedgerTheorem == Spec => []LedgerIsExact
<1>1. IInv /\ LedgerInv => LedgerIsExact
  BY BookedSum DEF IInv, LedgerInv, LedgerIsExact
<1> QED BY <1>1, LedgerInvariance, PTL

(* What the cap of day d has to hold back for a scan: its reservation while  *)
(* it may call the provider, and then what it is accounted at, up to the     *)
(* reservation.                                                              *)
Held(d) ==
  [s \in Scan |->
     IF day[s] # d THEN 0
     ELSE IF resv[s] # 0 \/ pc[s] = "call" \/ accounted[s] > Amount THEN Amount ELSE accounted[s]]

CapInv == \A d \in Day : SumFunctionOnSet(Held(d), Started) <= Cap

LEMMA HeldType ==
  ASSUME TypeOK, NEW d
  PROVE  Held(d) \in [Scan -> Nat]
BY AmountType DEF Held, TypeOK

(* Only a reservation adds to what is held, and only to what is held today. *)
LEMMA HeldStep ==
  ASSUME IInv, \A q \in Scan : ReserveStage(q), NEW s \in Scan, Effect(s), NEW d \in Day
  PROVE  /\ \A q \in Scan : q # s => Held(d)'[q] = Held(d)[q]
         /\ ~Reserves(s) \/ d # today => Held(d)'[s] <= Held(d)[s]
<1> USE DEF ReserveStage, ledgerVars, costVars, Held
<1>t. TypeOK /\ Amount \in Nat
  BY AmountType DEF IInv
<1>1. CASE Quiet(s) \/ LeavesCall(s)
  BY <1>1, <1>t DEF Quiet, LeavesCall, Effect, TypeOK, LedgerTypeOK
<1>3. CASE Reserves(s)
  <2>1. today' = today /\ day'[s] = today
    BY <1>3, <1>t DEF Reserves, Reserve, TypeOK
  <2>2. \A q \in Scan : q # s => pc'[q] = pc[q] /\ day'[q] = day[q] /\ resv'[q] = resv[q]
    BY <1>3, <1>t DEF Reserves, Reserve, Effect, TypeOK, LedgerTypeOK
  <2> QED BY <1>3, <1>t, <2>1, <2>2 DEF Reserves, TypeOK
<1>4. CASE Calls(s)
  <2>1. PICK a \in Nat : accounted' = [accounted EXCEPT ![s] = @ + a]
    BY <1>4, AccountedType DEF Calls, Charge
  <2> QED BY <1>4, <1>t, <2>1 DEF Calls, Effect, TypeOK, LedgerTypeOK
<1>5. CASE Settles(s)
  BY <1>5, <1>t DEF Settles, Finalize, Effect, TypeOK, LedgerTypeOK
<1> QED BY <1>1, <1>3, <1>4, <1>5 DEF Effect

(* What is held today is in the total of today. *)
LEMMA HeldIsBooked ==
  ASSUME TypeOK, \A q \in Scan : ReserveStage(q)
  PROVE  \A q \in Scan : Held(today)[q] <= Booked(today)[q]
<1> SUFFICES ASSUME NEW q \in Scan PROVE Held(today)[q] <= Booked(today)[q]
  OBVIOUS
<1>0. CASE day[q] # today
  BY <1>0 DEF Held, Booked
<1> SUFFICES ASSUME day[q] = today PROVE Held(today)[q] <= Booked(today)[q]
  BY <1>0
<1>t. /\ Amount \in Nat /\ resv[q] \in {0, Amount} /\ accounted[q] \in Nat
      /\ (pc[q] = "call" => resv[q] # 0)
  BY AmountType DEF TypeOK, LedgerTypeOK, ReserveStage
<1>1. CASE resv[q] # 0
  BY <1>t, <1>1 DEF Held, Booked
<1>2. CASE resv[q] = 0
  BY <1>t, <1>2 DEF Held, Booked
<1> QED BY <1>1, <1>2

LEMMA CapScanStep ==
  ASSUME IInv, IInv', LedgerInv, CapInv, NEW s \in Scan, Effect(s)
  PROVE  CapInv'
<1> SUFFICES ASSUME NEW d \in Day PROVE SumFunctionOnSet(Held(d)', Started') <= Cap
  BY DEF CapInv
<1>t. TypeOK /\ TypeOK' /\ (\A q \in Scan : ReserveStage(q)) /\ Amount \in Nat /\ Cap \in Nat
  BY AmountType, LedgerAssumption DEF IInv, LedgerInv, LedgerAssumption
<1>1. PICK A, B : A = Started /\ B = Started' /\ A \subseteq Scan /\ B = A \cup {s}
                  /\ IsFiniteSet(A) /\ IsFiniteSet(B)
  BY <1>t, StartedStep DEF LedgerInv, Started
<1>2. PICK f \in [Scan -> Nat], g \in [Scan -> Nat] : f = Held(d) /\ g = Held(d)'
  <2>1. Held(d) \in [Scan -> Nat]
    BY <1>t, HeldType
  <2>2. Held(d)' \in [Scan -> Nat]
    BY <1>t DEF Held, TypeOK
  <2> QED BY <2>1, <2>2
<1>3. IntValued(f, B) /\ IntValued(g, B) /\ \A y \in B : y # s => g[y] = f[y]
  BY <1>t, <1>1, <1>2, HeldStep DEF IntValued
<1>4. SumFunctionOnSet(f, B) = SumFunctionOnSet(f, A) /\ SumFunctionOnSet(f, A) <= Cap
  <2>1. \A x \in B : x \notin A => f[x] = 0
    BY <1>t, <1>1, <1>2 DEF Started, Held, ReserveStage, IInv, Stages, CallStage
  <2> QED BY <1>1, <1>2, <1>3, <2>1, SumSupport DEF CapInv
<1>5. SumFunctionOnSet(g, B) = SumFunctionOnSet(f, B) + g[s] - f[s]
  BY <1>1, <1>3, SumUpdate
<1>6. SumFunctionOnSet(f, B) \in Int /\ f[s] \in Nat /\ g[s] \in Nat
  BY <1>1, <1>2, <1>3, SumInt
<1>7. CASE ~Reserves(s) \/ d # today
  BY <1>t, <1>1, <1>2, <1>4, <1>5, <1>6, <1>7, HeldStep
<1>8. CASE Reserves(s) /\ d = today
  <2>1. g[s] = Amount /\ total[d] + Amount <= Cap /\ total[d] \in Int
    BY <1>t, <1>2, <1>8 DEF Reserves, Reserve, Fits, Held, TypeOK, LedgerTypeOK
  <2>2. PICK h \in [Scan -> Nat] : h = Booked(d)
    BY <1>t, BookedType
  <2>3. \A q \in A : f[q] <= h[q]
    BY <1>t, <1>1, <1>2, <1>8, <2>2, HeldIsBooked
  <2>4. IntValued(f, A) /\ IntValued(h, A)
    BY <1>1 DEF IntValued
  <2>5. SumFunctionOnSet(f, A) <= SumFunctionOnSet(h, A)
    BY <1>1, <2>3, <2>4, SumMonotonic
  <2>6. SumFunctionOnSet(h, A) = total[d]
    BY <1>1, <1>8, <2>2 DEF LedgerInv
  <2> QED BY <1>t, <1>1, <1>2, <1>4, <1>5, <1>6, <2>1, <2>5, <2>6
<1> QED BY <1>7, <1>8

LEMMA CapStep == IInv /\ IInv' /\ LedgerInv /\ CapInv /\ [Next]_vars => CapInv'
<1> SUFFICES ASSUME IInv, IInv', LedgerInv, CapInv, [Next]_vars PROVE CapInv'
  OBVIOUS
<1> USE DEF ledgerVars, billVars, costVars, rowVars, scanVars
<1>t. TypeOK /\ IsFiniteSet(Started)
  BY DEF IInv, LedgerInv
<1>1. ASSUME NEW s \in Scan, ScanStep(s) PROVE CapInv'
  BY <1>1, <1>t, ScanEffect, CapScanStep
<1>2. CASE UNCHANGED <<resv, accounted, day, pc>>
  BY <1>2 DEF CapInv, Started, Held
<1>3. CASE \/ \E b \in Bill, entered \in SUBSET Fields : EditBill(b, entered)
           \/ \E b \in Bill : EditItems(b)
           \/ UNCHANGED vars
  BY <1>2, <1>3 DEF EditBill, EditItems, vars
<1>4. CASE Clock
  <2>1. CASE Midnight \/ \E d \in Day : TotalExpires(d)
    BY <1>2, <1>4, <2>1 DEF Clock, Midnight, TotalExpires
  <2>2. ASSUME NEW s \in Scan, ReservationExpires(s, day[s]), NEW d \in Day
        PROVE  SumFunctionOnSet(Held(d)', Started') <= Cap
    <3>1. UNCHANGED <<accounted, day, pc>> /\ resv' = [resv EXCEPT ![s] = 0]
      BY <1>4, <2>2 DEF Clock, ReservationExpires
    <3>2. PICK A : A = Started /\ A = Started' /\ A \subseteq Scan /\ IsFiniteSet(A)
      BY <1>t, <3>1 DEF Started
    <3>3. PICK f \in [Scan -> Nat], g \in [Scan -> Nat] : f = Held(d) /\ g = Held(d)'
      <4>1. Held(d) \in [Scan -> Nat]
        BY <1>t, HeldType
      <4>2. Held(d)' \in [Scan -> Nat]
        BY AmountType DEF Held, IInv, TypeOK
      <4> QED BY <4>1, <4>2
    <3>4. \A q \in A : g[q] <= f[q]
      BY <1>t, <3>1, <3>2, <3>3, AmountType DEF Held, TypeOK, LedgerTypeOK
    <3>5. IntValued(f, A) /\ IntValued(g, A)
      BY <3>2 DEF IntValued
    <3>6. SumFunctionOnSet(g, A) <= SumFunctionOnSet(f, A)
      BY <3>2, <3>4, <3>5, SumMonotonic
    <3>7. SumFunctionOnSet(f, A) <= Cap
      BY <3>2, <3>3 DEF CapInv
    <3>8. SumFunctionOnSet(f, A) \in Int /\ SumFunctionOnSet(g, A) \in Int /\ Cap \in Int
      BY <3>2, <3>5, SumInt, LedgerAssumption DEF LedgerAssumption
    <3> QED BY <3>2, <3>3, <3>6, <3>7, <3>8
  <2> QED BY <1>4, <2>1, <2>2 DEF Clock, CapInv
<1> QED BY <1>1, <1>3, <1>4 DEF Next

(* The sums of BilledWithinCap, as sums of functions. *)
LEMMA BilledSums ==
  ASSUME NEW d
  PROVE  /\ MapThenSumSet(LAMBDA s : spent[s], ScansOf(d)) = SumFunctionOnSet(spent, ScansOf(d))
         /\ MapThenSumSet(Excess, ScansOf(d))
            = SumFunctionOnSet([s \in Scan |-> Excess(s)], ScansOf(d))
<1>1. PICK T \in SUBSET Scan : T = ScansOf(d)
  BY DEF ScansOf
<1>2. MapThenSumSet(LAMBDA s : spent[s], T) = SumFunctionOnSet(spent, T)
  BY ZenonT(60) DEF MapThenSumSet, SumFunctionOnSet, FoldFunctionOnSet, MapThenFoldSet
<1>3. MapThenSumSet(Excess, T) = SumFunctionOnSet([s \in Scan |-> Excess(s)], T)
  BY ZenonT(60) DEF MapThenSumSet, SumFunctionOnSet, FoldFunctionOnSet, MapThenFoldSet
<1> QED BY <1>1, <1>2, <1>3

(* What a scan costs is covered by what is held for it and by its excess. *)
LEMMA HeldCoversScan ==
  ASSUME IInv, SpendIsAccounted, NEW s \in Scan, NEW d, day[s] = d
  PROVE  2 * spent[s] <= 2 * (Part * Held(d)[s]) + Excess(s) /\ Excess(s) \in Nat
<1>t. Part \in Nat /\ Amount \in Nat
  BY AmountType, ScanAssumption DEF ScanAssumption
<1>1. PICK x \in Nat, y \in Nat, c \in Nat : x = spent[s] /\ y = accounted[s] /\ c = calls[s]
  BY DEF IInv, TypeOK
<1>2. PICK pa \in Nat, py \in Nat, pc1 \in Nat :
         pa = Part * Amount /\ py = Part * y /\ pc1 = Part * c
  BY <1>t
<1>3. 2 * x <= 2 * py + pc1
  <2>1. 2 * x <= Part * (2 * y + c)
    BY <1>1 DEF SpendIsAccounted
  <2>2. Part * (2 * y + c) = 2 * (Part * y) + Part * c
    BY <1>t
  <2> QED BY <1>2, <2>1, <2>2
<1>4. Excess(s) = 2 * (IF x > pa THEN x - pa ELSE 0) + pc1
  BY <1>1, <1>2 DEF Excess, Overrun
<1>5. Part * Held(d)[s] = pa \/ Part * Held(d)[s] = py
  BY <1>1, <1>2 DEF Held
<1> QED BY <1>1, <1>2, <1>3, <1>4, <1>5

LEMMA HeldCoversBill ==
  ASSUME IInv, LedgerInv, SpendIsAccounted, CapInv
  PROVE  BilledWithinCap
<1> SUFFICES ASSUME NEW d \in Day
             PROVE  2 * SumFunctionOnSet(spent, ScansOf(d))
                      <= 2 * Part * Cap + SumFunctionOnSet([s \in Scan |-> Excess(s)], ScansOf(d))
  BY BilledSums DEF BilledWithinCap
<1>t. /\ TypeOK /\ IsFiniteSet(Started) /\ Amount \in Nat /\ Cap \in Nat /\ Part \in Nat
      /\ \A s \in Scan : ReserveStage(s) /\ CallStage(s)
  BY AmountType, LedgerAssumption, ScanAssumption
     DEF IInv, Stages, LedgerInv, LedgerAssumption, ScanAssumption
<1>1. PICK A, T : A = Started /\ T = ScansOf(d) /\ T \subseteq A /\ A \subseteq Scan
                  /\ IsFiniteSet(A) /\ IsFiniteSet(T)
  <2>1. ScansOf(d) \subseteq Started /\ Started \subseteq Scan
    BY <1>t DEF ScansOf, Started, ReserveStage, CallStage
  <2> QED BY <1>t, <2>1, FS_Subset
<1>2. PICK f \in [Scan -> Nat], g \in [Scan -> Nat] : f = Held(d) /\ g = spent
  BY <1>t, HeldType DEF TypeOK
<1>h. PICK h : h = [s \in Scan |-> Excess(s)]
  OBVIOUS
<1>3. ASSUME NEW s \in T
      PROVE  s \in Scan /\ h[s] \in Nat /\ 2 * g[s] <= 2 * (Part * f[s]) + h[s]
  <2>1. s \in Scan /\ day[s] = d
    BY <1>1 DEF ScansOf
  <2> QED BY <1>2, <1>h, <2>1, HeldCoversScan
<1> DEFINE k == [s \in T |-> (2 * Part) * f[s] + 1 * h[s]]
           w == [s \in T |-> 2 * g[s] + 0 * g[s]]
<1>4. \A s \in T : k[s] = (2 * Part) * f[s] + 1 * h[s] /\ w[s] = 2 * g[s] + 0 * g[s]
  OBVIOUS
<1>5. ASSUME NEW s \in T PROVE w[s] <= k[s] /\ w[s] \in Int /\ k[s] \in Int
  <2>1. PICK x \in Nat, y \in Nat, z \in Nat : x = f[s] /\ y = g[s] /\ z = h[s]
    BY <1>2, <1>3
  <2>2. k[s] = 2 * (Part * x) + z /\ w[s] = 2 * y /\ Part * x \in Nat
    BY <1>t, <2>1
  <2>3. 2 * y <= 2 * (Part * x) + z
    BY <1>3, <2>1
  <2> HIDE DEF k, w
  <2> QED BY <2>1, <2>2, <2>3
<1> HIDE DEF k, w
<1>6. IntValued(f, T) /\ IntValued(g, T) /\ IntValued(h, T) /\ IntValued(k, T) /\ IntValued(w, T)
  BY <1>2, <1>3, <1>5 DEF IntValued
<1>7. /\ SumFunctionOnSet(k, T) = (2 * Part) * SumFunctionOnSet(f, T) + 1 * SumFunctionOnSet(h, T)
      /\ SumFunctionOnSet(w, T) = 2 * SumFunctionOnSet(g, T) + 0 * SumFunctionOnSet(g, T)
  <2>1. 2 * Part \in Int
    BY <1>t
  <2> QED BY <1>1, <1>4, <1>6, <2>1, SumLinear
<1>8. SumFunctionOnSet(w, T) <= SumFunctionOnSet(k, T)
  BY <1>1, <1>5, <1>6, SumMonotonic
<1>9. SumFunctionOnSet(f, T) <= SumFunctionOnSet(f, A) /\ SumFunctionOnSet(f, A) <= Cap
  <2>1. \A x \in A : f[x] \in Nat
    BY <1>1
  <2> QED BY <1>1, <1>2, <2>1, SumSubset DEF CapInv
<1>10. PICK F \in Int, G \in Int, H \in Int :
          F = SumFunctionOnSet(f, T) /\ G = SumFunctionOnSet(g, T) /\ H = SumFunctionOnSet(h, T)
  BY <1>1, <1>6, SumInt
<1>11. F <= Cap
  <2>1. SumFunctionOnSet(f, A) \in Int
    BY <1>1, SumInt DEF IntValued
  <2> QED BY <1>t, <1>9, <1>10, <2>1
<1>12. 2 * G <= (2 * Part) * F + H
  BY <1>7, <1>8, <1>10
<1>13. (2 * Part) * F <= 2 * Part * Cap
  <2>1. 2 * Part \in Nat
    BY <1>t
  <2>2. \A a \in Nat, x \in Int, y \in Int : x <= y => a * x <= a * y
    OBVIOUS
  <2> QED BY <1>t, <1>10, <1>11, <2>1, <2>2
<1>14. 2 * G <= 2 * Part * Cap + H
  <2>1. (2 * Part) * F \in Int /\ 2 * Part * Cap \in Int
    BY <1>t, <1>10
  <2> QED BY <1>10, <1>12, <1>13, <2>1
<1> QED BY <1>1, <1>2, <1>h, <1>10, <1>14

(***************************************************************************)
(* If every good answer of the provider reports its tokens, what it        *)
(* charges for the scans of a day exceeds the daily cap at most by what    *)
(* single scans cost beyond their reservation and half a cent per call,    *)
(* for any number of concurrent scans, failed calls, lost answers, aborts  *)
(* and midnights, and any prices.                                          *)
(***************************************************************************)
THEOREM CapTheorem ==
  ASSUME ~UsageMayBeMissing
  PROVE  Spec => []BilledWithinCap
<1>1. Init => CapInv
  <2> SUFFICES ASSUME Init, NEW d \in Day PROVE SumFunctionOnSet(Held(d), Started) <= Cap
    BY DEF CapInv
  <2>1. Started = {}
    BY DEF Init, Started
  <2>2. SumFunctionOnSet(Held(d), Started) = 0
    BY <2>1, SumEmpty
  <2> QED BY <2>2, LedgerAssumption DEF LedgerAssumption
<1>2. IInv /\ LedgerInv /\ SpendIsAccounted /\ CapInv => BilledWithinCap
  BY HeldCoversBill
<1> QED BY <1>1, <1>2, CapStep, LedgerInvariance, SpendTheorem, PTL DEF Spec

-----------------------------------------------------------------------------
(* What the user entered.                                                    *)

Active(s) == pc[s] \notin {"idle", "done"}

(* Nobody enters the total of a bill while a scan of it is under way. *)
NoTotalMeanwhile ==
  \A s \in Scan :
    Active(s) /\ meta'[target[s]]["total"] = "user" => meta[target[s]]["total"] = "user"

TotalStays ==
  \A b \in Bill : meta[b]["total"] = "user" => meta'[b]["total"] = "user"

(* A scan that found no total may still rely on it. *)
SnapshotHolds ==
  \A s \in Scan : Active(s) /\ unpaid[s] => meta[target[s]]["total"] # "user"

LEMMA SnapshotStep ==
  ASSUME "total" \in Fields, IInv, IInv', SnapshotHolds, [Next]_vars, [NoTotalMeanwhile]_vars
  PROVE  SnapshotHolds' /\ [TotalStays]_vars
<1> USE DEF Goto, ledgerVars, billVars, costVars, rowVars, scanVars, Active
<1>t. TypeOK /\ \A x \in Scan : Active(x) => target[x] \in Bill
  BY DEF IInv, TypeOK
<1>1. ASSUME UNCHANGED <<meta, target, unpaid>>, \A x \in Scan : Active(x)' => Active(x)
      PROVE  SnapshotHolds' /\ [TotalStays]_vars
  BY <1>1 DEF SnapshotHolds, TotalStays
<1>2. CASE UNCHANGED vars
  BY <1>2, <1>1 DEF vars
<1>3. ASSUME NEW s \in Scan, ScanStep(s)
      PROVE  SnapshotHolds' /\ [TotalStays]_vars
  <2>1. ASSUME NEW b \in Bill, Start(s, b)
        PROVE  SnapshotHolds' /\ [TotalStays]_vars
    <3>1. /\ UNCHANGED meta /\ target'[s] = b
          /\ unpaid'[s] => meta[b]["total"] = "none"
          /\ \A x \in Scan \ {s} : UNCHANGED <<pc[x], target[x], unpaid[x]>>
      BY <2>1, <1>t DEF Start, TypeOK
    <3> QED BY <3>1 DEF SnapshotHolds, TotalStays
  <2>2. ASSUME NEW shown \in SUBSET Fields, PatchBill(s, shown)
        PROVE  SnapshotHolds' /\ [TotalStays]_vars
    <3>1. /\ pc[s] = "patch" /\ UNCHANGED <<target, unpaid>> /\ target[s] \in Bill
          /\ \A x \in Scan : Active(x)' => Active(x) /\ x # s
      BY <2>2, <1>t DEF PatchBill, TypeOK
    <3>2. \A b \in Bill : b # target[s] => meta'[b] = meta[b]
      BY <2>2, <1>t DEF PatchBill, TypeOK
    <3>3. meta'[target[s]]["total"] \in {s, meta[target[s]]["total"]}
      BY <2>2, <3>1, <1>t DEF PatchBill, TypeOK
    <3>4. ~unpaid[s] => meta'[target[s]]["total"] = meta[target[s]]["total"]
      BY <2>2, <3>1, <1>t DEF PatchBill, TypeOK
    <3>5. s # "user"
      BY ScanAssumption DEF ScanAssumption
    <3>6. TotalStays
      BY <3>1, <3>2, <3>4 DEF TotalStays, SnapshotHolds
    <3>7. SnapshotHolds'
      BY <3>1, <3>2, <3>3, <3>5, <1>t DEF SnapshotHolds
    <3> QED BY <3>6, <3>7
  <2>3. CASE \/ CountScan(s) \/ RefuseScan(s) \/ BeginRun(s) \/ BeginRunFails(s)
             \/ OpenReceipt(s) \/ OpenFails(s)
    BY <2>3, <1>1, <1>t
       DEF CountScan, RefuseScan, BeginRun, BeginRunFails, OpenReceipt, OpenFails, CloseWith, TypeOK
  <2>4. CASE ReserveSpend(s) \/ ReserveRejected(s) \/ ReserveFails(s)
    BY <2>4, <1>1, <1>t DEF ReserveSpend, ReserveRejected, ReserveFails, CloseWith, TypeOK
  <2>5. ASSUME NEW cost, NEW answer, NEW r, CallAgain(s, cost, answer) \/ CallLast(s, cost, answer, r)
        PROVE  SnapshotHolds' /\ [TotalStays]_vars
    BY <2>5, <1>1, <1>t DEF CallAgain, CallLast, TypeOK
  <2>6. CASE FinalizeSpend(s) \/ FinalizeFails(s) \/ Complete(s) \/ Close(s) \/ Abort(s) \/ SaveItems(s)
    BY <2>6, <1>1, <1>t DEF FinalizeSpend, FinalizeFails, Complete, Close, Abort, SaveItems, TypeOK
  <2> QED BY <1>3, <2>1, <2>2, <2>3, <2>4, <2>5, <2>6 DEF ScanStep
<1>4. ASSUME NEW b \in Bill, NEW entered \in SUBSET Fields, EditBill(b, entered)
      PROVE  SnapshotHolds' /\ [TotalStays]_vars
  <2>1. UNCHANGED <<pc, target, unpaid>>
    BY <1>4 DEF EditBill
  <2>2. \A c \in Bill : meta'[c]["total"] \in {"user", meta[c]["total"]}
    BY <1>4, <1>t DEF EditBill, TypeOK
  <2>3. NoTotalMeanwhile \/ UNCHANGED vars
    OBVIOUS
  <2>4. SnapshotHolds'
    BY <2>1, <2>3, <1>1 DEF SnapshotHolds, NoTotalMeanwhile, vars
  <2> QED BY <2>2, <2>4 DEF TotalStays
<1>5. CASE (\E b \in Bill : EditItems(b)) \/ Clock
  BY <1>5, <1>1 DEF EditItems, Clock
<1> QED BY <1>2, <1>3, <1>4, <1>5 DEF Next

(***************************************************************************)
(* A total that the user entered is never replaced, if nobody enters one   *)
(* while a scan of that bill is under way: of "never clobber a value the   *)
(* user already entered" (receipt.go:384) this much holds for the total,   *)
(* however many scans of the bill overlap.  The name and the date have no  *)
(* such condition, as the run ScanClobbers shows.                          *)
(***************************************************************************)
THEOREM UserTotalTheorem ==
  ASSUME "total" \in Fields
  PROVE  Spec /\ [][NoTotalMeanwhile]_vars => [][TotalStays]_vars
<1>1. Init => SnapshotHolds
  BY DEF Init, SnapshotHolds, Active
<1>2. /\ IInv /\ IInv' /\ SnapshotHolds /\ [Next]_vars /\ [NoTotalMeanwhile]_vars
         => SnapshotHolds'
      /\ IInv /\ IInv' /\ SnapshotHolds /\ [Next]_vars /\ [NoTotalMeanwhile]_vars
         => [TotalStays]_vars
  BY SnapshotStep
<1> QED BY <1>1, <1>2, Invariance, PTL DEF Spec
=============================================================================
