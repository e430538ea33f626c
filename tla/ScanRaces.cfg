SPECIFICATION Spec
CONSTANTS
  Scan = {s1, s2}
  LastDay = 2
  Cap = 2
  CallReserve = 1
  MaxCalls = 2
  Bill = {b1, b2}
  MaxScans = 1
  ReceiptCap = 2
  Part = 3
  CallCost = {1, 2, 6}
  UsageMayBeMissing = FALSE
  Fields = {}
  NoBill = NoBill
SYMMETRY Symmetry
INVARIANTS TypeOK ScansWithinLimit BilledWithinCap LedgerIsExact ReconciledIsSettled SavedItemsAreRecorded SpendIsAccounted
