SPECIFICATION Spec
CONSTANTS
  Scan = {s1}
  LastDay = 1
  Cap = 2
  CallReserve = 1
  MaxCalls = 2
  Bill = {b1}
  MaxScans = 1
  ReceiptCap = 2
  Part = 3
  CallCost = {1, 3}
  UsageMayBeMissing = FALSE
  Fields = {"restaurant", "total"}
  NoBill = NoBill
SYMMETRY Symmetry
PROPERTY UserEntriesAreKept
