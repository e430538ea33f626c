----------------------------- MODULE MCReceiptScan -----------------------------
(* Small instances of ReceiptScan; scans and bills are interchangeable. *)
EXTENDS ReceiptScan, TLC

Symmetry == Permutations(Scan) \cup Permutations(Bill)
=============================================================================
