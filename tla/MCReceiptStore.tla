---------------------------- MODULE MCReceiptStore ----------------------------
(* Small instances of ReceiptStore.  Names, processes, users and bills are     *)
(* interchangeable; symmetry is used by the runs without liveness only.        *)
EXTENDS ReceiptStore, TLC

Symmetry == Permutations(Bill) \cup Permutations(User) \cup Permutations(Path)
            \cup Permutations(Writer) \cup Permutations(Worker)
=============================================================================
