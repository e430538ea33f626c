----------------------------- MODULE MCMigration -----------------------------
(* Instances of Migration for TLC. *)
EXTENDS Migration, TLC
\* A file of the same size under the same digest metadata, a conflict; copies are what the
\* first of the runs leaves
Leftovers == {[data |-> "other", sha |-> "same"], [data |-> "same", sha |-> "none"]}
Symmetry == Permutations(Path) \cup Permutations(Run)
=============================================================================
