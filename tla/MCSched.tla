------------------------------ MODULE MCSched ------------------------------
(* Sched for TLC: the configurations give the constants.                   *)
EXTENDS Sched, TLC

\* The processes of one set are created in any order and behave alike: sound
\* for the invariants, not used where a temporal property is checked.
Symmetry == Permutations(SpawnSet) \union Permutations(BootSet)
=============================================================================
