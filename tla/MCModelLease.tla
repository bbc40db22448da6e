---------------------------- MODULE MCModelLease ----------------------------
(* Small instances of ModelLease: the .cfg files give the bounds.          *)
EXTENDS ModelLease, TLC

\* Threads that ask for the same are only compared, so they may be permuted.
Symmetry == Permutations(Proofreads) \cup Permutations(Insights)
=============================================================================
